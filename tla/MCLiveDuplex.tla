---------------------------- MODULE MCLiveDuplex ----------------------------
(***************************************************************************)
(* The two control threads that drive a DuplexStateMachine: the live       *)
(* duplex command, with one restart and runs of two polls, and the         *)
(* reconnecting control plane of the wall-clock soak, with the machine's   *)
(* five attempts.  They are different programs, so in every behaviour the  *)
(* one that `focus' names moves alone.                                     *)
(*                                                                         *)
(* One unit of time is the initial backoff, and the clamp is one doubling  *)
(* lower than in the code so that an attempt meets it.                     *)
(***************************************************************************)
EXTENDS LiveDuplex, Integers

VARIABLES focus,
          reconnecting, \* device: the DuplexStateMachine of the soak
          due,          \* recovery_due: time left until the reopen; 0 is None or already due
          armed,        \* recovery_due is Some
          delay,        \* history: the documented delay of the episode's last attempt
          ahead         \* history: the time waited in the current failure episode, less the
                        \* documented delays of all its attempts

recoveryVars == <<reconnecting, due, armed, delay, ahead>>
episode == <<delay, ahead>>
allVars == <<focus, vars, recoveryVars>>

-----------------------------------------------------------------------------
(* The reconnecting control plane (faulted_wall_clock_soak.rs): it waits   *)
(* the backoff the machine prescribes before each reopen attempt and       *)
(* reports a stable run after an interval of its own choosing.  Devices    *)
(* may be lost again at any time.                                          *)

EpisodeOver == delay' = 0 /\ ahead' = 0

RecoveryInit ==
  reconnecting = Fresh /\ due = 0 /\ armed = FALSE /\ delay = 0 /\ ahead = 0

\* schedule_next_recovery; without a backoff (the budget is exhausted) the control plane gives
\* up and only a stop is left.
Schedule == due' = NextBackoff(reconnecting') /\ armed' = CanAttemptRecovery(reconnecting')
Unscheduled == due' = 0 /\ armed' = FALSE

Begin == /\ StartRequested(reconnecting, reconnecting') \/ StreamsStarted(reconnecting, reconnecting')
         /\ UNCHANGED <<due, armed, episode>>

Degrade == QualityDegraded(reconnecting, reconnecting') /\ UNCHANGED <<due, armed, episode>>

\* A stable run ends the episode.
Stable == StableRunObserved(reconnecting, reconnecting') /\ EpisodeOver /\ UNCHANGED <<due, armed>>

Fault == /\ \E f \in StreamFaults : StreamFault(reconnecting, reconnecting', f)
         /\ Schedule /\ UNCHANGED episode

Tick == /\ armed /\ due > 0
        /\ due' = due - 1 /\ ahead' = ahead + 1
        /\ UNCHANGED <<reconnecting, armed, delay>>

\* "The first attempt is delayed 250 ms and subsequent attempts double up to 4 s."
NextDelay == IF reconnecting.attempts = 0 THEN InitialBackoff
             ELSE IF 2 * delay <= MaxBackoff THEN 2 * delay ELSE MaxBackoff

\* Mutant: the reopen does not wait for its time.
ReopenAtOnce == /\ armed
                /\ RecoveryRequested(reconnecting, reconnecting')
                /\ delay' = NextDelay /\ ahead' = ahead - delay'
                /\ UNCHANGED <<due, armed>>

Reopen == /\ armed /\ due = 0
          /\ RecoveryRequested(reconnecting, reconnecting')
          /\ delay' = NextDelay /\ ahead' = ahead - delay'
          /\ UNCHANGED <<due, armed>>

\* Mutant: a failed attempt does not schedule the next one.
ReopenFailedForGood ==
  RecoveryFailed(reconnecting, reconnecting') /\ Unscheduled /\ UNCHANGED episode

ReopenFailed == RecoveryFailed(reconnecting, reconnecting') /\ Schedule /\ UNCHANGED episode

Reopened == RecoverySucceeded(reconnecting, reconnecting') /\ Unscheduled /\ UNCHANGED episode

End == /\ StopRequested(reconnecting, reconnecting') \/ StreamsStopped(reconnecting, reconnecting')
       /\ Unscheduled /\ EpisodeOver

RecoveryNext ==
  Begin \/ Degrade \/ Stable \/ Fault \/ Tick \/ Reopen \/ ReopenFailed \/ Reopened \/ End

-----------------------------------------------------------------------------
MCInit == focus \in {"live", "recovery"} /\ Init /\ RecoveryInit

LiveMoves(A) == focus = "live" /\ A /\ UNCHANGED <<focus, recoveryVars>>
RecoveryMoves(A) == focus = "recovery" /\ A /\ UNCHANGED <<focus, vars>>

MCNext == LiveMoves(Next) \/ RecoveryMoves(RecoveryNext)

\* Both control threads keep running: time passes, a due reopen is attempted, and an attempt
\* succeeds or fails.
Fairness ==
  /\ WF_allVars(LiveMoves(Control))
  /\ WF_allVars(RecoveryMoves(Tick))
  /\ WF_allVars(RecoveryMoves(Reopen))
  /\ WF_allVars(RecoveryMoves(ReopenFailed \/ Reopened))

MCSpec == MCInit /\ [][MCNext]_allVars /\ Fairness

-----------------------------------------------------------------------------
\* run_duplex: the machine refuses no event, the output runs only over a filled ring and a
\* running input, and a run reported clean left no latched and no observable fault behind.
LiveSound == /\ TypeOK /\ NoTransitionRefused /\ OutputWithinInput
             /\ CleanReport /\ StreamFaultObserved

\* run_duplex: the command ends.
LiveEnds == focus = "live" => CommandEnds

\* Type correctness, the recovery budget of the machine included.
RecoveryTypeOK ==
  /\ reconnecting \in Machines /\ armed \in BOOLEAN /\ due \in 0 .. MaxBackoff
  /\ delay \in 0 .. MaxBackoff /\ ahead \in Int

\* A recorded fault belongs to the current episode: it is set while the session is faulted or
\* reopening and a running, starting or stopped session never shows an old one.
FaultOfEpisode ==
  /\ reconnecting.state \in {"faulted", "recovering"} => reconnecting.fault # None
  /\ reconnecting.state \in {"stopped", "starting", "running", "degraded"} => reconnecting.fault = None

\* Every attempt of an episode, however many reopens of it succeeded only to fail again, comes
\* after the whole documented delay; a flapping device cannot shorten it.
BackoffRespected == reconnecting.state = "recovering" => ahead >= 0

\* faulted_wall_clock_soak: a recorded fault is of the current episode, and no attempt comes
\* before the delay of its episode.
RecoverySound == RecoveryTypeOK /\ FaultOfEpisode /\ BackoffRespected

\* "Recovery history intentionally remains until stability is proven": only a stable run or a
\* new session forgets attempts, so no reopen and no further fault ever does.
HistoryKept ==
  [][reconnecting'.attempts < reconnecting.attempts =>
       \/ reconnecting.state \in {"running", "degraded"} /\ reconnecting'.state = "running"
       \/ reconnecting'.state = "stopped"]_allVars

\* A flapping device is not reopened for ever: infinitely many attempts need infinitely many
\* proofs of stability or new sessions.
FlappingBounded == []<>(reconnecting.state = "recovering") => []<><<Stable \/ End>>_recoveryVars

\* A fault within the budget is followed by a reopen attempt or by a stop.
FaultAnswered ==
  CanAttemptRecovery(reconnecting) ~> reconnecting.state \in {"recovering", "stopping"}

\* faulted_wall_clock_soak: only stability forgets an attempt, a flapping device is not
\* reopened for ever, and a fault within the budget is followed by a reopen attempt or by a
\* stop.
Reconnects == HistoryKept /\ FlappingBounded /\ FaultAnswered
=============================================================================
