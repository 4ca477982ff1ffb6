----------------------------- MODULE LiveDuplex -----------------------------
(***************************************************************************)
(* The live duplex session of the command line (realtime_commands.rs,      *)
(* run_duplex and run_duplex_once) over the CPAL streams: a control thread *)
(* opens and starts two streams, polls their numeric faults once a second, *)
(* stops them, and restarts a faulted run a bounded number of times.       *)
(*                                                                         *)
(* Three threads meet here: the control thread, one action per blocking    *)
(* step or read of shared state; the backend, which may publish a stream   *)
(* fault at any time; and the two callbacks, which fill the ring and raise *)
(* the bridge's health, whose latched numeric faults count as fatal.       *)
(***************************************************************************)
EXTENDS DuplexState

CONSTANTS RestartAttempts, \* options.restart_attempts
          Duration         \* options.duration_seconds: polls of one run

ASSUME LiveDuplexAssumption ==
  RestartAttempts \in Nat /\ Duration \in Nat \ {0} /\ "callback" \in StreamFaults

VARIABLES
  pc,            \* where the control thread is
  machine,       \* the run's DuplexStateMachine
  attempt,       \* restarts made
  input, output, \* the two CpalStreams
  filled,        \* the ring has held target_fill frames
  health,        \* bridge health, with a latched adaptive fault as fatal
  engine,        \* output_metrics.fault # 0
  seen,          \* the health of the poll's snapshot
  terminal,      \* terminal_fault
  polls,         \* polls made in this run
  stopFailed,    \* a pause of this run's shutdown failed
  outcome,       \* what run_duplex_once returned
  refused,       \* the machine refused an event
  published      \* history: a stream fault was published while a poll was to come

session == <<machine, filled, health, engine, seen, terminal, polls, stopFailed, outcome, refused, published>>
vars == <<pc, attempt, input, output, session>>

Stages == {"begin", "startInput", "prefill", "startOutput", "poll", "judge",
           "stop", "stopOutput", "stopInput", "report", "returned", "done"}
Health == {"normal", "degraded", "fatal"}
Streams == [open : BOOLEAN, running : BOOLEAN, fault : StreamFaults \cup {None}]
Closed == [open |-> FALSE, running |-> FALSE, fault |-> None]
Opened == [Closed EXCEPT !.open = TRUE]

Init ==
  /\ pc = "begin" /\ machine = Fresh /\ attempt = 0
  /\ input = Closed /\ output = Closed
  /\ filled = FALSE /\ health = "normal" /\ engine = FALSE
  /\ seen = "normal" /\ terminal = None /\ polls = 0 /\ stopFailed = FALSE
  /\ outcome = "none" /\ refused = FALSE /\ published = FALSE

\* An Err of the machine would end the run; NoTransitionRefused shows there is
\* none, so what would follow is not modelled.
Transition(successors) ==
  IF successors # {}
    THEN machine' \in successors /\ UNCHANGED refused
    ELSE refused' = TRUE /\ UNCHANGED machine

\* Mutant: a stream that is dropped goes on running.
ReturnRunning(result) == /\ pc' = "returned" /\ outcome' = result
                         /\ input' = [input EXCEPT !.open = FALSE]
                         /\ output' = [output EXCEPT !.open = FALSE]

\* Leaving run_duplex_once drops both streams, which stops them.
Return(result) == /\ pc' = "returned" /\ outcome' = result
                  /\ input' = [input EXCEPT !.open = FALSE, !.running = FALSE]
                  /\ output' = [output EXCEPT !.open = FALSE, !.running = FALSE]

-----------------------------------------------------------------------------
(* The control thread: one run.                                            *)

\* Fresh bridge, engine and streams; options or a device may be refused.
OpenStreams ==
  /\ pc = "begin"
  /\ machine' \in {n \in Machines : StartRequested(Fresh, n)}
  /\ filled' = FALSE /\ health' = "normal" /\ engine' = FALSE
  /\ seen' = "normal" /\ terminal' = None /\ polls' = 0 /\ stopFailed' = FALSE
  /\ published' = FALSE
  /\ \/ pc' = "startInput" /\ input' = Opened /\ output' = Opened /\ outcome' = "none"
     \/ pc' = "returned" /\ input' = Closed /\ output' = Closed /\ outcome' = "error"
  /\ UNCHANGED <<attempt, refused>>

\* start_inner: a stream that already faulted is not started, play may fail
Playing(s) == [s EXCEPT !.running = TRUE]

StartInput ==
  /\ pc = "startInput"
  /\ \/ /\ input.fault = None
        /\ input' = Playing(input) /\ pc' = "prefill"
        /\ UNCHANGED <<output, outcome>>
     \/ Return("error")
  /\ UNCHANGED <<machine, attempt, filled, health, engine, seen, terminal, polls,
                 stopFailed, refused, published>>

\* Mutant: the output starts when the wait is over, filled or not.
PrefillUnchecked ==
  /\ pc = "prefill"
  /\ pc' = "startOutput"
  /\ UNCHANGED <<attempt, input, output, session>>

\* The wait ends when the ring is filled, the input faulted or two seconds
\* have passed; what then counts is the fill.
Prefill ==
  /\ pc = "prefill"
  /\ IF filled THEN pc' = "startOutput" /\ UNCHANGED <<input, output, outcome>>
               ELSE Return("error")
  /\ UNCHANGED <<machine, attempt, filled, health, engine, seen, terminal, polls,
                 stopFailed, refused, published>>

StartOutput ==
  /\ pc = "startOutput"
  /\ \/ /\ output.fault = None
        /\ output' = Playing(output) /\ pc' = "poll"
        /\ Transition({n \in Machines : StreamsStarted(machine, n)})
        /\ UNCHANGED <<input, outcome>>
     \/ Return("error") /\ UNCHANGED <<machine, refused>>
  /\ UNCHANGED <<attempt, filled, health, engine, seen, terminal, polls, stopFailed, published>>

\* The poll reads the bridge's snapshot first ...
PollSnapshot ==
  /\ pc = "poll" /\ polls < Duration
  /\ seen' = health /\ polls' = polls + 1 /\ pc' = "judge"
  /\ UNCHANGED <<machine, attempt, input, output, filled, health, engine, terminal,
                 stopFailed, outcome, refused, published>>

MergeFaults(i, o) == IF i # None THEN i ELSE o

\* The adaptive bridge of this command raises no health but fatal, so this
\* branch is never taken.
NewlyDegraded == seen = "degraded" /\ machine.state = "running"

\* Mutant: a fault does not end the polling.
PollGoesOn ==
  /\ pc = "judge" /\ pc' = "poll"
  /\ terminal' = MergeFaults(input.fault, output.fault)
  /\ IF terminal' # None THEN Transition({n \in Machines : StreamFault(machine, n, terminal')})
                         ELSE UNCHANGED <<machine, refused>>
  /\ UNCHANGED <<attempt, input, output, filled, health, engine, seen, polls,
                 stopFailed, outcome, published>>

\* ... and then the faults of the streams and of the engine.
PollJudge ==
  /\ pc = "judge"
  /\ terminal' = MergeFaults(input.fault, output.fault)
  /\ IF terminal' # None \/ seen = "fatal" \/ engine
       THEN /\ pc' = "stop"
            /\ LET f == IF terminal' = None THEN "callback" ELSE terminal'
               IN Transition({n \in Machines : StreamFault(machine, n, f)})
       ELSE /\ pc' = "poll"
            /\ IF NewlyDegraded THEN Transition({n \in Machines : QualityDegraded(machine, n)})
                                ELSE UNCHANGED <<machine, refused>>
  /\ UNCHANGED <<attempt, input, output, filled, health, engine, seen, polls,
                 stopFailed, outcome, published>>

DurationElapsed ==
  /\ pc = "poll" /\ polls = Duration
  /\ pc' = "stop"
  /\ UNCHANGED <<attempt, input, output, session>>

RequestStop ==
  /\ pc = "stop" /\ pc' = "stopOutput"
  /\ Transition({n \in Machines : StopRequested(machine, n)})
  /\ UNCHANGED <<attempt, input, output, filled, health, engine, seen, terminal, polls,
                 stopFailed, outcome, published>>

\* stop_inner: a failed pause leaves the stream running
Paused(s, t, failed) ==
  \/ t = [s EXCEPT !.running = FALSE] /\ ~failed
  \/ s.running /\ t = s /\ failed

StopOutput ==
  /\ pc = "stopOutput" /\ pc' = "stopInput"
  /\ stopFailed' \in BOOLEAN /\ Paused(output, output', stopFailed')
  /\ UNCHANGED <<machine, attempt, input, filled, health, engine, seen, terminal, polls,
                 outcome, refused, published>>

\* Both stops are attempted before either error is looked at.
StopInput ==
  /\ pc = "stopInput" /\ pc' = "report"
  /\ \E failed \in BOOLEAN : /\ Paused(input, input', failed)
                             /\ stopFailed' = (stopFailed \/ failed)
  /\ Transition({n \in Machines : StreamsStopped(machine, n)})
  /\ UNCHANGED <<attempt, output, filled, health, engine, seen, terminal, polls,
                 outcome, published>>

\* Mutant: the summary only knows what the polls saw.
FaultedAsSeen == terminal # None \/ seen = "fatal"

\* The bridge and the engine are read again after the streams stopped.
Faulted == terminal # None \/ health = "fatal" \/ engine

Report ==
  /\ pc = "report"
  /\ Return(IF stopFailed THEN "error" ELSE IF Faulted THEN "faulted" ELSE "clean")
  /\ UNCHANGED <<machine, attempt, filled, health, engine, seen, terminal, polls,
                 stopFailed, refused, published>>

-----------------------------------------------------------------------------
(* run_duplex: restart a faulted or failed run while attempts are left.    *)

\* Mutant: one restart too many.
RetryOneMore == outcome \in {"faulted", "error"} /\ attempt <= RestartAttempts

Retry == outcome \in {"faulted", "error"} /\ attempt < RestartAttempts

\* Mutant: a restart is not counted.
RestartUncounted ==
  /\ pc = "returned" /\ Retry
  /\ pc' = "begin"
  /\ UNCHANGED <<attempt, input, output, session>>

Restart ==
  /\ pc = "returned" /\ Retry
  /\ attempt' = attempt + 1 /\ pc' = "begin"
  /\ UNCHANGED <<input, output, session>>

Finish ==
  /\ pc = "returned" /\ ~Retry
  /\ pc' = "done"
  /\ UNCHANGED <<attempt, input, output, session>>

-----------------------------------------------------------------------------
(* The backend and the callbacks.                                          *)

\* A poll that has not looked at the streams yet is still to come.
PollToCome == pc = "judge" \/ (pc = "poll" /\ polls < Duration)

\* The error callback of an open stream stores a numeric fault, over an
\* earlier one too.

InputFault ==
  /\ input.open
  /\ \E f \in StreamFaults : input' = [input EXCEPT !.fault = f]
  /\ published' = (published \/ PollToCome)
  /\ UNCHANGED <<pc, machine, attempt, output, filled, health, engine, seen, terminal, polls,
                 stopFailed, outcome, refused>>

OutputFault ==
  /\ output.open
  /\ \E f \in StreamFaults : output' = [output EXCEPT !.fault = f]
  /\ published' = (published \/ PollToCome)
  /\ UNCHANGED <<pc, machine, attempt, input, filled, health, engine, seen, terminal, polls,
                 stopFailed, outcome, refused>>

\* raise_health never lowers it; the producer and the adaptive consumer raise
\* only the fatal one
Raised(h) == {h, "fatal"}

InputCallback ==
  /\ input.running
  /\ filled' \in {filled, TRUE} /\ health' \in Raised(health)
  /\ UNCHANGED <<pc, machine, attempt, input, output, engine, seen, terminal, polls,
                 stopFailed, outcome, refused, published>>

OutputCallback ==
  /\ output.running
  /\ health' \in Raised(health) /\ engine' \in {engine, TRUE}
  /\ UNCHANGED <<pc, machine, attempt, input, output, filled, seen, terminal, polls,
                 stopFailed, outcome, refused, published>>

Start == OpenStreams \/ StartInput \/ Prefill \/ StartOutput
Poll == PollSnapshot \/ PollJudge \/ DurationElapsed
Stop == RequestStop \/ StopOutput \/ StopInput \/ Report
Control == Start \/ Poll \/ Stop \/ Restart \/ Finish
Backend == InputFault \/ OutputFault \/ InputCallback \/ OutputCallback
Ended == pc = "done" /\ UNCHANGED vars

Next == Control \/ Backend \/ Ended

Spec == Init /\ [][Next]_vars

\* The control thread keeps running; the backend owes nothing.
FairSpec == Spec /\ WF_vars(Control)

-----------------------------------------------------------------------------
\* Type correctness of the session.
TypeOK ==
  /\ pc \in Stages /\ machine \in Machines /\ attempt \in 0..RestartAttempts
  /\ input \in Streams /\ output \in Streams
  /\ filled \in BOOLEAN /\ health \in Health /\ seen \in Health /\ engine \in BOOLEAN
  /\ terminal \in StreamFaults \cup {None} /\ polls \in 0..Duration
  /\ stopFailed \in BOOLEAN /\ refused \in BOOLEAN /\ published \in BOOLEAN
  /\ outcome \in {"none", "clean", "faulted", "error"}

\* No run ends in a DuplexStateTransitionError: whatever the callbacks publish
\* between two polls, every event the control thread sends has a row.
NoTransitionRefused == ~refused

\* "Startup begins capture first and waits for eight requested blocks of fill
\* before starting output. Shutdown stops output then input": the output runs
\* only over a filled ring and a running input, unless its own stop failed.
OutputWithinInput == output.running => filled /\ (input.running \/ stopFailed)

\* What callbacks latched between the last poll and the end of the run is not
\* lost: a run reported clean has neither a fatal bridge nor a faulted engine.
CleanReport == outcome = "clean" => health # "fatal" /\ ~engine /\ terminal = None

\* "The control thread observes them, transitions to Faulted": a stream fault
\* published while a poll was still to come is not lost, whichever stream it is
\* of and whatever is published after it.
StreamFaultObserved == outcome = "clean" => ~published

\* "Backend faults stop both streams": a session that is faulted comes to a
\* point where neither stream runs, even if a pause fails.
FaultStopsBoth == (machine.state = "faulted") ~> (~input.running /\ ~output.running)

\* "Recovery is optional and bounded by the CLI restart count": the command
\* ends, with a faulty backend too.
CommandEnds == <>(pc = "done")
=============================================================================
