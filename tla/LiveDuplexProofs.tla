-------------------------- MODULE LiveDuplexProofs --------------------------
(***************************************************************************)
(* Proofs about the two control threads of a DuplexStateMachine, for every *)
(* restart count, duration, attempt budget and backoff: what the live      *)
(* duplex command reports, and that the reconnecting control plane waits   *)
(* as long as documented.                                                  *)
(***************************************************************************)
EXTENDS MCLiveDuplex, FiniteSetTheorems, TLAPS

-----------------------------------------------------------------------------
(* The live duplex command.                                                *)

Quiet(s) == ~s.open /\ ~s.running

\* The state the machine is in at each step of the control thread.
MachinePlaced ==
  /\ pc \in {"startInput", "prefill", "startOutput"} => machine.state = "starting"
  /\ pc \in {"poll", "judge"} => machine.state = "running"
  /\ pc = "stop" => machine.state \in {"running", "faulted"}
  /\ pc \in {"stopOutput", "stopInput"} => machine.state = "stopping"

\* What runs at each step, and how far the ring is filled.
StreamsPlaced ==
  /\ pc \in {"begin", "returned", "done"} => Quiet(input) /\ Quiet(output)
  /\ pc \in {"startInput", "prefill", "startOutput"} => ~output.running
  /\ pc \in {"prefill", "startOutput", "poll", "judge", "stop", "stopOutput", "stopInput"} => input.running
  /\ pc \in {"startOutput", "poll", "judge", "stop", "stopOutput", "stopInput", "report"} => filled
  /\ pc \in {"stopInput", "report"} /\ output.running => stopFailed

\* A stream fault published while a poll was to come is on its stream until
\* that poll, and in the run's verdict from then on.
FaultPlaced ==
  /\ pc \in {"startInput", "prefill", "startOutput"} => ~published
  /\ pc \in {"poll", "judge"} /\ published => input.fault # None \/ output.fault # None
  /\ pc = "poll" /\ published => polls < Duration
  /\ pc \in {"stop", "stopOutput", "stopInput", "report"} /\ published => terminal # None

\* A verdict is there only after the run, and a clean one hides nothing.
OutcomePlaced ==
  /\ pc \notin {"begin", "returned", "done"} => outcome = "none"
  /\ pc = "begin" => outcome # "clean"
  /\ outcome = "clean" => health # "fatal" /\ ~engine /\ terminal = None /\ ~published

LiveInv ==
  /\ TypeOK /\ ~refused /\ health # "degraded" /\ seen # "degraded"
  /\ MachinePlaced /\ StreamsPlaced /\ FaultPlaced /\ OutcomePlaced

LEMMA Zeros ==
  /\ 0 \in 0 .. MaxRecoveryAttempts /\ 0 \in 0 .. RestartAttempts /\ 0 \in 0 .. Duration
  /\ 0 \in 0 .. MaxBackoff /\ 0 \in Int
BY DuplexStateAssumption, LiveDuplexAssumption

\* The rows of the machine's table that the command uses are there.
LEMMA Rows ==
  ASSUME NEW m \in Machines
  PROVE  /\ m.state = "starting" => \E n \in Machines : StreamsStarted(m, n)
         /\ \A f \in StreamFaults : m.state = "running" => \E n \in Machines : StreamFault(m, n, f)
         /\ m.state \in {"running", "faulted"} => \E n \in Machines : StopRequested(m, n)
         /\ m.state = "stopping" => \E n \in Machines : StreamsStopped(m, n)
<1>1. \A st \in States : [m EXCEPT !.state = st] \in Machines
  BY DEF Machines
<1>2. \A f \in StreamFaults : [m EXCEPT !.state = "faulted", !.fault = f] \in Machines
  BY DEF Machines, States
<1>3. [state |-> "stopped", fault |-> None, attempts |-> 0] \in Machines
  BY Zeros DEF Machines, States
<1>4. "running" \in States /\ "stopping" \in States
  BY DEF States
<1> QED BY <1>1, <1>2, <1>3, <1>4 DEF StreamsStarted, StreamFault, StopRequested, StreamsStopped

LEMMA StartRow ==
  \A n \in {k \in Machines : StartRequested(Fresh, k)} : n.state = "starting"
BY DEF StartRequested

\* Return leaves two streams behind that neither are open nor run.
LEMMA Returned ==
  ASSUME TypeOK, NEW result \in {"clean", "faulted", "error"}, Return(result)
  PROVE  /\ input' \in Streams /\ output' \in Streams /\ Quiet(input') /\ Quiet(output')
         /\ pc' = "returned" /\ outcome' = result
BY DEF TypeOK, Return, Streams, Quiet

LEMMA LiveInit == MCInit => LiveInv
<1> SUFFICES ASSUME MCInit PROVE LiveInv
  OBVIOUS
<1> USE DEF MCInit, Init
<1>1. Fresh \in Machines /\ Closed \in Streams /\ Quiet(Closed)
  BY Zeros DEF Fresh, Machines, States, Closed, Streams, Quiet
<1>2. TypeOK
  BY <1>1, Zeros DEF TypeOK, Stages, Health
<1> QED BY <1>1, <1>2 DEF LiveInv, MachinePlaced, StreamsPlaced, FaultPlaced, OutcomePlaced

LEMMA LiveKept == LiveInv /\ UNCHANGED vars => LiveInv'
BY DEF LiveInv, vars, session, TypeOK, MachinePlaced, StreamsPlaced, FaultPlaced, OutcomePlaced, Quiet

\* The output starts over a filled ring and a running input.
LEMMA LiveStarts == LiveInv /\ Start => LiveInv'
<1> SUFFICES ASSUME LiveInv, Start PROVE LiveInv'
  OBVIOUS
<1> USE DEF LiveInv
<1>1. CASE OpenStreams
  <2>1. machine' \in Machines /\ machine'.state = "starting"
    BY <1>1, StartRow DEF OpenStreams
  <2>2. Opened \in Streams /\ Closed \in Streams /\ Quiet(Closed) /\ ~Opened.running
    BY DEF Opened, Closed, Streams, Quiet
  <2>3. /\ filled' = FALSE /\ health' = "normal" /\ engine' = FALSE /\ seen' = "normal"
        /\ terminal' = None /\ polls' = 0 /\ stopFailed' = FALSE /\ published' = FALSE
        /\ attempt' = attempt /\ refused' = refused
    BY <1>1 DEF OpenStreams
  <2>4. \/ pc' = "startInput" /\ input' = Opened /\ output' = Opened /\ outcome' = "none"
        \/ pc' = "returned" /\ input' = Closed /\ output' = Closed /\ outcome' = "error"
    BY <1>1 DEF OpenStreams
  <2>5. TypeOK'
    BY <2>1, <2>2, <2>3, <2>4, Zeros DEF TypeOK, Stages, Health
  <2> QED BY <2>1, <2>2, <2>3, <2>4, <2>5 DEF MachinePlaced, StreamsPlaced, FaultPlaced, OutcomePlaced
<1>2. CASE StartInput
  <2>1. UNCHANGED <<machine, attempt, filled, health, engine, seen, terminal, polls, stopFailed,
                    refused, published>> /\ pc = "startInput"
    BY <1>2 DEF StartInput
  <2>2. CASE Return("error")
    BY <2>1, <2>2, Returned DEF TypeOK, Stages, MachinePlaced, StreamsPlaced, FaultPlaced, OutcomePlaced
  <2>3. CASE input' = Playing(input) /\ pc' = "prefill" /\ UNCHANGED <<output, outcome>>
    <3>1. input' \in Streams /\ input'.running
      BY <2>3 DEF TypeOK, Playing, Streams
    <3>2. TypeOK'
      BY <2>1, <2>3, <3>1 DEF TypeOK, Stages
    <3> QED BY <2>1, <2>3, <3>1, <3>2 DEF MachinePlaced, StreamsPlaced, FaultPlaced, OutcomePlaced
  <2> QED BY <1>2, <2>2, <2>3 DEF StartInput
<1>3. CASE Prefill
  <2>1. UNCHANGED <<machine, attempt, filled, health, engine, seen, terminal, polls, stopFailed,
                    refused, published>> /\ pc = "prefill"
    BY <1>3 DEF Prefill
  <2>2. CASE Return("error")
    BY <2>1, <2>2, Returned DEF TypeOK, Stages, MachinePlaced, StreamsPlaced, FaultPlaced, OutcomePlaced
  <2>3. CASE filled /\ pc' = "startOutput" /\ UNCHANGED <<input, output, outcome>>
    BY <2>1, <2>3 DEF TypeOK, Stages, MachinePlaced, StreamsPlaced, FaultPlaced, OutcomePlaced
  <2> QED BY <1>3, <2>2, <2>3 DEF Prefill
<1>4. CASE StartOutput
  <2>1. UNCHANGED <<attempt, filled, health, engine, seen, terminal, polls, stopFailed, published>>
        /\ pc = "startOutput"
    BY <1>4 DEF StartOutput
  <2>2. CASE Return("error") /\ UNCHANGED <<machine, refused>>
    BY <2>1, <2>2, Returned DEF TypeOK, Stages, MachinePlaced, StreamsPlaced, FaultPlaced, OutcomePlaced
  <2>3. CASE /\ output' = Playing(output) /\ pc' = "poll" /\ UNCHANGED <<input, outcome>>
             /\ Transition({n \in Machines : StreamsStarted(machine, n)})
    <3>1. output' \in Streams
      BY <2>3 DEF TypeOK, Playing, Streams
    <3>2. machine' \in Machines /\ machine'.state = "running" /\ refused' = refused
      <4>1. \E n \in Machines : StreamsStarted(machine, n)
        BY <2>1, Rows DEF TypeOK, MachinePlaced
      <4>2. machine' \in Machines /\ StreamsStarted(machine, machine') /\ refused' = refused
        BY <2>3, <4>1 DEF Transition
      <4> QED BY <4>2 DEF StreamsStarted, TypeOK, Machines
    <3>3. TypeOK'
      BY <2>1, <2>3, <3>1, <3>2 DEF TypeOK, Stages
    <3> QED BY <2>1, <2>3, <3>1, <3>2, <3>3 DEF MachinePlaced, StreamsPlaced, FaultPlaced, OutcomePlaced
  <2> QED BY <1>4, <2>2, <2>3 DEF StartOutput
<1> QED BY <1>1, <1>2, <1>3, <1>4 DEF Start

\* A poll finds every stream fault that was published before it looked.
LEMMA LivePolls == LiveInv /\ Poll => LiveInv'
<1> SUFFICES ASSUME LiveInv, Poll PROVE LiveInv'
  OBVIOUS
<1> USE DEF LiveInv
<1>1. CASE PollSnapshot
  <2>1. /\ pc = "poll" /\ pc' = "judge" /\ seen' = health /\ polls' = polls + 1 /\ polls < Duration
        /\ UNCHANGED <<machine, attempt, input, output, filled, health, engine, terminal, stopFailed,
                       outcome, refused, published>>
    BY <1>1 DEF PollSnapshot
  <2>2. polls' \in 0 .. Duration
    BY <2>1, LiveDuplexAssumption DEF TypeOK
  <2> QED BY <2>1, <2>2 DEF TypeOK, Stages, MachinePlaced, StreamsPlaced, FaultPlaced, OutcomePlaced
<1>2. CASE PollJudge
  <2>1. /\ pc = "judge" /\ terminal' = MergeFaults(input.fault, output.fault)
        /\ UNCHANGED <<attempt, input, output, filled, health, engine, seen, polls, stopFailed,
                       outcome, published>>
    BY <1>2 DEF PollJudge
  <2>2. /\ terminal' \in StreamFaults \cup {None}
        /\ input.fault # None \/ output.fault # None => terminal' # None
    BY <2>1 DEF MergeFaults, TypeOK, Streams
  <2>3. CASE terminal' # None \/ seen = "fatal" \/ engine
    <3> DEFINE f == IF terminal' = None THEN "callback" ELSE terminal'
    <3>1. f \in StreamFaults
      BY <2>2, LiveDuplexAssumption
    <3>2. pc' = "stop" /\ Transition({n \in Machines : StreamFault(machine, n, f)})
      BY <1>2, <2>3 DEF PollJudge
    <3> HIDE DEF f
    <3>3. machine' \in Machines /\ machine'.state = "faulted" /\ refused' = refused
      <4>1. \E n \in Machines : StreamFault(machine, n, f)
        BY <2>1, <3>1, Rows DEF TypeOK, MachinePlaced
      <4>2. machine' \in Machines /\ StreamFault(machine, machine', f) /\ refused' = refused
        BY <3>2, <4>1 DEF Transition
      <4> QED BY <4>2 DEF StreamFault, TypeOK, Machines
    <3>4. TypeOK'
      BY <2>1, <2>2, <3>2, <3>3 DEF TypeOK, Stages
    <3> QED BY <2>1, <2>2, <3>2, <3>3, <3>4 DEF MachinePlaced, StreamsPlaced, FaultPlaced, OutcomePlaced
  <2>4. CASE ~(terminal' # None \/ seen = "fatal" \/ engine)
    <3>1. pc' = "poll" /\ UNCHANGED <<machine, refused>>
      BY <1>2, <2>4 DEF PollJudge, NewlyDegraded
    <3>2. ~published
      BY <2>1, <2>2, <2>4 DEF FaultPlaced
    <3>3. TypeOK'
      BY <2>1, <2>2, <3>1 DEF TypeOK, Stages
    <3> QED BY <2>1, <2>4, <3>1, <3>2, <3>3 DEF MachinePlaced, StreamsPlaced, FaultPlaced, OutcomePlaced
  <2> QED BY <2>3, <2>4
<1>3. CASE DurationElapsed
  <2>1. /\ pc = "poll" /\ polls = Duration /\ pc' = "stop"
        /\ UNCHANGED <<attempt, input, output, machine, filled, health, engine, seen, terminal, polls,
                       stopFailed, outcome, refused, published>>
    BY <1>3 DEF DurationElapsed, session
  <2>2. ~published
    BY <2>1, LiveDuplexAssumption DEF FaultPlaced
  <2> QED BY <2>1, <2>2 DEF TypeOK, Stages, MachinePlaced, StreamsPlaced, FaultPlaced, OutcomePlaced
<1> QED BY <1>1, <1>2, <1>3 DEF Poll

\* Output stops before input, and what was latched meanwhile is in the verdict.
LEMMA LiveStops == LiveInv /\ Stop => LiveInv'
<1> SUFFICES ASSUME LiveInv, Stop PROVE LiveInv'
  OBVIOUS
<1> USE DEF LiveInv
<1>1. CASE RequestStop
  <2>1. /\ pc = "stop" /\ pc' = "stopOutput"
        /\ UNCHANGED <<attempt, input, output, filled, health, engine, seen, terminal, polls,
                       stopFailed, outcome, published>>
    BY <1>1 DEF RequestStop
  <2>2. machine' \in Machines /\ machine'.state = "stopping" /\ refused' = refused
    <3>1. \E n \in Machines : StopRequested(machine, n)
      BY <2>1, Rows DEF TypeOK, MachinePlaced
    <3>2. machine' \in Machines /\ StopRequested(machine, machine') /\ refused' = refused
      BY <1>1, <3>1 DEF RequestStop, Transition
    <3> QED BY <3>2 DEF StopRequested, TypeOK, Machines
  <2>3. TypeOK'
    BY <2>1, <2>2 DEF TypeOK, Stages
  <2> QED BY <2>1, <2>2, <2>3 DEF MachinePlaced, StreamsPlaced, FaultPlaced, OutcomePlaced
<1>2. CASE StopOutput
  <2>1. /\ pc = "stopOutput" /\ pc' = "stopInput" /\ stopFailed' \in BOOLEAN
        /\ UNCHANGED <<machine, attempt, input, filled, health, engine, seen, terminal, polls,
                       outcome, refused, published>>
    BY <1>2 DEF StopOutput
  <2>2. output' \in Streams /\ (output'.running => stopFailed')
    BY <1>2 DEF StopOutput, Paused, TypeOK, Streams
  <2>3. TypeOK'
    BY <2>1, <2>2 DEF TypeOK, Stages
  <2> QED BY <2>1, <2>2, <2>3 DEF MachinePlaced, StreamsPlaced, FaultPlaced, OutcomePlaced
<1>3. CASE StopInput
  <2>1. /\ pc = "stopInput" /\ pc' = "report"
        /\ UNCHANGED <<attempt, output, filled, health, engine, seen, terminal, polls, outcome,
                       published>>
    BY <1>3 DEF StopInput
  <2>2. PICK failed \in BOOLEAN : Paused(input, input', failed) /\ stopFailed' = (stopFailed \/ failed)
    BY <1>3 DEF StopInput
  <2>3. input' \in Streams /\ stopFailed' \in BOOLEAN /\ (stopFailed => stopFailed')
    BY <2>2 DEF Paused, TypeOK, Streams
  <2>4. machine' \in Machines /\ refused' = refused
    <3>1. \E n \in Machines : StreamsStopped(machine, n)
      BY <2>1, Rows DEF TypeOK, MachinePlaced
    <3> QED BY <1>3, <3>1 DEF StopInput, Transition
  <2>5. TypeOK'
    BY <2>1, <2>3, <2>4 DEF TypeOK, Stages
  <2> QED BY <2>1, <2>3, <2>4, <2>5 DEF MachinePlaced, StreamsPlaced, FaultPlaced, OutcomePlaced
<1>4. CASE Report
  <2>1. /\ pc = "report"
        /\ UNCHANGED <<machine, attempt, filled, health, engine, seen, terminal, polls, stopFailed,
                       refused, published>>
    BY <1>4 DEF Report
  <2>2. PICK result \in {"clean", "faulted", "error"} : Return(result) /\ (result = "clean" => ~Faulted)
    BY <1>4 DEF Report
  <2>3. TypeOK'
    BY <2>1, <2>2, Returned DEF TypeOK, Stages
  <2> QED BY <2>1, <2>2, <2>3, Returned
          DEF Faulted, MachinePlaced, StreamsPlaced, FaultPlaced, OutcomePlaced
<1> QED BY <1>1, <1>2, <1>3, <1>4 DEF Stop

LEMMA LiveRestarts == LiveInv /\ (Restart \/ Finish) => LiveInv'
<1> SUFFICES ASSUME LiveInv, Restart \/ Finish PROVE LiveInv'
  OBVIOUS
<1> USE DEF LiveInv
<1>1. /\ pc = "returned" /\ pc' \in {"begin", "done"}
      /\ UNCHANGED <<input, output, machine, filled, health, engine, seen, terminal, polls,
                     stopFailed, outcome, refused, published>>
  BY DEF Restart, Finish, session
<1>2. attempt' \in 0 .. RestartAttempts /\ (pc' = "begin" => outcome # "clean")
  BY LiveDuplexAssumption DEF Restart, Finish, Retry, TypeOK
<1> QED BY <1>1, <1>2 DEF TypeOK, Stages, MachinePlaced, StreamsPlaced, FaultPlaced, OutcomePlaced

\* What the backend publishes and the callbacks latch, at any moment.
LEMMA LiveBackend == LiveInv /\ Backend => LiveInv'
<1> SUFFICES ASSUME LiveInv, Backend PROVE LiveInv'
  OBVIOUS
<1> USE DEF LiveInv
<1>1. CASE InputFault
  <2>1. /\ input.open /\ published' = (published \/ PollToCome)
        /\ UNCHANGED <<pc, machine, attempt, output, filled, health, engine, seen, terminal, polls,
                       stopFailed, outcome, refused>>
    BY <1>1 DEF InputFault
  <2>2. /\ input' \in Streams /\ input'.fault # None
        /\ input'.open = input.open /\ input'.running = input.running
    BY <1>1, DuplexStateAssumption DEF InputFault, TypeOK, Streams
  <2>3. TypeOK'
    BY <2>1, <2>2 DEF TypeOK, PollToCome
  <2> QED BY <2>1, <2>2, <2>3 DEF PollToCome, MachinePlaced, StreamsPlaced, FaultPlaced, OutcomePlaced, Quiet
<1>2. CASE OutputFault
  <2>1. /\ output.open /\ published' = (published \/ PollToCome)
        /\ UNCHANGED <<pc, machine, attempt, input, filled, health, engine, seen, terminal, polls,
                       stopFailed, outcome, refused>>
    BY <1>2 DEF OutputFault
  <2>2. /\ output' \in Streams /\ output'.fault # None
        /\ output'.open = output.open /\ output'.running = output.running
    BY <1>2, DuplexStateAssumption DEF OutputFault, TypeOK, Streams
  <2>3. TypeOK'
    BY <2>1, <2>2 DEF TypeOK, PollToCome
  <2> QED BY <2>1, <2>2, <2>3 DEF PollToCome, MachinePlaced, StreamsPlaced, FaultPlaced, OutcomePlaced, Quiet
<1>3. CASE InputCallback
  <2>1. /\ input.running /\ (filled => filled') /\ filled' \in BOOLEAN /\ health' \in {health, "fatal"}
        /\ UNCHANGED <<pc, machine, attempt, input, output, engine, seen, terminal, polls, stopFailed,
                       outcome, refused, published>>
    <3>1. (filled => filled') /\ filled' \in BOOLEAN
      <4>1. filled \in BOOLEAN /\ filled' \in {filled, TRUE}
        BY <1>3 DEF InputCallback, TypeOK
      <4>2. CASE filled' = filled
        BY <4>1, <4>2
      <4>3. CASE filled' = TRUE
        BY <4>3
      <4> QED BY <4>1, <4>2, <4>3
    <3> QED BY <1>3, <3>1 DEF InputCallback, Raised
  <2>2. pc \notin {"begin", "returned", "done"}
    BY <2>1 DEF StreamsPlaced, Quiet
  <2>3. TypeOK'
    BY <2>1 DEF TypeOK, Health
  <2> QED BY <2>1, <2>2, <2>3 DEF MachinePlaced, StreamsPlaced, FaultPlaced, OutcomePlaced, Quiet
<1>4. CASE OutputCallback
  <2>1. /\ output.running /\ engine' \in {engine, TRUE} /\ health' \in {health, "fatal"}
        /\ UNCHANGED <<pc, machine, attempt, input, output, filled, seen, terminal, polls, stopFailed,
                       outcome, refused, published>>
    BY <1>4 DEF OutputCallback, Raised
  <2>2. pc \notin {"begin", "returned", "done"}
    BY <2>1 DEF StreamsPlaced, Quiet
  <2>3. TypeOK'
    BY <2>1 DEF TypeOK, Health
  <2> QED BY <2>1, <2>2, <2>3 DEF MachinePlaced, StreamsPlaced, FaultPlaced, OutcomePlaced, Quiet
<1> QED BY <1>1, <1>2, <1>3, <1>4 DEF Backend

LEMMA LiveStep == LiveInv /\ Next => LiveInv'
BY LiveStarts, LivePolls, LiveStops, LiveRestarts, LiveBackend, LiveKept DEF Next, Control, Ended

LEMMA LiveImplied == LiveInv => LiveSound
BY DEF LiveInv, LiveSound, NoTransitionRefused, OutputWithinInput, CleanReport, StreamFaultObserved,
       TypeOK, Stages, StreamsPlaced, OutcomePlaced, Quiet

\* run_duplex, whatever backend and callbacks do: the machine refuses no event,
\* the output runs only over a filled ring and a running input, and a run
\* reported clean left no latched fault and no observable one behind.
THEOREM LiveSafety == MCSpec => []LiveSound
<1>1. MCInit => LiveInv
  BY LiveInit
<1>2. LiveInv /\ [MCNext]_allVars => LiveInv'
  BY LiveStep, LiveKept DEF MCNext, LiveMoves, RecoveryMoves, allVars
<1>3. LiveInv => LiveSound
  BY LiveImplied
<1> QED BY <1>1, <1>2, <1>3, PTL DEF MCSpec

-----------------------------------------------------------------------------
(* The reconnecting control plane.                                         *)

\* What next_recovery_backoff_ms answers after k attempts.
Backoff(k) == IF InitialBackoff * 2 ^ k <= MaxBackoff THEN InitialBackoff * 2 ^ k ELSE MaxBackoff

\* When a reopen is scheduled, and that none but the running attempt is.
ReopenPlaced ==
  /\ armed => reconnecting.state \in {"faulted", "recovering"}
  /\ reconnecting.state = "recovering" => due = 0

\* The documented delay, doubled with every attempt, is the machine's backoff;
\* what is still due before an attempt, with the time ahead, is its backoff.
DelayPlaced ==
  /\ reconnecting.state \in {"stopped", "starting"} => reconnecting.attempts = 0
  /\ reconnecting.state # "stopping" /\ reconnecting.attempts > 0
       => delay = Backoff(reconnecting.attempts - 1)
  /\ reconnecting.state # "stopping" => ahead >= 0
  /\ reconnecting.state = "faulted" /\ armed
       => ahead + due >= Backoff(reconnecting.attempts)

RecoveryInv == RecoveryTypeOK /\ FaultOfEpisode /\ ReopenPlaced /\ DelayPlaced

\* The provers know nothing of exponentiation but that a set of n elements has
\* 2^n subsets, so that is where the doubling comes from.
LEMMA Powers == ASSUME NEW n \in Nat PROVE 2 ^ n \in Nat /\ 2 ^ (n + 1) = 2 * 2 ^ n
<1> DEFINE A == SUBSET (1 .. n)
           B == {T \cup {n + 1} : T \in A}
           f == [T \in A |-> T \cup {n + 1}]
<1>1. IsFiniteSet(1 .. n) /\ Cardinality(1 .. n) = n /\ IsFiniteSet(1 .. n + 1) /\ Cardinality(1 .. n + 1) = n + 1
  BY FS_Interval
<1>2. /\ IsFiniteSet(A) /\ Cardinality(A) = 2 ^ n
      /\ IsFiniteSet(SUBSET (1 .. n + 1)) /\ Cardinality(SUBSET (1 .. n + 1)) = 2 ^ (n + 1)
  BY <1>1, FS_SUBSET
<1>3. SUBSET (1 .. n + 1) = A \cup B
  <2>1. ASSUME NEW T \in SUBSET (1 .. n + 1) PROVE T \in A \cup B
    <3>1. CASE n + 1 \in T
      <4>1. T \ {n + 1} \in A /\ T = (T \ {n + 1}) \cup {n + 1}
        BY <3>1
      <4> QED BY <4>1
    <3>2. CASE n + 1 \notin T
      BY <3>2
    <3> QED BY <3>1, <3>2
  <2>2. ASSUME NEW T \in SUBSET (1 .. n) PROVE T \in SUBSET (1 .. n + 1) /\ T \cup {n + 1} \in SUBSET (1 .. n + 1)
    OBVIOUS
  <2>3. A \subseteq SUBSET (1 .. n + 1) /\ B \subseteq SUBSET (1 .. n + 1)
    <3>1. A \subseteq SUBSET (1 .. n + 1)
      BY ONLY <2>2
    <3>2. ASSUME NEW T \in B PROVE T \in SUBSET (1 .. n + 1)
      <4>1. PICK R \in SUBSET (1 .. n) : T = R \cup {n + 1}
        OBVIOUS
      <4> QED BY ONLY <2>2, <4>1
    <3> QED BY <3>1, <3>2
  <2> HIDE DEF A, B
  <2> QED BY <2>1, <2>3
<1>4. A \cap B = {}
  OBVIOUS
<1>5. f \in Bijection(A, B)
  <2>1. f \in [A -> B]
    OBVIOUS
  <2>2. ASSUME NEW S \in A, NEW T \in A, f[S] = f[T] PROVE S = T
    <3>1. S \cup {n + 1} = T \cup {n + 1} /\ n + 1 \notin S /\ n + 1 \notin T
      BY <2>2
    <3> QED BY <3>1
  <2>3. \A u \in B : \E T \in A : f[T] = u
    OBVIOUS
  <2> QED BY <2>1, <2>2, <2>3 DEF Bijection, Injection, Surjection, IsInjective
<1>6. IsFiniteSet(B) /\ Cardinality(B) = Cardinality(A)
  BY <1>2, <1>5, FS_Bijection DEF ExistsBijection
<1>7. Cardinality(A \cup B) = Cardinality(A) + Cardinality(B)
  <2>1. Cardinality(A \cup B) = Cardinality(A) + Cardinality(B) - Cardinality(A \cap B)
    BY <1>2, <1>6, FS_Union
  <2>2. Cardinality(A \cap B) = 0 /\ Cardinality(A) \in Nat
    BY <1>2, <1>4, FS_EmptySet, FS_CardinalityType
  <2> QED BY <1>6, <2>1, <2>2
<1>8. Cardinality(A) \in Nat
  BY <1>2, FS_CardinalityType
<1> HIDE DEF A, B
<1>9. Cardinality(A \cup B) = 2 ^ (n + 1)
  BY <1>2, <1>3
<1> QED BY <1>2, <1>6, <1>7, <1>8, <1>9

LEMMA BackoffType ==
  \A k \in Nat : Backoff(k) \in 0 .. MaxBackoff
<1> SUFFICES ASSUME NEW k \in Nat PROVE Backoff(k) \in 0 .. MaxBackoff
  OBVIOUS
<1>1. 2 ^ k \in Nat
  BY Powers
<1>2. InitialBackoff * 2 ^ k \in Nat
  BY <1>1, DuplexStateAssumption
<1> QED BY <1>2, DuplexStateAssumption DEF Backoff

\* Doubling the documented delay follows the machine's shift, the clamp included.
LEMMA BackoffDoubles ==
  ASSUME NEW k \in Nat
  PROVE  Backoff(k + 1) = IF 2 * Backoff(k) <= MaxBackoff THEN 2 * Backoff(k) ELSE MaxBackoff
<1> DEFINE b == InitialBackoff * 2 ^ k
<1>1. 2 ^ k \in Nat /\ 2 ^ (k + 1) = 2 * 2 ^ k
  BY Powers
<1>2. b \in Nat /\ InitialBackoff * 2 ^ (k + 1) = 2 * b
  BY <1>1, DuplexStateAssumption
<1>3. /\ Backoff(k) = IF b <= MaxBackoff THEN b ELSE MaxBackoff
      /\ Backoff(k + 1) = IF 2 * b <= MaxBackoff THEN 2 * b ELSE MaxBackoff
  BY <1>2 DEF Backoff
<1> HIDE DEF b
<1> QED BY <1>2, <1>3, DuplexStateAssumption

LEMMA FirstBackoff == Backoff(0) = InitialBackoff
<1>1. 2 ^ 0 = 1
  OBVIOUS
<1> QED BY <1>1, DuplexStateAssumption DEF Backoff

LEMMA RecoveryInitial == MCInit => RecoveryInv
<1> SUFFICES ASSUME MCInit PROVE RecoveryInv
  OBVIOUS
<1>1. Fresh \in Machines /\ Fresh.state = "stopped" /\ Fresh.fault = None /\ Fresh.attempts = 0
  BY Zeros DEF Fresh, Machines, States
<1>2. RecoveryTypeOK
  BY <1>1, Zeros DEF MCInit, RecoveryInit, RecoveryTypeOK
<1>3. ~armed /\ ahead = 0 /\ reconnecting = Fresh
  BY DEF MCInit, RecoveryInit
<1> QED BY <1>1, <1>2, <1>3 DEF RecoveryInv, FaultOfEpisode, ReopenPlaced, DelayPlaced

LEMMA RecoveryKept == RecoveryInv /\ UNCHANGED recoveryVars => RecoveryInv'
BY DEF RecoveryInv, recoveryVars, RecoveryTypeOK, FaultOfEpisode, ReopenPlaced, DelayPlaced

\* schedule_next_recovery: the whole delay of the next attempt is due.
LEMMA Scheduled ==
  ASSUME Schedule, reconnecting' \in Machines, reconnecting'.state = "faulted"
  PROVE  /\ due' \in 0 .. MaxBackoff /\ armed' \in BOOLEAN
         /\ armed' => due' = Backoff(reconnecting'.attempts)
<1>1. reconnecting'.attempts \in Nat
  BY DEF Machines
<1>2. CASE CanAttemptRecovery(reconnecting')
  <2>1. due' = Backoff(reconnecting'.attempts) /\ armed' = TRUE
    BY <1>2 DEF Schedule, NextBackoff, Backoff, CanAttemptRecovery
  <2> QED BY <1>1, <2>1, BackoffType
<1>3. CASE ~CanAttemptRecovery(reconnecting')
  <2>1. due' = 0 /\ armed' = FALSE
    BY <1>3 DEF Schedule, NextBackoff, CanAttemptRecovery
  <2> QED BY <2>1, Zeros
<1> QED BY <1>2, <1>3

LEMMA RecoveryStep == RecoveryInv /\ RecoveryNext => RecoveryInv'
<1> SUFFICES ASSUME RecoveryInv, RecoveryNext PROVE RecoveryInv'
  OBVIOUS
<1> USE DEF RecoveryInv, RecoveryTypeOK, episode
<1>0. /\ reconnecting.state \in States /\ reconnecting.attempts \in 0 .. MaxRecoveryAttempts
      /\ reconnecting.fault \in StreamFaults \cup {None}
      /\ reconnecting = [state |-> reconnecting.state, fault |-> reconnecting.fault,
                         attempts |-> reconnecting.attempts]
      /\ MaxRecoveryAttempts \in Nat /\ MaxBackoff \in Nat
  BY DuplexStateAssumption DEF Machines
<1>1. CASE Begin
  <2>1. UNCHANGED <<due, armed, delay, ahead>>
    BY <1>1 DEF Begin
  <2>2. /\ reconnecting' \in Machines /\ reconnecting'.state \in {"starting", "running"}
        /\ reconnecting'.fault = None /\ reconnecting'.attempts = 0
        /\ reconnecting.state \in {"stopped", "starting"}
    BY <1>0, <1>1, Zeros DEF Begin, StartRequested, StreamsStarted, Machines, States, FaultOfEpisode, DelayPlaced
  <2> QED BY <2>1, <2>2 DEF FaultOfEpisode, ReopenPlaced, DelayPlaced
<1>2. CASE Degrade
  <2>1. UNCHANGED <<due, armed, delay, ahead>>
    BY <1>2 DEF Degrade
  <2>2. /\ reconnecting' \in Machines /\ reconnecting'.state = "degraded" /\ reconnecting.state = "running"
        /\ reconnecting'.fault = None /\ reconnecting'.attempts = reconnecting.attempts
    BY <1>0, <1>2 DEF Degrade, QualityDegraded, Machines, States, FaultOfEpisode
  <2> QED BY <2>1, <2>2 DEF FaultOfEpisode, ReopenPlaced, DelayPlaced
<1>3. CASE Stable
  <2>1. UNCHANGED <<due, armed>> /\ delay' = 0 /\ ahead' = 0
    BY <1>3 DEF Stable, EpisodeOver
  <2>2. /\ reconnecting' \in Machines /\ reconnecting'.state = "running"
        /\ reconnecting.state \in {"running", "degraded"}
        /\ reconnecting'.fault = None /\ reconnecting'.attempts = 0
    BY <1>3, Zeros DEF Stable, StableRunObserved, Machines, States
  <2> QED BY <1>0, <2>1, <2>2 DEF FaultOfEpisode, ReopenPlaced, DelayPlaced
<1>4. CASE Fault
  <2>1. UNCHANGED <<delay, ahead>> /\ Schedule
    BY <1>4 DEF Fault
  <2>2. /\ reconnecting' \in Machines /\ reconnecting'.state = "faulted"
        /\ reconnecting.state \in {"running", "degraded"}
        /\ reconnecting'.fault # None /\ reconnecting'.attempts = reconnecting.attempts
    BY <1>0, <1>4, DuplexStateAssumption DEF Fault, StreamFault, Machines, States
  <2>3. reconnecting'.attempts \in Nat /\ Backoff(reconnecting'.attempts) \in 0 .. MaxBackoff
    BY <1>0, <2>2, BackoffType
  <2> QED BY <2>1, <2>2, <2>3, Scheduled DEF FaultOfEpisode, ReopenPlaced, DelayPlaced
<1>5. CASE Tick
  <2>1. /\ armed /\ due > 0 /\ due' = due - 1 /\ ahead' = ahead + 1
        /\ UNCHANGED <<reconnecting, armed, delay>>
    BY <1>5 DEF Tick
  <2>2. Backoff(reconnecting.attempts) \in 0 .. MaxBackoff
    BY <1>0, BackoffType
  <2> QED BY <1>0, <2>1, <2>2 DEF FaultOfEpisode, ReopenPlaced, DelayPlaced
<1>6. CASE Reopen
  <2>1. /\ armed /\ due = 0 /\ delay' = NextDelay /\ ahead' = ahead - delay'
        /\ UNCHANGED <<due, armed>>
    BY <1>6 DEF Reopen
  <2>2. /\ reconnecting' \in Machines /\ reconnecting'.state = "recovering" /\ reconnecting.state = "faulted"
        /\ reconnecting'.fault = reconnecting.fault
        /\ reconnecting'.attempts = reconnecting.attempts + 1
    <3>1. /\ reconnecting.state = "faulted" /\ reconnecting.attempts < MaxRecoveryAttempts
          /\ reconnecting' = [reconnecting EXCEPT !.state = "recovering", !.attempts = reconnecting.attempts + 1]
      BY <1>6 DEF Reopen, RecoveryRequested
    <3>2. reconnecting.attempts + 1 \in 0 .. MaxRecoveryAttempts
      BY <1>0, <3>1
    <3> QED BY <3>1, <3>2 DEF Machines, States
  <2>3. delay' = Backoff(reconnecting.attempts) /\ delay' \in 0 .. MaxBackoff
    <3>1. CASE reconnecting.attempts = 0
      BY <1>0, <2>1, <3>1, FirstBackoff, BackoffType DEF NextDelay
    <3>2. CASE reconnecting.attempts # 0
      <4>1. reconnecting.attempts - 1 \in Nat /\ delay = Backoff(reconnecting.attempts - 1)
        BY <1>0, <2>2, <3>2 DEF DelayPlaced
      <4>2. Backoff((reconnecting.attempts - 1) + 1) = NextDelay
        BY <3>2, <4>1, BackoffDoubles DEF NextDelay
      <4>3. (reconnecting.attempts - 1) + 1 = reconnecting.attempts
        BY <1>0
      <4> QED BY <1>0, <2>1, <4>2, <4>3, BackoffType
    <3> QED BY <3>1, <3>2
  <2>4. ahead' >= 0
    BY <2>1, <2>2, <2>3 DEF DelayPlaced
  <2>5. (reconnecting.attempts + 1) - 1 = reconnecting.attempts
    BY <1>0
  <2> QED BY <1>0, <2>1, <2>2, <2>3, <2>4, <2>5 DEF FaultOfEpisode, ReopenPlaced, DelayPlaced
<1>7. CASE ReopenFailed
  <2>1. UNCHANGED <<delay, ahead>> /\ Schedule
    BY <1>7 DEF ReopenFailed
  <2>2. /\ reconnecting' \in Machines /\ reconnecting'.state = "faulted" /\ reconnecting.state = "recovering"
        /\ reconnecting'.fault = reconnecting.fault /\ reconnecting'.attempts = reconnecting.attempts
    BY <1>0, <1>7 DEF ReopenFailed, RecoveryFailed, Machines, States
  <2>3. reconnecting'.attempts \in Nat /\ Backoff(reconnecting'.attempts) \in 0 .. MaxBackoff
    BY <1>0, <2>2, BackoffType
  <2> QED BY <2>1, <2>2, <2>3, Scheduled DEF FaultOfEpisode, ReopenPlaced, DelayPlaced
<1>8. CASE Reopened
  <2>1. UNCHANGED <<delay, ahead>> /\ due' = 0 /\ armed' = FALSE
    BY <1>8 DEF Reopened, Unscheduled
  <2>2. /\ reconnecting' \in Machines /\ reconnecting'.state = "running" /\ reconnecting.state = "recovering"
        /\ reconnecting'.fault = None /\ reconnecting'.attempts = reconnecting.attempts
    BY <1>0, <1>8 DEF Reopened, RecoverySucceeded, Machines, States
  <2> QED BY <1>0, <2>1, <2>2 DEF FaultOfEpisode, ReopenPlaced, DelayPlaced
<1>9. CASE End
  <2>1. delay' = 0 /\ ahead' = 0 /\ due' = 0 /\ armed' = FALSE
    BY <1>9 DEF End, EpisodeOver, Unscheduled
  <2>2. /\ reconnecting' \in Machines
        /\ \/ reconnecting'.state = "stopping"
           \/ reconnecting'.state = "stopped" /\ reconnecting'.fault = None /\ reconnecting'.attempts = 0
    BY <1>0, <1>9, Zeros DEF End, StopRequested, StreamsStopped, Machines, States
  <2>3. RecoveryTypeOK' /\ ~armed'
    BY <2>1, <2>2, Zeros
  <2> QED BY <2>1, <2>2, <2>3 DEF FaultOfEpisode, ReopenPlaced, DelayPlaced
<1> QED BY <1>1, <1>2, <1>3, <1>4, <1>5, <1>6, <1>7, <1>8, <1>9 DEF RecoveryNext

\* The reconnecting control plane: a recorded fault is of the current episode,
\* and however a device flaps no attempt comes before the documented delays of
\* all attempts of its episode have passed.
THEOREM RecoverySafety == MCSpec => []RecoverySound
<1>1. MCInit => RecoveryInv
  BY RecoveryInitial
<1>2. RecoveryInv /\ [MCNext]_allVars => RecoveryInv'
  BY RecoveryStep, RecoveryKept DEF MCNext, LiveMoves, RecoveryMoves, allVars
<1>3. RecoveryInv => RecoverySound
  BY DEF RecoveryInv, RecoverySound, BackoffRespected, DelayPlaced
<1> QED BY <1>1, <1>2, <1>3, PTL DEF MCSpec

\* "Recovery history intentionally remains until stability is proven": an
\* attempt is forgotten by a stable run or a new session only.
THEOREM RecoveryHistory == MCSpec => HistoryKept
<1> DEFINE Kept == reconnecting'.attempts < reconnecting.attempts =>
                     \/ reconnecting.state \in {"running", "degraded"} /\ reconnecting'.state = "running"
                     \/ reconnecting'.state = "stopped"
<1>1. MCInit => RecoveryInv
  BY RecoveryInitial
<1>2. RecoveryInv /\ [MCNext]_allVars => RecoveryInv'
  BY RecoveryStep, RecoveryKept DEF MCNext, LiveMoves, RecoveryMoves, allVars
<1>3. RecoveryInv /\ [MCNext]_allVars => [Kept]_allVars
  <2> SUFFICES ASSUME RecoveryInv, MCNext PROVE Kept
    OBVIOUS
  <2>1. /\ reconnecting \in Machines /\ reconnecting.attempts \in Nat
        /\ reconnecting.state \in {"stopped", "starting"} => reconnecting.attempts = 0
    BY DEF RecoveryInv, RecoveryTypeOK, DelayPlaced, Machines
  <2>2. CASE RecoveryNext
    <3>1. CASE Begin
      BY <2>1, <3>1 DEF Begin, StartRequested, StreamsStarted, Machines
    <3>2. CASE Stable
      BY <3>2 DEF Stable, StableRunObserved
    <3>3. CASE End
      BY <2>1, <3>3 DEF End, StopRequested, StreamsStopped, Machines
    <3>4. CASE Degrade \/ Fault \/ Tick \/ Reopen \/ ReopenFailed \/ Reopened
      <4>1. reconnecting'.attempts \in {reconnecting.attempts, reconnecting.attempts + 1}
        BY <2>1, <3>4 DEF Degrade, Fault, Tick, Reopen, ReopenFailed, Reopened, QualityDegraded,
             StreamFault, RecoveryRequested, RecoveryFailed, RecoverySucceeded, Machines
      <4> QED BY <2>1, <4>1
    <3> QED BY <2>2, <3>1, <3>2, <3>3, <3>4 DEF RecoveryNext
  <2>3. CASE UNCHANGED recoveryVars
    BY <2>1, <2>3 DEF recoveryVars
  <2> QED BY <2>2, <2>3 DEF MCNext, LiveMoves, RecoveryMoves
<1> QED BY <1>1, <1>2, <1>3, PTL DEF MCSpec, HistoryKept
=============================================================================
