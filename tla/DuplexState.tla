---------------------------- MODULE DuplexState ----------------------------
(***************************************************************************)
(* DuplexStateMachine (device_state.rs): the lifecycle of a live duplex    *)
(* session as its control thread sees it, with a bounded number of reopen  *)
(* attempts per failure episode.  The module defines the machine's table   *)
(* as relations between a machine m and its successor n; the control       *)
(* threads that drive it are modules of their own.                         *)
(***************************************************************************)
EXTENDS Naturals

CONSTANTS StreamFaults,        \* the numeric stream faults but None
          MaxRecoveryAttempts, \* MAX_RECOVERY_ATTEMPTS
          InitialBackoff,      \* INITIAL_RECOVERY_BACKOFF_MS
          MaxBackoff           \* MAX_RECOVERY_BACKOFF_MS

None == "none"

ASSUME DuplexStateAssumption ==
  /\ MaxRecoveryAttempts \in Nat \ {0} /\ None \notin StreamFaults
  /\ InitialBackoff \in Nat \ {0} /\ MaxBackoff \in Nat /\ InitialBackoff <= MaxBackoff

States == {"stopped", "starting", "running", "degraded", "faulted", "recovering", "stopping"}
Machines == [state : States, fault : StreamFaults \cup {None}, attempts : 0..MaxRecoveryAttempts]

\* DuplexStateMachine::default
Fresh == [state |-> "stopped", fault |-> None, attempts |-> 0]

-----------------------------------------------------------------------------
(* transition: one relation per event.  An event without a row for the     *)
(* state of m is an Err and leaves the machine alone.                      *)

StartRequested(m, n) ==
  m.state = "stopped" /\ n = [state |-> "starting", fault |-> None, attempts |-> 0]

StreamsStarted(m, n) == m.state = "starting" /\ n = [m EXCEPT !.state = "running"]

StableRunObserved(m, n) ==
  /\ m.state \in {"running", "degraded"}
  /\ n = [state |-> "running", fault |-> None, attempts |-> 0]

QualityDegraded(m, n) == m.state = "running" /\ n = [m EXCEPT !.state = "degraded"]

StreamFault(m, n, f) ==
  /\ m.state \in {"running", "degraded"}
  /\ n = [m EXCEPT !.state = "faulted", !.fault = f]

\* Mutant: the attempts of the episode are not counted.
RecoveryUncounted(m, n) ==
  m.state = "faulted" /\ n = [m EXCEPT !.state = "recovering"]

RecoveryRequested(m, n) ==
  /\ m.state = "faulted" /\ m.attempts < MaxRecoveryAttempts
  /\ n = [m EXCEPT !.state = "recovering", !.attempts = @ + 1]

\* Mutant: a reopened stream counts as stable.
RecoveryForgives(m, n) ==
  m.state = "recovering" /\ n = [state |-> "running", fault |-> None, attempts |-> 0]

\* Mutant: the fault of the episode survives a successful reopen.
RecoveryKeepsFault(m, n) ==
  m.state = "recovering" /\ n = [m EXCEPT !.state = "running"]

RecoverySucceeded(m, n) ==
  m.state = "recovering" /\ n = [m EXCEPT !.state = "running", !.fault = None]

RecoveryFailed(m, n) == m.state = "recovering" /\ n = [m EXCEPT !.state = "faulted"]

StopRequested(m, n) ==
  /\ m.state \in {"starting", "running", "degraded", "faulted", "recovering"}
  /\ n = [m EXCEPT !.state = "stopping"]

StreamsStopped(m, n) ==
  m.state = "stopping" /\ n = [state |-> "stopped", fault |-> None, attempts |-> 0]

-----------------------------------------------------------------------------
CanAttemptRecovery(m) == m.state = "faulted" /\ m.attempts < MaxRecoveryAttempts

\* Mutant: the backoff is not clamped.
BackoffUnclamped(m) == IF CanAttemptRecovery(m) THEN InitialBackoff * 2 ^ m.attempts ELSE 0

\* next_recovery_backoff_ms: doubles per attempt up to a clamp; 0 is None.
NextBackoff(m) ==
  IF ~CanAttemptRecovery(m) THEN 0
  ELSE LET b == InitialBackoff * 2 ^ m.attempts
       IN IF b <= MaxBackoff THEN b ELSE MaxBackoff
=============================================================================
