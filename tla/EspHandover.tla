----------------------------- MODULE EspHandover -----------------------------
(***************************************************************************)
(* A handover of the speaker fabric carried to ESP-AVB endpoints: the      *)
(* ordered commands of build_handover_plan (lib.rs), their compilation to  *)
(* endpoint envelopes (control.rs) and to AEM SET_CONTROL writes           *)
(* (aem_control.rs), and the control state machine and PTP-deadline gate   *)
(* that Aurora's patches put into the endpoint firmware                    *)
(* (aurora_patch_esp_avb_aem_endpoint.py, _ptp_deadline.py).               *)
(*                                                                         *)
(* The sender of the writes is not in the repository; its contract is: it  *)
(* sends them in order, one at a time, repeats one whose response is lost, *)
(* and gives the whole handover up otherwise.  Firmware may reboot, gPTP   *)
(* may be lost and the timer runs in a task of its own: with Preempt its   *)
(* callback may be overtaken by a command between its checks and its       *)
(* effect (the two cores of an ESP32-P4).                                  *)
(***************************************************************************)
EXTENDS Integers, Sequences, FiniteSets, SequencesExt

CONSTANTS N,          \* number of modules
          Plans,      \* the admitted plans: [Modules -> assignment or None]
          Medium,     \* EspAvbModuleBinding.medium of each module
          Frames,     \* start frames a handover may ask for
          Anchor,     \* PtpMediaAnchor: [frame, ptp]
          Rate, Second,        \* media frames and PTP time units in a second
          MaxEpoch, MaxTime,   \* bounds
          MaxLate,    \* AURORA_ENDPOINT_MAX_LATE_NS
          Preempt,    \* a command may overtake the running timer callback
          None, Unknown

Modules == 1 .. N
Unused  == "unused"    \* AURORA_AEM_ROLE_UNUSED
Roles   == {"FL", "FR", "FC", "LFE", "SL", "SR", "SBL", "SBR",
            "TFL", "TFR", "TRL", "TRR"}

ASSUME HandoverAssumption ==
  /\ N \in Nat \ {0} /\ Frames \subseteq Nat /\ Preempt \in BOOLEAN
  /\ Rate \in Nat \ {0} /\ Second \in Nat \ {0} /\ MaxLate \in Nat
  /\ None # Unknown
  /\ \A p \in Plans :
       /\ p = [m \in Modules |-> p[m]]
       /\ \A m \in Modules : p[m] # Unknown /\ (p[m] # None => p[m].roles \in Seq(STRING))

VARIABLES fw,        \* aurora_endpoint_control_s and the deadline of each endpoint
          callback,  \* the timer callback: None, or past its checks of a deadline
          ready,     \* gPTP is valid and stable
          now,       \* PTP time
          epoch,     \* epoch of the last handover
          target,    \* its plan
          applied,   \* what the host knows each module to play
          program    \* the writes still to be sent

vars == <<fw, callback, ready, now, epoch, target, applied, program>>

-----------------------------------------------------------------------------
(* The host: from two plans to a program of writes.                        *)

\* lookup: the first assignment that a plan of the session makes for a module
Lookup(plan, m) ==
  LET own == SelectSeq(plan, LAMBDA a : a.module = m)
  IN IF own = <<>> THEN None ELSE own[1]

Changed(prev, next) == {m \in Modules : prev[m] # next[m]}

\* A BTreeMap is traversed in the order of its keys.
Ascending(S) ==
  [k \in 1 .. Cardinality(S) |-> CHOOSE m \in S : Cardinality({x \in S : x <= m}) = k]

\* Mutant: each module is taken through its whole handover in turn.
PerModule(prev, next, e, f) ==
  FlattenSeq([k \in 1 .. Cardinality(Changed(prev, next)) |->
    LET m == Ascending(Changed(prev, next))[k]
        c(op) == [op |-> op, module |-> m, epoch |-> e, start |-> f, to |-> next[m]]
    IN IF next[m] = None THEN << c("mute") >>
       ELSE << c("mute"), c("prepare"), c("arm"), c("commit") >>])

\* build_handover_plan: mute all, then prepare, arm and commit what remains
BuildHandover(prev, next, e, f) ==
  LET all      == Ascending(Changed(prev, next))
      kept     == Ascending({m \in Changed(prev, next) : next[m] # None})
      c(op, s) == [k \in DOMAIN s |-> [op |-> op, module |-> s[k], epoch |-> e,
                                        start |-> f, to |-> next[s[k]]]]
  IN c("mute", all) \o (c("prepare", kept) \o c("arm", kept) \o c("commit", kept))

\* validate_assignment of the bridge
BridgeAccepts(a) ==
  /\ Len(a.roles) \in 1 .. 2 /\ a.clock = "ptp"
  /\ <<a.route, Medium[a.module]>> \in {<<"wired", "p4">>, <<"wireless", "c6">>}

\* transition: each module's commands come in their one order
InOrder(commands) ==
  \A m \in Modules :
    LET own == SelectSeq(commands, LAMBDA c : c.module = m)
        ops == [k \in DOMAIN own |-> own[k].op]
    IN IsPrefix(ops, <<"mute", "prepare", "arm", "commit">>)

\* compile_handover_control: the commands, or None
Envelopes(commands, e, f) ==
  IF /\ e # 0 /\ f # 0 /\ InOrder(commands)
     /\ \A k \in DOMAIN commands :
          /\ commands[k].epoch = e
          /\ commands[k].op = "prepare" => BridgeAccepts(commands[k].to)
          /\ commands[k].op = "arm" => commands[k].start = f
  THEN commands ELSE None

\* ptp_time_for_frame, rounded to the nearest unit; None before the anchor
PtpTimeForFrame(f) ==
  IF f < Anchor.frame THEN None
  ELSE Anchor.ptp + ((f - Anchor.frame) * Second + Rate \div 2) \div Rate

\* validate_prepare and encode_role
Encodable(c) ==
  /\ c.op = "prepare" => \A k \in DOMAIN c.to.roles : c.to.roles[k] \in Roles
  /\ c.op = "arm" => PtpTimeForFrame(c.start) # None

Write(c, control, value) == [module |-> c.module, control |-> control, value |-> value]

\* append_command_writes: epoch first, the command last
CommandWrites(c) ==
  << Write(c, "epoch", c.epoch) >>
  \o (CASE c.op = "prepare" ->
             << Write(c, "role0", c.to.roles[1]),
                Write(c, "role1", IF Len(c.to.roles) = 2 THEN c.to.roles[2] ELSE Unused) >>
        [] c.op = "arm" -> << Write(c, "start", PtpTimeForFrame(c.start)) >>
        [] OTHER -> <<>>)
  \o << Write(c, "command", c.op) >>

\* compile_aem_control_program
AemProgram(envelopes) ==
  IF \A k \in DOMAIN envelopes : Encodable(envelopes[k])
  THEN FlattenSeq([k \in DOMAIN envelopes |-> CommandWrites(envelopes[k])])
  ELSE None

-----------------------------------------------------------------------------
(* The firmware of one endpoint, as functions of its control block f.      *)

Boot == [sEpoch |-> 0, sRole0 |-> Unused, sRole1 |-> Unused, sStart |-> 0,
         epoch |-> 0, role0 |-> Unused, role1 |-> Unused, start |-> 0,
         phase |-> "boot", muted |-> TRUE,
         pending |-> 0, timer |-> FALSE, open |-> FALSE]

\* aurora_endpoint_cancel_deadline
Cancelled(f) == [f EXCEPT !.timer = FALSE, !.pending = 0, !.open = FALSE]

\* aurora_endpoint_fail, aurora_endpoint_deadline_fault
Faulted(f) == [Cancelled(f) EXCEPT !.phase = "fault", !.muted = TRUE]

\* the writes of aurora_endpoint_unmute_deadline
Opened(f) == [f EXCEPT !.muted = FALSE, !.open = TRUE, !.pending = 0]

\* the conditions under which the callback has anything to do
DeadlineDue(f) ==
  /\ f.pending # 0 /\ f.phase = "committed" /\ f.epoch = f.pending
  /\ f.start # 0 /\ f.muted

TooLate(f) == now > f.start + MaxLate

\* aurora_endpoint_schedule_unmute; armed tells whether the timer starts
Scheduled(f, armed) ==
  LET g == [f EXCEPT !.timer = FALSE, !.pending = f.epoch, !.open = FALSE]
  IN IF ~ready \/ f.start = 0 THEN Faulted(f)
     ELSE IF now < f.start THEN IF armed THEN [g EXCEPT !.timer = TRUE] ELSE Faulted(g)
     ELSE IF TooLate(f) THEN Faulted(g) ELSE Opened(g)

\* Mutant: a MUTE leaves the deadline that is pending.
MuteKeepsDeadline(f) ==
  IF f.sEpoch = 0 \/ f.sEpoch < f.epoch \/ (f.phase = "fault" /\ f.sEpoch <= f.epoch)
  THEN Faulted(f)
  ELSE [f EXCEPT !.epoch = f.sEpoch, !.role0 = Unused, !.role1 = Unused,
                 !.start = 0, !.phase = "muted", !.muted = TRUE]

MuteCommand(f) ==
  IF f.sEpoch = 0 \/ f.sEpoch < f.epoch \/ (f.phase = "fault" /\ f.sEpoch <= f.epoch)
  THEN Faulted(f)
  ELSE [Cancelled(f) EXCEPT !.epoch = f.sEpoch, !.role0 = Unused, !.role1 = Unused,
                            !.start = 0, !.phase = "muted", !.muted = TRUE]

\* aurora_endpoint_roles_valid
RolesValid(f) == /\ f.sRole0 \in Roles /\ f.sRole1 \in Roles \cup {Unused}
                 /\ f.sRole1 # f.sRole0

PrepareCommand(f) ==
  CASE RolesValid(f) /\ f.phase = "prepared" /\ f.role0 = f.sRole0 /\ f.role1 = f.sRole1 -> f
    [] RolesValid(f) /\ f.phase = "muted" -> [f EXCEPT !.role0 = f.sRole0, !.role1 = f.sRole1,
                                                       !.phase = "prepared", !.muted = TRUE]
    [] OTHER -> Faulted(f)

ArmCommand(f) ==
  CASE f.sStart # 0 /\ f.phase = "armed" /\ f.start = f.sStart -> f
    [] f.sStart # 0 /\ f.phase = "prepared" -> [f EXCEPT !.start = f.sStart, !.phase = "armed",
                                                         !.muted = TRUE]
    [] OTHER -> Faulted(f)

CommitCommand(f, armed) ==
  CASE f.phase = "committed" -> f
    [] f.phase = "armed" ->
         Scheduled([f EXCEPT !.phase = "committed", !.muted = TRUE], armed)
    [] OTHER -> Faulted(f)

StopCommand(f) ==
  IF f.phase = "fault" THEN Faulted(f)
  ELSE [Cancelled(f) EXCEPT !.phase = "muted", !.muted = TRUE, !.start = 0]

\* Every command but MUTE must carry the epoch in force.
Current(f) == f.sEpoch # 0 /\ f.sEpoch = f.epoch

\* aurora_endpoint_apply_command
Apply(f, op, armed) ==
  CASE op = "mute" -> MuteCommand(f)
    [] op = "prepare" /\ Current(f) -> PrepareCommand(f)
    [] op = "arm" /\ Current(f) -> ArmCommand(f)
    [] op = "commit" /\ Current(f) -> CommitCommand(f, armed)
    [] op = "stop" /\ Current(f) -> StopCommand(f)
    [] OTHER -> Faulted(f)

\* avb_process_aecp_cmd_set_control for the Aurora descriptors
SetControl(f, w, armed) ==
  CASE w.control = "epoch" -> [f EXCEPT !.sEpoch = w.value]
    [] w.control = "role0" -> [f EXCEPT !.sRole0 = w.value]
    [] w.control = "role1" -> [f EXCEPT !.sRole1 = w.value]
    [] w.control = "start" -> [f EXCEPT !.sStart = w.value]
    [] w.control = "command" -> Apply(f, w.value, armed)
    [] OTHER -> f

Refused(w, g) == w.control = "command" /\ g.phase = "fault"

-----------------------------------------------------------------------------
Nothing == [m \in Modules |-> None]

Init ==
  /\ fw = [m \in Modules |-> Boot] /\ callback = [m \in Modules |-> None]
  /\ ready = TRUE /\ now = 0 /\ epoch = 0
  /\ target = Nothing /\ applied = Nothing /\ program = <<>>

\* The command task of an endpoint can run.
Runs(m) == Preempt \/ callback[m] = None

\* What the host still knows when a handover starts or is given up.
Touched(prev, next) ==
  [m \in Modules |-> IF prev[m] # next[m] THEN Unknown ELSE prev[m]]

StartHandover ==
  /\ program = <<>> /\ epoch < MaxEpoch
  /\ \E next \in Plans, f \in Frames :
       LET envelopes == Envelopes(BuildHandover(applied, next, epoch + 1, f), epoch + 1, f)
       IN /\ envelopes # None /\ AemProgram(envelopes) \notin {None, <<>>}
          /\ program' = AemProgram(envelopes)
          /\ target' = next /\ applied' = Touched(applied, next)
  /\ epoch' = epoch + 1
  /\ UNCHANGED <<fw, callback, ready, now>>

\* An EndpointCommand::Stop, compiled on its own.
StopModule ==
  /\ program = <<>> /\ epoch > 0
  /\ \E m \in Modules :
       /\ applied[m] \notin {None, Unknown}
       /\ program' = CommandWrites([op |-> "stop", module |-> m, epoch |-> epoch])
       /\ applied' = [applied EXCEPT ![m] = Unknown]
  /\ UNCHANGED <<fw, callback, ready, now, epoch, target>>

\* A write is answered with success.
WriteAcknowledged ==
  /\ program # <<>> /\ Runs(Head(program).module)
  /\ \E armed \in BOOLEAN :
       LET w == Head(program)
           g == SetControl(fw[w.module], w, armed)
       IN /\ ~Refused(w, g)
          /\ fw' = [fw EXCEPT ![w.module] = g]
  /\ program' = Tail(program)
  /\ applied' = IF program' = <<>> /\ Head(program).value # "stop" THEN target ELSE applied
  /\ UNCHANGED <<callback, ready, now, epoch, target>>

\* The endpoint refuses the command: the handover is given up.
WriteRefused ==
  /\ program # <<>> /\ Runs(Head(program).module)
  /\ \E armed \in BOOLEAN :
       LET w == Head(program)
           g == SetControl(fw[w.module], w, armed)
       IN /\ Refused(w, g)
          /\ fw' = [fw EXCEPT ![w.module] = g]
  /\ program' = <<>>
  /\ UNCHANGED <<callback, ready, now, epoch, target, applied>>

\* The response is lost and the write will be repeated.
ResponseLost ==
  /\ program # <<>> /\ Runs(Head(program).module)
  /\ \E armed \in BOOLEAN :
       LET w == Head(program)
       IN fw' = [fw EXCEPT ![w.module] = SetControl(@, w, armed)]
  /\ UNCHANGED <<callback, ready, now, epoch, target, applied, program>>

\* No answer, no more retries.
GiveUp ==
  /\ program # <<>> /\ program' = <<>>
  /\ UNCHANGED <<fw, callback, ready, now, epoch, target, applied>>

\* Mutant: the callback does not ask how late it is.
NeverLate(m, armed) ==
  LET f == [fw[m] EXCEPT !.timer = FALSE]
  IN IF ~DeadlineDue(f) THEN fw' = [fw EXCEPT ![m] = f] /\ UNCHANGED callback
     ELSE IF ~ready THEN fw' = [fw EXCEPT ![m] = Faulted(f)] /\ UNCHANGED callback
     ELSE IF now < f.start
       THEN /\ fw' = [fw EXCEPT ![m] = IF armed THEN [f EXCEPT !.timer = TRUE] ELSE Faulted(f)]
            /\ UNCHANGED callback
     ELSE fw' = [fw EXCEPT ![m] = f] /\ callback' = [callback EXCEPT ![m] = f.start]

\* aurora_endpoint_unmute_deadline up to its decision
Decide(m, armed) ==
  LET f == [fw[m] EXCEPT !.timer = FALSE]
  IN IF ~DeadlineDue(f) THEN fw' = [fw EXCEPT ![m] = f] /\ UNCHANGED callback
     ELSE IF ~ready \/ TooLate(f)
       THEN fw' = [fw EXCEPT ![m] = Faulted(f)] /\ UNCHANGED callback
     ELSE IF now < f.start
       THEN /\ fw' = [fw EXCEPT ![m] = IF armed THEN [f EXCEPT !.timer = TRUE] ELSE Faulted(f)]
            /\ UNCHANGED callback
     ELSE fw' = [fw EXCEPT ![m] = f] /\ callback' = [callback EXCEPT ![m] = f.start]

\* The timer, which counts another clock than gPTP, may be early or late.
TimerFires ==
  /\ \E m \in Modules, armed \in BOOLEAN :
       fw[m].timer /\ callback[m] = None /\ Decide(m, armed)
  /\ UNCHANGED <<ready, now, epoch, target, applied, program>>

\* ... and its effect
OpenOutput ==
  /\ \E m \in Modules :
       /\ callback[m] # None
       /\ fw' = [fw EXCEPT ![m] = Opened(@)]
       /\ callback' = [callback EXCEPT ![m] = None]
  /\ UNCHANGED <<ready, now, epoch, target, applied, program>>

\* Boot: nothing of the control block is persisted.
Reboot ==
  /\ \E m \in Modules : /\ fw[m] # Boot /\ fw' = [fw EXCEPT ![m] = Boot]
                        /\ callback' = [callback EXCEPT ![m] = None]
  /\ UNCHANGED <<ready, now, epoch, target, applied, program>>

\* gPTP and its time change slowly: the callback decides and acts in one instant.
PtpChanges ==
  /\ \A m \in Modules : callback[m] = None
  /\ ready' = ~ready
  /\ UNCHANGED <<fw, callback, now, epoch, target, applied, program>>

Tick ==
  /\ now < MaxTime /\ \A m \in Modules : callback[m] = None
  /\ now' = now + 1
  /\ UNCHANGED <<fw, callback, ready, epoch, target, applied, program>>

Next == \/ StartHandover \/ StopModule \/ WriteAcknowledged \/ WriteRefused \/ ResponseLost \/ GiveUp
        \/ TimerFires \/ OpenOutput \/ Reboot \/ PtpChanges \/ Tick

Spec == Init /\ [][Next]_vars

-----------------------------------------------------------------------------
Audible(m) == fw[m].open

RolesPlayed(m) == IF fw[m].role1 = Unused THEN << fw[m].role0 >>
                                          ELSE << fw[m].role0, fw[m].role1 >>

\* "A removed module receives only Mute and remains fail-closed": an output is
\* open only in the phase that a COMMIT led to, never after a MUTE, a refused
\* command, a missed deadline or a reboot, whatever timer was still running.
OpenOnlyCommitted ==
  \A m \in Modules : Audible(m) => fw[m].phase = "committed" /\ ~fw[m].muted

\* "No changed endpoint is allowed to begin the new route while another changed
\* endpoint is still playing the old topology": once an endpoint of the last
\* handover is heard, everything that is heard plays its roles of that plan,
\* through lost writes, repeated writes, abandoned handovers and reboots.
OneTopology ==
  (\E m \in Modules : Audible(m) /\ fw[m].epoch = epoch) =>
    \A m \in Modules : Audible(m) =>
      target[m] # None /\ RolesPlayed(m) = target[m].roles

Due(deadline) == ready /\ ~(now < deadline) /\ ~(now > deadline + MaxLate)

\* An output opens under a valid gPTP clock, at the armed time or at most
\* AURORA_ENDPOINT_MAX_LATE_NS after it; where a command has overtaken the callback,
\* the armed time is the one the callback has checked.
OpensOnDeadline ==
  [][\A m \in Modules : ~Audible(m) /\ fw'[m].open
       => Due(fw[m].start) \/ (callback[m] # None /\ Due(callback[m]))]_vars
==============================================================================
