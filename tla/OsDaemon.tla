------------------------------ MODULE OsDaemon ------------------------------
(***************************************************************************)
(* aurora-os-daemon: every poll reads the module inventory and the         *)
(* deployment intent from files that other processes write, plans, and     *)
(* publishes the plan and its own health as files that others read.  The   *)
(* process may be killed between any two file operations and is started    *)
(* again by its supervisor.                                                *)
(*                                                                         *)
(* Abstraction: a module's document is admissible, not admissible (clock,  *)
(* skew, route, identity) or torn, that is half written by its owner; an   *)
(* intent is the set of modules it targets.  FabricPlanner admits a plan   *)
(* when every target is present and admissible; its rules are those of     *)
(* SpeakerFabric.                                                          *)
(***************************************************************************)
EXTENDS Naturals, FiniteSets

CONSTANTS Modules, MaxPolls

VARIABLES inventory,  \* module directory: module -> document
          intent,     \* intent file
          disk,       \* what the daemon has published: plan, health and their temporaries
          daemon,     \* program counter and what this poll has read
          polls

odVars == <<inventory, intent, disk, daemon, polls>>

Absent == "absent"
Torn == "torn"
ModuleDocuments == {Absent, Torn, "admissible", "inadmissible"}

\* A published document: absent, half written, or complete.
NoDocument == [state |-> Absent]
HalfWritten == [state |-> Torn]

Sleeping == [pc |-> "sleep", unread |-> {}, seen |-> [m \in {} |-> Absent],
             publish |-> NoDocument, failing |-> {}, io |-> FALSE, done |-> FALSE]

Init == /\ inventory = [m \in Modules |-> Absent]
        /\ intent = [state |-> Absent, targets |-> {}]
        /\ disk = [plan |-> NoDocument, planTmp |-> NoDocument,
                   health |-> NoDocument, healthTmp |-> NoDocument]
        /\ daemon = Sleeping
        /\ polls = 0

-----------------------------------------------------------------------------
(* The other processes                                                     *)

\* `failing' is history: the modules not admissible since the poll began.
ModuleReports(m) == /\ \E d \in ModuleDocuments : inventory' = [inventory EXCEPT ![m] = d]
                    /\ daemon' = [daemon EXCEPT !.failing =
                                    IF inventory'[m] = "inadmissible" THEN @ ELSE @ \ {m}]
                    /\ UNCHANGED <<intent, disk, polls>>

IntentChanges == /\ \/ \E targets \in SUBSET Modules \ {{}} :
                         intent' = [state |-> "complete", targets |-> targets]
                    \/ \E state \in {Absent, Torn} :
                         intent' = [state |-> state, targets |-> {}]
                 /\ UNCHANGED <<inventory, disk, daemon, polls>>

-----------------------------------------------------------------------------
(* One poll                                                                *)

\* load_modules lists the directory, then reads the files one by one.
ListModules ==
  /\ daemon.pc = "sleep" /\ polls < MaxPolls
  /\ daemon' = [Sleeping EXCEPT !.pc = "modules",
                                !.unread = {m \in Modules : inventory[m] # Absent},
                                !.failing = {m \in Modules : inventory[m] = "inadmissible"}]
  /\ polls' = polls + 1
  /\ UNCHANGED <<inventory, intent, disk>>

\* An error of reconcile_once: the plan on disk stays, health says daemon-error.
DaemonError(io) == daemon' = [daemon EXCEPT !.pc = "health", !.unread = {}, !.io = io,
                                            !.publish = [state |-> "daemon-error"]]

\* A file that has disappeared since it was listed cannot be read, a torn one not parsed.
ReadModule(m) ==
  /\ daemon.pc = "modules" /\ m \in daemon.unread
  /\ IF inventory[m] \in {Absent, Torn} THEN DaemonError(FALSE)
     ELSE daemon' = [daemon EXCEPT !.unread = @ \ {m},
                       !.seen = [x \in DOMAIN @ \cup {m} |->
                                   IF x = m THEN inventory[m] ELSE @[x]]]
  /\ UNCHANGED <<inventory, intent, disk, polls>>

Planned(seen, targets) == targets \subseteq {m \in DOMAIN seen : seen[m] = "admissible"}

LoadIntent ==
  /\ daemon.pc = "modules" /\ daemon.unread = {}
  /\ CASE intent.state = Torn -> DaemonError(FALSE)
       [] intent.state = Absent ->
            daemon' = [daemon EXCEPT !.pc = "remove", !.publish = [state |-> "waiting-intent"]]
       [] intent.state = "complete" /\ Planned(daemon.seen, intent.targets) ->
            daemon' = [daemon EXCEPT !.pc = "plan",
                         !.publish = [state |-> "ready", targets |-> intent.targets]]
       [] OTHER ->
            daemon' = [daemon EXCEPT !.pc = "remove", !.publish = [state |-> "fail-closed"]]
  /\ UNCHANGED <<inventory, intent, disk, polls>>

\* Mutant: without an intent the last plan stays.
RemoveRefusedPlan ==
  /\ daemon.pc = "remove"
  /\ disk' = IF daemon.publish.state = "fail-closed" THEN [disk EXCEPT !.plan = NoDocument]
             ELSE disk
  /\ daemon' = [daemon EXCEPT !.pc = "health"]
  /\ UNCHANGED <<inventory, intent, polls>>

\* A failing removal is ignored.
RemovePlan ==
  /\ daemon.pc = "remove"
  /\ \/ disk' = [disk EXCEPT !.plan = NoDocument] /\ daemon' = [daemon EXCEPT !.pc = "health"]
     \/ disk' = disk /\ daemon' = [daemon EXCEPT !.pc = "health", !.io = TRUE]
  /\ UNCHANGED <<inventory, intent, polls>>

\* Mutant: the document is written in place.
CreateInPlace(tmp, path) == disk' = [disk EXCEPT ![path] = HalfWritten, ![tmp] = HalfWritten]

\* atomic_json: create the temporary, write and sync it, rename it.
CreateTmp(tmp, path) == disk' = [disk EXCEPT ![tmp] = HalfWritten]

WriteTmp(tmp, document) == disk' = [disk EXCEPT ![tmp] = document]

Rename(tmp, path) == disk' = [disk EXCEPT ![path] = disk[tmp], ![tmp] = NoDocument]

Goto(pc) == daemon' = [daemon EXCEPT !.pc = pc]

\* The three operations of atomic_json for the plan; each may fail.
PublishPlan ==
  /\ \/ daemon.pc = "plan" /\ CreateTmp("planTmp", "plan") /\ Goto("plan write")
     \/ daemon.pc = "plan write" /\ WriteTmp("planTmp", daemon.publish) /\ Goto("plan rename")
     \/ daemon.pc = "plan rename" /\ Rename("planTmp", "plan") /\ Goto("health")
     \/ /\ daemon.pc \in {"plan", "plan write", "plan rename"}
        /\ DaemonError(TRUE) /\ UNCHANGED disk
  /\ UNCHANGED <<inventory, intent, polls>>

\* A failure to publish the health ends the poll; the loop prints it and goes on.
PublishHealth ==
  /\ \/ daemon.pc = "health" /\ CreateTmp("healthTmp", "health") /\ Goto("health write")
     \/ /\ daemon.pc = "health write" /\ WriteTmp("healthTmp", daemon.publish)
        /\ Goto("health rename")
     \/ /\ daemon.pc = "health rename" /\ Rename("healthTmp", "health")
        /\ daemon' = [daemon EXCEPT !.pc = "sleep", !.done = TRUE]
     \/ /\ daemon.pc \in {"health", "health write", "health rename"}
        /\ daemon' = [daemon EXCEPT !.pc = "sleep", !.io = TRUE] /\ UNCHANGED disk
  /\ UNCHANGED <<inventory, intent, polls>>

\* The process is killed and started again; the files stay.
Crash == /\ daemon.pc # "sleep"
         /\ daemon' = Sleeping
         /\ UNCHANGED <<inventory, intent, disk, polls>>

Next ==
  \/ \E m \in Modules : ModuleReports(m) \/ ReadModule(m)
  \/ IntentChanges \/ ListModules \/ LoadIntent \/ RemovePlan \/ PublishPlan \/ PublishHealth
  \/ Crash

Spec == Init /\ [][Next]_odVars

-----------------------------------------------------------------------------
(* Properties                                                              *)

\* PublishedWhole: whoever opens the plan or the health file reads a complete document, no
\* matter where the daemon was killed, also when it was killed before and left its
\* temporary behind.  (atomic_json)
PublishedWhole == disk.plan.state # Torn /\ disk.health.state # Torn

\* HealthOfPlan: after a poll in which every file operation worked and every document could
\* be read, health and plan agree: ready means that the plan on disk is the one of this
\* poll, anything else that there is none.  (reconcile_once, run_once)
HealthOfPlan ==
  daemon.pc = "sleep" /\ daemon.done /\ ~daemon.io
    /\ daemon.publish.state # "daemon-error" =>
      /\ disk.health = daemon.publish
      /\ disk.plan = IF daemon.publish.state = "ready" THEN daemon.publish ELSE NoDocument

\* FailsClosed: "if module identity, route capability, clock lock, scheduled playout or
\* skew admission fails, the previous active plan is removed rather than retained"
\* (os/aurora-os/README.md): after a poll in which every file operation worked, no
\* published plan targets a module that was inadmissible all through the poll.
FailsClosed ==
  daemon.pc = "sleep" /\ daemon.done /\ ~daemon.io /\ disk.plan.state = "ready"
    => disk.plan.targets \cap daemon.failing = {}
=============================================================================
