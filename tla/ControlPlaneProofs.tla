------------------------- MODULE ControlPlaneProofs -------------------------
(***************************************************************************)
(* Proofs about the control plane: the plugin registry, source sessions,   *)
(* live decode, the AuroraOS daemon, device selection and the diagnostic   *)
(* log.  The components move alone, so each has its own invariant and a    *)
(* step of another leaves its variables as they are.                       *)
(***************************************************************************)
EXTENDS MCControlPlane, SequenceTheorems, TLAPS

-----------------------------------------------------------------------------
(* The plugin registry.                                                    *)

\* Whoever can rebuild the registry from the disk gets only what was committed, and the
\* running one remembers every identity that is there.
DiskInv ==
  /\ Registry!IdentityPermanent
  /\ \A p \in Plugins : {disk[p].active, disk[p].rollback} \ {None} \subseteq committed[p]

RegistryInv == RegistrySound /\ DiskInv

LEMMA RegistryInit == MCInit => RegistryInv
<1> SUFFICES ASSUME MCInit PROVE RegistryInv
  OBVIOUS
<1>1. /\ hostApi \in HostApis /\ slots = [p \in Plugins |-> Registry!EmptySlot] /\ disk = slots
      /\ committed = [p \in Plugins |-> {}]
  BY DEF MCInit, Registry!Init
<1>2. Registry!EmptySlot \in Registry!Slots
  <2>1. <<>> \in Registry!KnownDigests
    BY DEF Registry!KnownDigests
  <2> QED BY <2>1 DEF Registry!EmptySlot, Registry!Slots
<1>3. Registry!TypeOK
  BY <1>1, <1>2 DEF Registry!TypeOK
<1>4. Registry!SnapshotRestorable
  BY <1>1 DEF Registry!SnapshotRestorable, Registry!RestoredSlotValid, Registry!EmptySlot
<1>5. Registry!IdentityPermanent
  BY <1>1 DEF Registry!IdentityPermanent
<1> QED BY <1>1, <1>3, <1>4, <1>5
        DEF RegistryInv, RegistrySound, DiskInv, Registry!ActiveWasCommitted, Registry!EmptySlot

\* What is remembered stays as it was; a new version gets the digest of its package.
LEMMA RememberKeeps ==
  ASSUME NEW known \in Registry!KnownDigests, NEW pkg \in Registry!Packages
  PROVE  LET k == Registry!Remember(known, pkg)
         IN /\ k \in Registry!KnownDigests
            /\ DOMAIN k = DOMAIN known \union {pkg.version}
            /\ \A v \in DOMAIN known : k[v] = known[v]
            /\ pkg.version \notin DOMAIN known => k[pkg.version] = pkg.digest
<1>1. PICK V \in SUBSET Versions : known \in [V -> Digests]
  BY DEF Registry!KnownDigests
<1>2. pkg.version \in Versions /\ pkg.digest \in Digests
  BY DEF Registry!Packages
<1>3. Registry!Remember(known, pkg) \in [V \union {pkg.version} -> Digests]
  BY <1>1, <1>2 DEF Registry!Remember
<1>4. Registry!Remember(known, pkg) \in Registry!KnownDigests
  BY <1>2, <1>3 DEF Registry!KnownDigests
<1> QED BY <1>1, <1>2, <1>4 DEF Registry!Remember

\* An operation on the slot of one plugin that keeps the slot restorable and what it
\* remembers.
LEMMA SlotMove ==
  ASSUME RegistryInv, NEW p \in Plugins, NEW slot \in Registry!Slots,
         slots' = [slots EXCEPT ![p] = slot], UNCHANGED <<hostApi, disk>>,
         committed' = [committed EXCEPT ![p] = committed'[p]],
         committed[p] \subseteq committed'[p], committed'[p] \subseteq Registry!Packages,
         Registry!RestoredSlotValid(hostApi, slot),
         \A v \in DOMAIN slots[p].known : v \in DOMAIN slot.known /\ slot.known[v] = slots[p].known[v],
         {slot.active, slot.rollback} \ {None} \subseteq committed'[p]
  PROVE  RegistryInv'
<1>1. Registry!TypeOK'
  BY DEF RegistryInv, RegistrySound, Registry!TypeOK
<1>2. \A q \in Plugins : slots'[q] = IF q = p THEN slot ELSE slots[q]
  BY DEF RegistryInv, RegistrySound, Registry!TypeOK
<1>3. Registry!SnapshotRestorable'
  BY <1>2 DEF RegistryInv, RegistrySound, Registry!SnapshotRestorable
<1>4. \A q \in Plugins : committed[q] \subseteq committed'[q]
  BY DEF RegistryInv, RegistrySound, Registry!TypeOK
<1>5. Registry!ActiveWasCommitted'
  BY <1>2, <1>4 DEF RegistryInv, RegistrySound, Registry!ActiveWasCommitted
<1>6. Registry!IdentityPermanent'
  BY <1>2 DEF RegistryInv, RegistrySound, Registry!IdentityPermanent
<1>7. \A q \in Plugins : {disk'[q].active, disk'[q].rollback} \ {None} \subseteq committed'[q]
  BY <1>4 DEF RegistryInv, DiskInv
<1> QED BY <1>1, <1>3, <1>5, <1>6, <1>7 DEF RegistryInv, RegistrySound, DiskInv

LEMMA RegistryStep == RegistryInv /\ Registry!Next => RegistryInv'
<1> SUFFICES ASSUME RegistryInv, Registry!Next PROVE RegistryInv'
  OBVIOUS
<1>0. /\ hostApi \in HostApis /\ slots \in [Plugins -> Registry!Slots]
      /\ disk \in [Plugins -> Registry!Slots] /\ committed \in [Plugins -> SUBSET Registry!Packages]
  BY DEF RegistryInv, RegistrySound, Registry!TypeOK
<1>1. ASSUME NEW p \in Plugins, NEW pkg \in Offered, Registry!Stage(p, pkg) PROVE RegistryInv'
  <2> DEFINE slot == [slots[p] EXCEPT !.known = Registry!Remember(@, pkg), !.staged = pkg]
  <2>0. pkg \in Registry!Packages
    BY ControlPlaneAssumption
  <2>1. slots[p] \in Registry!Slots /\ slots[p].known \in Registry!KnownDigests
    BY <1>0 DEF Registry!Slots
  <2>2. /\ Registry!Remember(slots[p].known, pkg) \in Registry!KnownDigests
        /\ DOMAIN Registry!Remember(slots[p].known, pkg) = DOMAIN slots[p].known \union {pkg.version}
        /\ \A v \in DOMAIN slots[p].known :
             Registry!Remember(slots[p].known, pkg)[v] = slots[p].known[v]
        /\ pkg.version \notin DOMAIN slots[p].known =>
             Registry!Remember(slots[p].known, pkg)[pkg.version] = pkg.digest
    BY <2>0, <2>1, RememberKeeps
  <2>3. /\ slot \in Registry!Slots /\ slot.known = Registry!Remember(slots[p].known, pkg)
        /\ slot.active = slots[p].active /\ slot.staged = pkg /\ slot.rollback = slots[p].rollback
    BY <2>0, <2>1, <2>2 DEF Registry!Slots
  <2>4. /\ slots' = [slots EXCEPT ![p] = slot] /\ UNCHANGED <<hostApi, disk, committed>>
        /\ Registry!ValidateForHost(pkg.manifest, hostApi)
        /\ Registry!KnownVersionConsistent(slots[p], pkg)
        /\ ~Registry!SamePackage(slots[p].active, pkg)
    BY <1>1 DEF Registry!Stage
  <2>5. slot.known[pkg.version] = pkg.digest /\ pkg.version \in DOMAIN slot.known
    BY <2>2, <2>3, <2>4 DEF Registry!KnownVersionConsistent
  <2>6. Registry!RestoredSlotValid(hostApi, slots[p])
    BY DEF RegistryInv, RegistrySound, Registry!SnapshotRestorable
  <2>7. slot.active = None \/ slot.active # slot.staged
    BY <2>3, <2>4 DEF Registry!SamePackage
  <2>8. Registry!RestoredSlotValid(hostApi, slot)
    BY <2>2, <2>3, <2>4, <2>5, <2>6, <2>7 DEF Registry!RestoredSlotValid
  <2>9. {slot.active, slot.rollback} \ {None} \subseteq committed'[p]
    BY <2>3, <2>4 DEF RegistryInv, RegistrySound, Registry!ActiveWasCommitted
  <2>10. \A v \in DOMAIN slots[p].known :
          v \in DOMAIN slot.known /\ slot.known[v] = slots[p].known[v]
    BY <2>2, <2>3
  <2>11. slot \in Registry!Slots
    BY <2>3
  <2> HIDE DEF slot
  <2> QED BY <1>0, <2>4, <2>8, <2>9, <2>10, <2>11, SlotMove
<1>2. ASSUME NEW p \in Plugins, Registry!CommitStaged(p) PROVE RegistryInv'
  <2> DEFINE slot == [slots[p] EXCEPT !.staged = None, !.active = slots[p].staged,
                                      !.rollback = slots[p].active]
  <2>1. slots[p] \in Registry!Slots /\ Registry!RestoredSlotValid(hostApi, slots[p])
    BY <1>0 DEF RegistryInv, RegistrySound, Registry!SnapshotRestorable
  <2>2. /\ slot \in Registry!Slots /\ slot.known = slots[p].known /\ slot.staged = None
        /\ slot.active = slots[p].staged /\ slot.rollback = slots[p].active
    BY <2>1 DEF Registry!Slots
  <2>3. /\ slots[p].staged \in Registry!Packages /\ slots[p].staged # None
        /\ slots' = [slots EXCEPT ![p] = slot] /\ UNCHANGED <<hostApi, disk>>
        /\ committed' = [committed EXCEPT ![p] = @ \union {slots[p].staged}]
    BY <1>2, <2>1 DEF Registry!CommitStaged, Registry!Slots
  <2>4. Registry!RestoredSlotValid(hostApi, slot)
    BY <2>1, <2>2, <2>3 DEF Registry!RestoredSlotValid
  <2>5. committed'[p] = committed[p] \union {slots[p].staged}
    BY <1>0, <2>3
  <2>6. {slot.active, slot.rollback} \ {None} \subseteq committed'[p]
    BY <2>2, <2>5 DEF RegistryInv, RegistrySound, Registry!ActiveWasCommitted
  <2> HIDE DEF slot
  <2> QED BY <1>0, <2>2, <2>3, <2>4, <2>5, <2>6, SlotMove
<1>3. ASSUME NEW p \in Plugins, Registry!DiscardStaged(p) PROVE RegistryInv'
  <2> DEFINE slot == [slots[p] EXCEPT !.staged = None]
  <2>1. slots[p] \in Registry!Slots /\ Registry!RestoredSlotValid(hostApi, slots[p])
    BY <1>0 DEF RegistryInv, RegistrySound, Registry!SnapshotRestorable
  <2>2. /\ slot \in Registry!Slots /\ slot.known = slots[p].known /\ slot.staged = None
        /\ slot.active = slots[p].active /\ slot.rollback = slots[p].rollback
    BY <2>1 DEF Registry!Slots
  <2>3. slots' = [slots EXCEPT ![p] = slot] /\ UNCHANGED <<hostApi, disk, committed>>
    BY <1>3 DEF Registry!DiscardStaged
  <2>4. Registry!RestoredSlotValid(hostApi, slot)
    BY <2>1, <2>2 DEF Registry!RestoredSlotValid
  <2>5. {slot.active, slot.rollback} \ {None} \subseteq committed'[p]
    BY <2>2, <2>3 DEF RegistryInv, RegistrySound, Registry!ActiveWasCommitted
  <2> HIDE DEF slot
  <2> QED BY <1>0, <2>2, <2>3, <2>4, <2>5, SlotMove
<1>4. ASSUME NEW p \in Plugins, Registry!Rollback(p) PROVE RegistryInv'
  <2> DEFINE slot == [slots[p] EXCEPT !.staged = None, !.active = slots[p].rollback,
                                      !.rollback = slots[p].active]
  <2>1. slots[p] \in Registry!Slots /\ Registry!RestoredSlotValid(hostApi, slots[p])
    BY <1>0 DEF RegistryInv, RegistrySound, Registry!SnapshotRestorable
  <2>2. /\ slot \in Registry!Slots /\ slot.known = slots[p].known /\ slot.staged = None
        /\ slot.active = slots[p].rollback /\ slot.rollback = slots[p].active
    BY <2>1 DEF Registry!Slots
  <2>3. /\ slots[p].rollback # None
        /\ slots' = [slots EXCEPT ![p] = slot] /\ UNCHANGED <<hostApi, disk, committed>>
    BY <1>4 DEF Registry!Rollback
  <2>4. Registry!RestoredSlotValid(hostApi, slot)
    BY <2>1, <2>2, <2>3 DEF Registry!RestoredSlotValid
  <2>5. {slot.active, slot.rollback} \ {None} \subseteq committed'[p]
    BY <2>2, <2>3 DEF RegistryInv, RegistrySound, Registry!ActiveWasCommitted
  <2> HIDE DEF slot
  <2> QED BY <1>0, <2>2, <2>3, <2>4, <2>5, SlotMove
<1>5. CASE Registry!Persist
  <2>1. disk' = slots /\ UNCHANGED <<hostApi, slots, committed>>
    BY <1>5 DEF Registry!Persist
  <2>2. Registry!TypeOK' /\ Registry!SnapshotRestorable' /\ Registry!ActiveWasCommitted'
    BY <2>1 DEF RegistryInv, RegistrySound, Registry!TypeOK, Registry!SnapshotRestorable,
                Registry!ActiveWasCommitted
  <2>3. Registry!IdentityPermanent'
    BY <2>1 DEF Registry!IdentityPermanent
  <2>4. \A p \in Plugins : {disk'[p].active, disk'[p].rollback} \ {None} \subseteq committed'[p]
    BY <2>1 DEF RegistryInv, RegistrySound, Registry!ActiveWasCommitted
  <2> QED BY <2>2, <2>3, <2>4 DEF RegistryInv, RegistrySound, DiskInv
<1>6. ASSUME NEW h \in HostApis, Registry!Restart(h) PROVE RegistryInv'
  <2>1. /\ \A p \in Plugins : Registry!RestoredSlotValid(h, disk[p])
        /\ hostApi' = h /\ slots' = disk /\ UNCHANGED <<disk, committed>>
    BY <1>6 DEF Registry!Restart
  <2>2. Registry!TypeOK' /\ Registry!SnapshotRestorable'
    BY <2>1, <1>0 DEF Registry!TypeOK, Registry!SnapshotRestorable
  <2>3. Registry!ActiveWasCommitted' /\ Registry!IdentityPermanent' /\ DiskInv'
    BY <2>1 DEF RegistryInv, DiskInv, Registry!ActiveWasCommitted, Registry!IdentityPermanent
  <2> QED BY <2>2, <2>3 DEF RegistryInv, RegistrySound
<1> QED BY <1>1, <1>2, <1>3, <1>4, <1>5, <1>6 DEF Registry!Next

LEMMA RegistryKept == RegistryInv /\ UNCHANGED registryVars => RegistryInv'
BY DEF registryVars, RegistryInv, RegistrySound, DiskInv, Registry!TypeOK, Registry!SnapshotRestorable,
       Registry!ActiveWasCommitted, Registry!IdentityPermanent

\* The plugin registry: what was ever staged, committed, discarded, rolled back, persisted
\* and restored, a snapshot taken now can be restored, no version on disk is forgotten or
\* becomes other bytes, and what is active was committed.
THEOREM RegistrySafety == MCSpec => []RegistrySound
<1>1. RegistryInv /\ [MCNext]_mcVars => RegistryInv'
  BY RegistryStep, RegistryKept DEF MCNext, mcVars, RegistryMoves, ManagerMoves, LiveMoves,
     SetupMoves, DaemonMoves, DeviceMoves, LogMoves, MetricMoves
<1>2. RegistryInv => RegistrySound
  BY DEF RegistryInv
<1> QED BY <1>1, <1>2, RegistryInit, PTL DEF MCSpec

-----------------------------------------------------------------------------
(* Source sessions.                                                        *)

ManagerInv == Manager!TypeOK /\ Manager!OnlyActivePlays

LEMMA ManagerInit == MCInit => ManagerInv
BY ControlPlaneAssumption DEF MCInit, ManagerInv, Manager!Init, Manager!TypeOK, Manager!OnlyActivePlays,
   Manager!Records, Manager!Unregistered, Manager!States

\* A step that gives one source a record that does not play, and leaves no active session of
\* it but one of the same generation, keeps the invariant.
LEMMA QuietRecord ==
  ASSUME ManagerInv, NEW s \in Sources, NEW record \in Manager!Records,
         sources' = [sources EXCEPT ![s] = record], record.state \notin {"Active", "Paused"},
         \/ active' = None
         \/ active' = active /\ (active.source = s => record.generation = sources[s].generation),
         active' = None => active = None \/ active.source = s,
         chunks' \subseteq Manager!Sessions, released' \in Manager!Sessions \union {None}
  PROVE  ManagerInv'
<1>1. Manager!TypeOK'
  BY DEF ManagerInv, Manager!TypeOK
<1>2. /\ sources'[s] = record /\ \A x \in Sources \ {s} : sources'[x] = sources[x]
      /\ active \in Manager!Sessions \union {None}
  BY DEF ManagerInv, Manager!TypeOK
<1>3. active' # None => Manager!Current(active)'
  <2> SUFFICES ASSUME active' # None PROVE sources'[active.source].generation = active.generation
    BY DEF Manager!Current
  <2>1. active \in Manager!Sessions /\ sources[active.source].generation = active.generation
    BY <1>2 DEF ManagerInv, Manager!OnlyActivePlays, Manager!Current
  <2> QED BY <1>2, <2>1 DEF Manager!Sessions
<1>4. ASSUME NEW x \in Sources, sources'[x].state \in {"Active", "Paused"}
      PROVE  active' = [source |-> x, generation |-> sources'[x].generation]
  <2>1. x # s /\ sources'[x] = sources[x]
    BY <1>2, <1>4
  <2>2. active = [source |-> x, generation |-> sources[x].generation]
    BY <1>4, <2>1 DEF ManagerInv, Manager!OnlyActivePlays
  <2>3. sources[x].generation \in Nat /\ active.source = x
    BY <2>2 DEF ManagerInv, Manager!TypeOK, Manager!Records
  <2> QED BY <2>1, <2>2, <2>3
<1> QED BY <1>1, <1>3, <1>4 DEF ManagerInv, Manager!OnlyActivePlays

LEMMA ManagerStep == ManagerInv /\ Manager!Next => ManagerInv'
<1> SUFFICES ASSUME ManagerInv, Manager!Next PROVE ManagerInv'
  OBVIOUS
<1>0. /\ sources \in [Sources -> Manager!Records] /\ active \in Manager!Sessions \union {None}
      /\ chunks \in SUBSET Manager!Sessions /\ released \in Manager!Sessions \union {None}
      /\ active # None => Manager!Current(active)
  BY DEF ManagerInv, Manager!TypeOK, Manager!OnlyActivePlays
<1>1. ASSUME NEW s \in Sources, NEW permitted \in BOOLEAN,
             \/ Manager!Register(s, permitted) \/ Manager!ReplaceRegistration(s, permitted)
      PROVE  ManagerInv'
  <2> DEFINE record == [generation |-> sources[s].generation + 1, permitted |-> permitted,
                        state |-> "Available", prepared |-> None]
  <2>1. /\ sources' = [sources EXCEPT ![s] = record] /\ UNCHANGED <<chunks, released>>
        /\ sources[s].generation + 1 \in 1 .. MaxGeneration
    BY <1>0, <1>1, ControlPlaneAssumption
       DEF Manager!Register, Manager!ReplaceRegistration, Manager!Define, Manager!Records
  <2>2. record \in Manager!Records /\ record.state = "Available"
    BY <2>1 DEF Manager!Records, Manager!States
  <2>3. CASE Manager!Register(s, permitted)
    <3>1. active' = active /\ (active # None => active.source # s)
      BY <1>0, <2>3 DEF Manager!Register, Manager!Current, Manager!Sessions
    <3>2. CASE active = None
      <4> HIDE DEF record
      <4> QED BY <1>0, <2>1, <2>2, <3>1, <3>2, QuietRecord
    <3>3. CASE active # None
      <4> HIDE DEF record
      <4> QED BY <1>0, <2>1, <2>2, <3>1, <3>3, QuietRecord
    <3> QED BY <3>2, <3>3
  <2>4. CASE Manager!ReplaceRegistration(s, permitted)
    <3>1. active' = IF active # None /\ active.source = s THEN None ELSE active
      BY <2>4 DEF Manager!ReplaceRegistration
    <3> HIDE DEF record
    <3>2. CASE active' = None
      BY <1>0, <2>1, <2>2, <3>1, <3>2, QuietRecord
    <3>3. CASE active' # None
      <4>1. active' = active /\ active.source # s
        BY <3>1, <3>3
      <4> QED BY <1>0, <2>1, <2>2, <3>3, <4>1, QuietRecord
    <3> QED BY <3>2, <3>3
  <2> QED BY <1>1, <2>3, <2>4
<1>2. ASSUME NEW session \in Manager!Sessions, NEW canPause \in BOOLEAN,
             \/ Manager!Prepare(session, canPause) \/ Manager!FailPrepare(session)
      PROVE  ManagerInv'
  <2> DEFINE prepared == [generation |-> session.generation, canPause |-> canPause]
             record == IF Manager!Prepare(session, canPause)
                       THEN [sources[session.source] EXCEPT !.state = "Available", !.prepared = prepared]
                       ELSE [sources[session.source] EXCEPT !.state = "Failed", !.prepared = None]
  <2>1. session.source \in Sources /\ prepared \in Manager!Prepared
    BY DEF Manager!Sessions, Manager!Prepared
  <2>2. sources[session.source] \in Manager!Records
    BY <1>0, <2>1
  <2>3. /\ sources' = [sources EXCEPT ![session.source] = record]
        /\ UNCHANGED <<active, chunks, released>>
    BY <1>0, <1>2, <2>1 DEF Manager!Prepare, Manager!FailPrepare
  <2>4. /\ record \in Manager!Records /\ record.state \notin {"Active", "Paused"}
        /\ record.generation = sources[session.source].generation
    BY <2>1, <2>2 DEF Manager!Records, Manager!States
  <2> HIDE DEF record
  <2> QED BY <1>0, <2>1, <2>3, <2>4, QuietRecord
<1>3. ASSUME NEW session \in Manager!Sessions, Manager!Activate(session) PROVE ManagerInv'
  <2> DEFINE drained == Manager!Drained(session)
             record == [drained[session.source] EXCEPT !.state = "Active"]
  <2>1. /\ sources' = [drained EXCEPT ![session.source].state = "Active"]
        /\ active' = session /\ UNCHANGED <<chunks, released>>
        /\ sources[session.source].generation = session.generation
    BY <1>3 DEF Manager!Activate, Manager!Current
  <2>2. /\ session.source \in Sources /\ session.generation \in 1 .. MaxGeneration
        /\ session = [source |-> session.source, generation |-> session.generation]
    BY DEF Manager!Sessions
  <2>3. /\ drained \in [Sources -> Manager!Records]
        /\ \A x \in Sources : drained[x].generation = sources[x].generation
    BY <1>0 DEF Manager!Drained, Manager!Records, Manager!States, Manager!Sessions
  <2>4. \A x \in Sources \ {session.source} : drained[x].state \notin {"Active", "Paused"}
    <3> SUFFICES ASSUME NEW x \in Sources \ {session.source},
                        drained[x].state \in {"Active", "Paused"}
                 PROVE  FALSE
      OBVIOUS
    <3>1. drained[x].state # "Draining" /\ sources[x].state \in {"Active", "Paused"}
      BY <1>0 DEF Manager!Drained, Manager!Sessions, Manager!Records
    <3>2. active = [source |-> x, generation |-> sources[x].generation]
      BY <3>1 DEF ManagerInv, Manager!OnlyActivePlays
    <3>3. active.source = x /\ active # session /\ Manager!Current(active)
      BY <3>2, <2>2 DEF Manager!Current
    <3>4. active # None => drained[x].state = "Draining"
      BY <1>0, <3>3 DEF Manager!Drained, Manager!Records
    <3>5. active # None
      <4>1. sources[x].generation \in Nat
        BY <1>0 DEF Manager!Records
      <4> QED BY <3>2, <4>1, ControlPlaneAssumption
    <3> QED BY <3>1, <3>4, <3>5
  <2> HIDE DEF drained
  <2>5. /\ sources' \in [Sources -> Manager!Records]
        /\ sources'[session.source].generation = session.generation
        /\ \A x \in Sources \ {session.source} : sources'[x] = drained[x]
    BY <2>1, <2>2, <2>3 DEF Manager!Records, Manager!States
  <2>6. Manager!TypeOK'
    BY <1>0, <2>1, <2>5 DEF Manager!TypeOK
  <2>7. Manager!Current(active)'
    BY <2>1, <2>5 DEF Manager!Current
  <2>8. ASSUME NEW x \in Sources, sources'[x].state \in {"Active", "Paused"}
        PROVE  active' = [source |-> x, generation |-> sources'[x].generation]
    <3>1. x = session.source
      BY <2>4, <2>5, <2>8
    <3> QED BY <2>1, <2>2, <2>5, <3>1
  <2> QED BY <2>6, <2>7, <2>8 DEF ManagerInv, Manager!OnlyActivePlays
<1>4. ASSUME NEW session \in Manager!Sessions, NEW command \in {"Play", "Pause", "Stop"},
             Manager!Transport(session, command)
      PROVE  ManagerInv'
  <2> DEFINE state1 == CASE command = "Play" -> "Active"
                         [] command = "Pause" -> "Paused"
                         [] command = "Stop" -> "Stopped"
             record == [sources[session.source] EXCEPT !.state = state1]
  <2>1. /\ active = session /\ Manager!Current(session)
        /\ sources' = [sources EXCEPT ![session.source] = record]
        /\ active' = IF command = "Stop" THEN None ELSE active
        /\ UNCHANGED <<chunks, released>>
    BY <1>0, <1>4 DEF Manager!Transport
  <2>2. session.source \in Sources /\ session = [source |-> session.source, generation |-> session.generation]
    BY DEF Manager!Sessions
  <2>3. /\ record \in Manager!Records /\ record.generation = session.generation
        /\ command = "Stop" => record.state = "Stopped"
    BY <1>0, <2>1, <2>2 DEF Manager!Records, Manager!States, Manager!Current
  <2> HIDE DEF record
  <2>4. CASE command = "Stop"
    BY <1>0, <2>1, <2>2, <2>3, <2>4, QuietRecord
  <2>5. CASE command # "Stop"
    <3>1. active' = session
      BY <2>1, <2>5
    <3>2. Manager!TypeOK'
      BY <1>0, <2>1, <2>3, <3>1 DEF Manager!TypeOK
    <3>3. /\ sources'[session.source] = record
          /\ \A x \in Sources \ {session.source} : sources'[x] = sources[x]
      BY <1>0, <2>1, <2>2
    <3>4. Manager!Current(active)'
      BY <2>3, <3>1, <3>3 DEF Manager!Current
    <3>5. ASSUME NEW x \in Sources, sources'[x].state \in {"Active", "Paused"}
          PROVE  active' = [source |-> x, generation |-> sources'[x].generation]
      <4>1. CASE x = session.source
        BY <2>2, <2>3, <3>1, <3>3, <4>1
      <4>2. CASE x # session.source
        <5>1. active = [source |-> x, generation |-> sources[x].generation]
          BY <3>3, <3>5, <4>2 DEF ManagerInv, Manager!OnlyActivePlays
        <5> QED BY <2>1, <4>2, <5>1
      <4> QED BY <4>1, <4>2
    <3> QED BY <3>2, <3>4, <3>5 DEF ManagerInv, Manager!OnlyActivePlays
  <2> QED BY <2>4, <2>5
<1>5. ASSUME NEW session \in Manager!Sessions,
             Manager!PrepareChunk(session) \/ Manager!CommitActive(session)
      PROVE  ManagerInv'
  <2>1. /\ UNCHANGED <<sources, active>> /\ chunks' \subseteq chunks \union {session}
        /\ released' \in {released, session}
    BY <1>5 DEF Manager!PrepareChunk, Manager!CommitActive
  <2>2. Manager!TypeOK'
    BY <1>0, <2>1 DEF Manager!TypeOK
  <2> QED BY <2>1, <2>2 DEF ManagerInv, Manager!OnlyActivePlays, Manager!Current
<1> QED BY <1>1, <1>2, <1>3, <1>4, <1>5 DEF Manager!Next

LEMMA ManagerKept == ManagerInv /\ UNCHANGED managerVars => ManagerInv'
BY DEF managerVars, ManagerInv, Manager!TypeOK, Manager!OnlyActivePlays, Manager!Current

LEMMA ManagerStays == ManagerInv /\ [MCNext]_mcVars => ManagerInv'
BY ManagerStep, ManagerKept DEF MCNext, mcVars, RegistryMoves, ManagerMoves, LiveMoves, SetupMoves,
   DaemonMoves, DeviceMoves, LogMoves, MetricMoves

\* SourceSessionManager: a chunk is released only while its session is active and current,
\* however long the caller held it and whatever was registered since.
THEOREM ReleaseSafety == MCSpec => ReleasedOnlyActive
<1>1. [MCNext]_mcVars =>
        [released' # released => active = released' /\ Manager!Current(released')]_managerVars
  BY DEF MCNext, mcVars, RegistryMoves, ManagerMoves, LiveMoves, SetupMoves, DaemonMoves, DeviceMoves,
     LogMoves, MetricMoves, managerVars, Manager!Next, Manager!Register, Manager!ReplaceRegistration,
     Manager!Prepare, Manager!FailPrepare, Manager!Activate, Manager!Transport, Manager!PrepareChunk,
     Manager!CommitActive
<1> QED BY <1>1, PTL DEF MCSpec, ReleasedOnlyActive, Manager!ReleasedOnlyActive, Manager!smVars, managerVars

-----------------------------------------------------------------------------
(* Live decode.                                                            *)

\* What one error stands for: itself and the poor packets its budget allows before it.
PerError == MaxEmpty + MaxProbe - 1

\* The errors the poor packets may have been among: a discontinuity forgets the packets and
\* takes a runtime out of its fault, and then the next error is the last.
ErrorsSpent == IF errors = MaxErrors THEN 0 ELSE errors

LiveInv ==
  /\ Live!TypeOK /\ poor \in Nat
  /\ streak = stable
  /\ out # {} => stable = RequiredStable /\ ~crashed /\ state = "Running"
  /\ state # "Faulted" =>
       /\ empty < MaxEmpty /\ probes < MaxProbe
       /\ poor <= ErrorsSpent * PerError + empty + probes
  /\ Live!PoorStreamFaults

\* The counters of a runtime that has seen no packet since it started over.
LEMMA NothingPoor ==
  ASSUME NEW n \in 0 .. MaxErrors
  PROVE  /\ PerError \in Nat /\ n * PerError \in Nat /\ MaxErrors * PerError \in Nat
         /\ 0 <= (IF n = MaxErrors THEN 0 ELSE n) * PerError + 0 + 0
<1>1. PerError \in Nat /\ MaxErrors \in Nat /\ n \in Nat
  BY ControlPlaneAssumption DEF PerError
<1>2. \A a, b \in Nat : a * b \in Nat
  OBVIOUS
<1>3. (IF n = MaxErrors THEN 0 ELSE n) \in Nat
  BY <1>1
<1>4. (IF n = MaxErrors THEN 0 ELSE n) * PerError \in Nat
  BY <1>1, <1>2, <1>3
<1> QED BY <1>1, <1>2, <1>4

LEMMA LiveInit == MCInit => LiveInv
<1> SUFFICES ASSUME MCInit PROVE LiveInv
  OBVIOUS
<1>1. /\ state = "Searching" /\ stable = 0 /\ errors = 0 /\ empty = 0 /\ probes = 0
      /\ crashed = FALSE /\ out = {} /\ streak = 0 /\ poor = 0
  BY DEF MCInit, Live!Init
<1>2. /\ {RequiredStable, MaxErrors, MaxEmpty, MaxProbe} \subseteq Nat \ {0}
      /\ 0 \in 0 .. RequiredStable /\ 0 \in 0 .. MaxErrors /\ 0 \in 0 .. MaxEmpty /\ 0 \in 0 .. MaxProbe
  BY ControlPlaneAssumption
<1>3. Live!TypeOK
  BY <1>1, <1>2 DEF Live!TypeOK
<1>4. MaxErrors * PerError \in Nat /\ poor <= ErrorsSpent * PerError + empty + probes
  BY <1>1, <1>2, NothingPoor DEF ErrorsSpent
<1>5. Live!PoorStreamFaults
  BY <1>1, <1>4 DEF Live!PoorStreamFaults, PerError
<1> QED BY <1>1, <1>2, <1>3, <1>4, <1>5 DEF LiveInv

LEMMA MoreErrors ==
  ASSUME NEW n \in Nat, n < MaxErrors
  PROVE  /\ PerError \in Nat \ {0} /\ n * PerError \in Nat /\ MaxErrors * PerError \in Nat
         /\ (n + 1) * PerError = n * PerError + PerError
         /\ (n + 1) * PerError <= MaxErrors * PerError
<1>1. PerError \in Nat \ {0} /\ MaxErrors \in Nat
  BY ControlPlaneAssumption DEF PerError
<1>2. \A k \in Nat, a, b \in Nat : a <= b => a * k <= b * k
  OBVIOUS
<1>3. (n + 1) * PerError = n * PerError + PerError
  BY <1>1
<1>4. n * PerError \in Nat /\ MaxErrors * PerError \in Nat
  BY <1>1
<1> QED BY <1>1, <1>2, <1>3, <1>4

\* A packet that is not good leaves the counters in their budgets or faults.
LEMMA LivePoor ==
  ASSUME LiveInv, state # "Faulted"
  PROVE  /\ ErrorsSpent \in Nat /\ ErrorsSpent < MaxErrors
         /\ poor + 1 <= (ErrorsSpent + 1) * PerError
         /\ (ErrorsSpent + 1) * PerError <= MaxErrors * PerError
<1>1. /\ ErrorsSpent \in Nat /\ ErrorsSpent < MaxErrors /\ poor \in Nat
      /\ empty \in Nat /\ probes \in Nat /\ empty + probes + 1 <= PerError
      /\ poor <= ErrorsSpent * PerError + empty + probes
  BY ControlPlaneAssumption DEF LiveInv, Live!TypeOK, ErrorsSpent, PerError
<1>2. /\ PerError \in Nat /\ ErrorsSpent * PerError \in Nat
      /\ (ErrorsSpent + 1) * PerError = ErrorsSpent * PerError + PerError
      /\ (ErrorsSpent + 1) * PerError <= MaxErrors * PerError
  BY <1>1, MoreErrors
<1> QED BY <1>1, <1>2

LEMMA LiveFailure ==
  ASSUME LiveInv, state # "Faulted", NEW after \in BOOLEAN, Live!RegisterFailure(after)
  PROVE  LiveInv'
<1>1. /\ errors' = (IF errors >= MaxErrors THEN errors ELSE errors + 1)
      /\ stable' = 0 /\ empty' = 0 /\ probes' = 0 /\ crashed' \in BOOLEAN
      /\ state' = (IF errors + 1 >= MaxErrors THEN "Faulted" ELSE "Muted")
      /\ out' = {} /\ streak' = 0 /\ poor' = poor + 1
  BY DEF Live!RegisterFailure, Live!ResetStream, Live!Silent
<1>2. /\ errors \in 0 .. MaxErrors /\ poor \in Nat
      /\ {RequiredStable, MaxErrors, MaxEmpty, MaxProbe} \subseteq Nat \ {0}
  BY ControlPlaneAssumption DEF LiveInv, Live!TypeOK
<1>3. Live!TypeOK'
  BY <1>1, <1>2 DEF Live!TypeOK
<1>4. state' # "Faulted" => ErrorsSpent' = ErrorsSpent + 1
  BY <1>1, <1>2 DEF ErrorsSpent
<1>5. poor' <= (ErrorsSpent + 1) * PerError /\ (ErrorsSpent + 1) * PerError <= MaxErrors * PerError
  BY <1>1, LivePoor
<1>6. /\ ErrorsSpent \in Nat /\ PerError \in Nat /\ (ErrorsSpent + 1) * PerError \in Nat
      /\ MaxErrors * PerError \in Nat
  BY LivePoor, MoreErrors, <1>2
<1>7. Live!PoorStreamFaults'
  BY <1>1, <1>2, <1>5, <1>6 DEF Live!PoorStreamFaults, PerError
<1>8. PerError' = PerError
  BY DEF PerError
<1>9. state' # "Faulted" => poor' <= ErrorsSpent' * PerError' + empty' + probes'
  <2> SUFFICES ASSUME state' # "Faulted" PROVE poor' <= ErrorsSpent' * PerError' + 0 + 0
    BY <1>1
  <2>1. ErrorsSpent' * PerError' = (ErrorsSpent + 1) * PerError
    BY <1>4, <1>8
  <2> QED BY <2>1, <1>5, <1>6
<1> QED BY <1>1, <1>2, <1>3, <1>7, <1>9 DEF LiveInv

\* A counter of poor packets goes up by one, or the runtime faults.
LEMMA LiveProbe ==
  ASSUME LiveInv, state # "Faulted",
         NEW e \in Nat, NEW n \in Nat, e + n = empty + probes + 1,
         e <= MaxEmpty, n <= MaxProbe, empty' = e, probes' = n,
         state' \in {"Faulted", "Priming"},
         state' = "Priming" => e < MaxEmpty /\ n < MaxProbe,
         stable' = 0, crashed' \in BOOLEAN, errors' = errors, Live!Silent(FALSE)
  PROVE  LiveInv'
<1>1. /\ out' = {} /\ streak' = 0 /\ poor' = poor + 1
      /\ errors \in 0 .. MaxErrors /\ poor \in Nat /\ empty \in Nat /\ probes \in Nat
      /\ {RequiredStable, MaxErrors, MaxEmpty, MaxProbe} \subseteq Nat \ {0}
  BY ControlPlaneAssumption DEF LiveInv, Live!TypeOK, Live!Silent
<1>2. Live!TypeOK'
  BY <1>1 DEF Live!TypeOK
<1>3. ErrorsSpent' = ErrorsSpent /\ PerError' = PerError
  BY DEF ErrorsSpent, PerError
<1>4. /\ ErrorsSpent \in Nat /\ PerError \in Nat /\ (ErrorsSpent + 1) * PerError \in Nat
      /\ MaxErrors * PerError \in Nat /\ ErrorsSpent * PerError \in Nat
  BY LivePoor, MoreErrors, <1>1
<1>5. poor' <= MaxErrors * PerError
  BY <1>1, <1>4, LivePoor
<1>6. Live!PoorStreamFaults'
  BY <1>5 DEF Live!PoorStreamFaults, PerError
<1>7. poor <= ErrorsSpent * PerError + empty + probes
  BY DEF LiveInv
<1>8. poor' <= ErrorsSpent * PerError + e + n
  BY <1>1, <1>4, <1>7
<1> QED BY <1>1, <1>2, <1>3, <1>6, <1>8 DEF LiveInv

\* The counters start over.
LEMMA LiveFresh ==
  ASSUME LiveInv, poor' = 0, empty' = 0, probes' = 0, errors' \in {0, errors},
         state' \in {"Searching", "Priming", "Running", "Muted", "Faulted"}, crashed' \in BOOLEAN,
         stable' \in 0 .. RequiredStable, streak' = stable',
         out' # {} => stable' = RequiredStable /\ ~crashed' /\ state' = "Running"
  PROVE  LiveInv'
<1>1. /\ {RequiredStable, MaxErrors, MaxEmpty, MaxProbe} \subseteq Nat \ {0}
      /\ errors' \in 0 .. MaxErrors
  BY ControlPlaneAssumption DEF LiveInv, Live!TypeOK
<1>2. Live!TypeOK'
  BY <1>1 DEF Live!TypeOK
<1>3. PerError' = PerError /\ ErrorsSpent' = IF errors' = MaxErrors THEN 0 ELSE errors'
  BY DEF ErrorsSpent, PerError
<1>4. MaxErrors * PerError \in Nat /\ poor' <= ErrorsSpent' * PerError' + empty' + probes'
  BY <1>1, <1>3, NothingPoor
<1>5. Live!PoorStreamFaults'
  BY <1>4 DEF Live!PoorStreamFaults, PerError
<1> QED BY <1>1, <1>2, <1>4, <1>5 DEF LiveInv

LEMMA LiveStep == LiveInv /\ Live!Next => LiveInv'
<1> SUFFICES ASSUME LiveInv, Live!Next PROVE LiveInv'
  OBVIOUS
<1>0. /\ stable \in 0 .. RequiredStable /\ crashed \in BOOLEAN /\ empty \in Nat /\ probes \in Nat
      /\ {RequiredStable, MaxErrors, MaxEmpty, MaxProbe} \subseteq Nat \ {0}
      /\ state \in {"Searching", "Priming", "Running", "Muted", "Faulted"}
      /\ state # "Faulted" => empty < MaxEmpty /\ probes < MaxProbe
      /\ streak = stable
  BY ControlPlaneAssumption DEF LiveInv, Live!TypeOK
<1>1. CASE Live!PacketRefused \/ Live!DecoderFails \/ Live!FrameRefused
  <2>1. state # "Faulted" /\ \E after \in BOOLEAN : Live!RegisterFailure(after)
    BY <1>0, <1>1 DEF Live!PacketRefused, Live!DecoderFails, Live!FrameRefused
  <2> QED BY <2>1, LiveFailure
<1>2. CASE Live!NoFrames
  <2>1. /\ state # "Faulted" /\ empty' = empty + 1 /\ probes' = probes
        /\ state' = (IF empty + 1 >= MaxEmpty THEN "Faulted" ELSE "Priming") /\ crashed' \in BOOLEAN
        /\ stable' = 0 /\ errors' = errors /\ Live!Silent(FALSE)
    BY <1>0, <1>2 DEF Live!NoFrames, Live!Probe, Live!ResetStream
  <2>2. /\ empty + 1 \in Nat /\ (empty + 1) + probes = empty + probes + 1 /\ empty + 1 <= MaxEmpty
        /\ probes <= MaxProbe /\ state' \in {"Faulted", "Priming"}
        /\ state' = "Priming" => empty + 1 < MaxEmpty /\ probes < MaxProbe
    BY <1>0, <2>1
  <2> QED BY <1>0, <2>1, <2>2, LiveProbe
<1>3. CASE Live!NoNativeObjects
  <2>1. /\ state # "Faulted" /\ probes' = probes + 1 /\ empty' = empty
        /\ state' = (IF probes + 1 >= MaxProbe THEN "Faulted" ELSE "Priming") /\ crashed' \in BOOLEAN
        /\ stable' = 0 /\ errors' = errors /\ Live!Silent(FALSE)
    BY <1>0, <1>3 DEF Live!NoNativeObjects, Live!Probe, Live!ResetStream
  <2>2. /\ probes + 1 \in Nat /\ empty + (probes + 1) = empty + probes + 1 /\ probes + 1 <= MaxProbe
        /\ empty <= MaxEmpty /\ state' \in {"Faulted", "Priming"}
        /\ state' = "Priming" => empty < MaxEmpty /\ probes + 1 < MaxProbe
    BY <1>0, <2>1
  <2> QED BY <1>0, <2>1, <2>2, LiveProbe
<1>4. ASSUME NEW f \in Live!Frames, Live!Accept({f}) PROVE LiveInv'
  <2>1. /\ errors' = 0 /\ empty' = 0 /\ probes' = 0 /\ poor' = 0 /\ crashed' = FALSE
        /\ stable' = (IF stable = RequiredStable THEN stable ELSE stable + 1)
        /\ streak' = (IF streak = RequiredStable THEN streak ELSE streak + 1)
        /\ state' \in {"Priming", "Running"}
        /\ out' # {} => stable + 1 >= RequiredStable /\ state' = "Running"
    BY <1>0, <1>4 DEF Live!Accept
  <2>2. stable' \in 0 .. RequiredStable /\ streak' = stable' /\ (out' # {} => stable' = RequiredStable)
    BY <1>0, <2>1
  <2> QED BY <2>1, <2>2, LiveFresh
<1>5. CASE Live!MarkDiscontinuity
  <2>1. /\ poor' = 0 /\ empty' = 0 /\ probes' = 0 /\ errors' = errors /\ state' = "Muted"
        /\ crashed' \in BOOLEAN /\ stable' = 0 /\ streak' = 0 /\ out' = {}
    BY <1>0, <1>5 DEF Live!MarkDiscontinuity, Live!Silent, Live!ResetStream
  <2> QED BY <1>0, <2>1, LiveFresh
<1>6. CASE Live!Recover
  <2>1. /\ poor' = 0 /\ empty' = 0 /\ probes' = 0 /\ errors' \in {0, errors}
        /\ state' \in {"Searching", "Faulted"}
        /\ crashed' \in BOOLEAN /\ stable' = 0 /\ streak' = 0 /\ out' = {}
    BY <1>6 DEF Live!Recover, Live!Silent
  <2> QED BY <1>0, <2>1, LiveFresh
<1> QED BY <1>1, <1>2, <1>3, <1>4, <1>5, <1>6 DEF Live!Next

LEMMA LiveKept == LiveInv /\ UNCHANGED liveVars => LiveInv'
BY DEF liveVars, LiveInv, Live!TypeOK, Live!PoorStreamFaults, ErrorsSpent, PerError

\* Sources and live decode: only the active session of the current generation plays, speakers
\* hear a decoder only after a stable acquisition, and a stream without good packets is
\* given up within what its three budgets allow.
THEOREM SessionsSafety == MCSpec => []SessionsSound
<1>1. ManagerInv /\ LiveInv /\ [MCNext]_mcVars => ManagerInv' /\ LiveInv'
  BY ManagerStays, LiveStep, LiveKept DEF MCNext, mcVars, RegistryMoves, ManagerMoves, LiveMoves,
     SetupMoves, DaemonMoves, DeviceMoves, LogMoves, MetricMoves
<1>2. ManagerInv /\ LiveInv => SessionsSound
  BY ControlPlaneAssumption
     DEF ManagerInv, LiveInv, SessionsSound, Live!AudibleOnlyStable, Live!TypeOK
<1> QED BY <1>1, <1>2, ManagerInit, LiveInit, PTL DEF MCSpec

-----------------------------------------------------------------------------
(* The AuroraOS daemon.                                                    *)

PlanStages == {"plan", "plan write", "plan rename"}
HealthStages == {"health", "health write", "health rename"}
PollStages == {"sleep", "modules", "remove"} \union PlanStages \union HealthStages

\* What is published is one of these, and a file that is being written is half of it.
Refusals == [state : {"absent", "waiting-intent", "fail-closed", "daemon-error"}]
Published == Refusals \union [state : {"ready"}, targets : SUBSET Modules]
Files == Published \union {Daemon!HalfWritten}

SeenDocuments == UNION {[seen -> Daemon!ModuleDocuments] : seen \in SUBSET Modules}

DaemonTypeOK ==
  /\ inventory \in [Modules -> Daemon!ModuleDocuments]
  /\ intent \in [state : {"absent", "torn", "complete"}, targets : SUBSET Modules]
  /\ daemon \in [pc : PollStages, unread : SUBSET Modules, seen : SeenDocuments, publish : Published,
                 failing : SUBSET Modules, io : BOOLEAN, done : BOOLEAN]
  /\ published \in [plan : Published, planTmp : Files, health : Published, healthTmp : Files]

\* The plan on disk is what the poll has to publish.
PlanAgrees ==
  published.plan = IF daemon.publish.state = "ready" THEN daemon.publish ELSE Daemon!NoDocument

\* What a poll has made of the files at each of its stages.
DaemonInv ==
  /\ DaemonTypeOK
  /\ daemon.pc \in PlanStages => daemon.publish.state = "ready"
  /\ daemon.pc = "remove" => daemon.publish.state \in {"waiting-intent", "fail-closed"}
  /\ daemon.pc = "plan rename" => published.planTmp = daemon.publish
  /\ daemon.pc = "health rename" => published.healthTmp = daemon.publish
  /\ daemon.pc \in HealthStages /\ ~daemon.io /\ daemon.publish.state # "daemon-error" => PlanAgrees
  /\ Daemon!HealthOfPlan

LEMMA NothingPublished == Daemon!NoDocument \in Published /\ Daemon!Sleeping.seen \in SeenDocuments
<1>1. [m \in {} |-> Daemon!Absent] \in [{} -> Daemon!ModuleDocuments]
  OBVIOUS
<1> QED BY <1>1 DEF Daemon!NoDocument, Daemon!Absent, Published, Refusals, Daemon!Sleeping, SeenDocuments

LEMMA DaemonInit == MCInit => DaemonInv
<1> SUFFICES ASSUME MCInit PROVE DaemonInv
  OBVIOUS
<1>1. /\ inventory = [m \in Modules |-> Daemon!Absent]
      /\ intent = [state |-> Daemon!Absent, targets |-> {}]
      /\ published = [plan |-> Daemon!NoDocument, planTmp |-> Daemon!NoDocument,
                      health |-> Daemon!NoDocument, healthTmp |-> Daemon!NoDocument]
      /\ daemon = Daemon!Sleeping
  BY DEF MCInit, Daemon!Init
<1>2. DaemonTypeOK
  BY <1>1, NothingPublished DEF DaemonTypeOK, Daemon!Sleeping, Daemon!ModuleDocuments, Daemon!Absent, PollStages,
     Files
<1> QED BY <1>1, <1>2 DEF DaemonInv, Daemon!HealthOfPlan, Daemon!Sleeping, PlanStages, HealthStages

\* A poll that goes on: it is not asleep, and what it has read is of its kind.
LEMMA DaemonMove ==
  ASSUME DaemonInv,
         daemon' \in [pc : PollStages, unread : SUBSET Modules, seen : SeenDocuments, publish : Published,
                      failing : SUBSET Modules, io : BOOLEAN, done : BOOLEAN],
         UNCHANGED <<inventory, intent, published>>,
         daemon'.pc # "sleep" \/ daemon'.io \/ ~daemon'.done,
         daemon'.pc \in PlanStages => daemon'.pc = "plan" /\ daemon'.publish.state = "ready",
         daemon'.pc = "remove" => daemon'.publish.state \in {"waiting-intent", "fail-closed"},
         daemon'.pc \in HealthStages => daemon'.pc = "health" /\ daemon'.publish.state = "daemon-error"
  PROVE  DaemonInv'
<1>1. DaemonTypeOK'
  BY DEF DaemonInv, DaemonTypeOK
<1> QED BY <1>1 DEF DaemonInv, Daemon!HealthOfPlan, PlanStages, HealthStages

LEMMA ErrorPublished ==
  ASSUME DaemonInv, NEW io \in BOOLEAN, Daemon!DaemonError(io), UNCHANGED <<inventory, intent, published>>
  PROVE  DaemonInv'
<1>1. daemon' \in [pc : PollStages, unread : SUBSET Modules, seen : SeenDocuments, publish : Published,
                   failing : SUBSET Modules, io : BOOLEAN, done : BOOLEAN]
  BY DEF DaemonInv, DaemonTypeOK, Daemon!DaemonError, PollStages, HealthStages, Published, Refusals
<1>2. daemon'.pc = "health" /\ daemon'.publish.state = "daemon-error"
  BY DEF DaemonInv, DaemonTypeOK, Daemon!DaemonError
<1> QED BY <1>1, <1>2, DaemonMove DEF PlanStages

LEMMA DaemonStep == DaemonInv /\ Daemon!Next => DaemonInv'
<1> SUFFICES ASSUME DaemonInv, Daemon!Next PROVE DaemonInv'
  OBVIOUS
<1> DEFINE Polls == [pc : PollStages, unread : SUBSET Modules, seen : SeenDocuments, publish : Published,
                     failing : SUBSET Modules, io : BOOLEAN, done : BOOLEAN]
           Disks == [plan : Published, planTmp : Files, health : Published, healthTmp : Files]
<1>0. /\ inventory \in [Modules -> Daemon!ModuleDocuments]
      /\ intent \in [state : {"absent", "torn", "complete"}, targets : SUBSET Modules]
      /\ daemon \in Polls /\ published \in Disks
  BY DEF DaemonInv, DaemonTypeOK
<1>1. ASSUME NEW m \in Modules, Daemon!ModuleReports(m) PROVE DaemonInv'
  <2>1. PICK failing \in SUBSET Modules : daemon' = [daemon EXCEPT !.failing = failing]
    <3>1. daemon' = [daemon EXCEPT !.failing = IF inventory'[m] = "inadmissible" THEN daemon.failing
                                               ELSE daemon.failing \ {m}]
      BY <1>1 DEF Daemon!ModuleReports
    <3>2. daemon.failing \in SUBSET Modules
      BY <1>0
    <3> QED BY <3>1, <3>2
  <2>2. UNCHANGED <<intent, published>> /\ inventory' \in [Modules -> Daemon!ModuleDocuments]
    BY <1>0, <1>1 DEF Daemon!ModuleReports
  <2>3. /\ daemon' \in Polls /\ daemon'.pc = daemon.pc /\ daemon'.publish = daemon.publish
        /\ daemon'.io = daemon.io /\ daemon'.done = daemon.done
    BY <1>0, <2>1
  <2>4. DaemonTypeOK'
    BY <1>0, <2>2, <2>3 DEF DaemonTypeOK
  <2> QED BY <2>2, <2>3, <2>4 DEF DaemonInv, PlanAgrees, Daemon!HealthOfPlan
<1>2. CASE Daemon!IntentChanges
  <2>1. /\ UNCHANGED <<inventory, published, daemon>>
        /\ intent' \in [state : {"absent", "torn", "complete"}, targets : SUBSET Modules]
    BY <1>2 DEF Daemon!IntentChanges, Daemon!Absent, Daemon!Torn
  <2> QED BY <2>1 DEF DaemonInv, DaemonTypeOK, PlanAgrees, Daemon!HealthOfPlan
<1>3. CASE Daemon!ListModules
  <2>1. /\ daemon' = [Daemon!Sleeping EXCEPT !.pc = "modules",
                        !.unread = {m \in Modules : inventory[m] # Daemon!Absent},
                        !.failing = {m \in Modules : inventory[m] = "inadmissible"}]
        /\ UNCHANGED <<inventory, intent, published>>
    BY <1>3 DEF Daemon!ListModules
  <2>2. daemon' \in Polls /\ daemon'.pc = "modules"
    BY <2>1, NothingPublished DEF Daemon!Sleeping, PollStages
  <2> QED BY <2>1, <2>2, DaemonMove DEF PlanStages, HealthStages
<1>4. ASSUME NEW m \in Modules, Daemon!ReadModule(m) PROVE DaemonInv'
  <2>1. /\ daemon.pc = "modules" /\ UNCHANGED <<inventory, intent, published>>
        /\ \/ Daemon!DaemonError(FALSE)
           \/ daemon' = [daemon EXCEPT !.unread = @ \ {m},
                           !.seen = [x \in DOMAIN @ \cup {m} |-> IF x = m THEN inventory[m] ELSE @[x]]]
    BY <1>4 DEF Daemon!ReadModule
  <2>2. [x \in DOMAIN daemon.seen \cup {m} |-> IF x = m THEN inventory[m] ELSE daemon.seen[x]]
          \in SeenDocuments
    <3>1. PICK S \in SUBSET Modules : daemon.seen \in [S -> Daemon!ModuleDocuments]
      BY <1>0 DEF SeenDocuments
    <3>2. [x \in DOMAIN daemon.seen \cup {m} |-> IF x = m THEN inventory[m] ELSE daemon.seen[x]]
            \in [S \cup {m} -> Daemon!ModuleDocuments]
      BY <1>0, <3>1
    <3> QED BY <3>2 DEF SeenDocuments
  <2>3. CASE Daemon!DaemonError(FALSE)
    BY <2>1, <2>3, ErrorPublished
  <2>4. CASE ~Daemon!DaemonError(FALSE)
    <3> DEFINE seen == [x \in DOMAIN daemon.seen \cup {m} |-> IF x = m THEN inventory[m] ELSE daemon.seen[x]]
    <3>1. seen \in SeenDocuments
      BY <2>2
    <3>2. daemon' = [daemon EXCEPT !.unread = daemon.unread \ {m}, !.seen = seen]
      BY <2>1, <2>4
    <3>3. daemon.unread \ {m} \in SUBSET Modules
      BY <1>0
    <3> HIDE DEF seen
    <3>4. daemon' \in Polls /\ daemon'.pc = "modules"
      BY <1>0, <2>1, <3>1, <3>2, <3>3
    <3> QED BY <2>1, <3>4, DaemonMove DEF PlanStages, HealthStages
  <2> QED BY <2>3, <2>4
<1>5. CASE Daemon!LoadIntent
  <2>1. /\ UNCHANGED <<inventory, intent, published>> /\ daemon.pc = "modules"
        /\ \/ Daemon!DaemonError(FALSE)
           \/ daemon' = [daemon EXCEPT !.pc = "remove", !.publish = [state |-> "waiting-intent"]]
           \/ daemon' = [daemon EXCEPT !.pc = "plan",
                           !.publish = [state |-> "ready", targets |-> intent.targets]]
           \/ daemon' = [daemon EXCEPT !.pc = "remove", !.publish = [state |-> "fail-closed"]]
    BY <1>5 DEF Daemon!LoadIntent
  <2>2. CASE Daemon!DaemonError(FALSE)
    BY <2>1, <2>2, ErrorPublished
  <2>3. ASSUME NEW refusal \in {"waiting-intent", "fail-closed"},
               daemon' = [daemon EXCEPT !.pc = "remove", !.publish = [state |-> refusal]]
        PROVE  DaemonInv'
    <3>1. /\ daemon' \in Polls /\ daemon'.pc = "remove"
          /\ daemon'.publish.state \in {"waiting-intent", "fail-closed"}
      BY <1>0, <2>3 DEF PollStages, Published, Refusals
    <3> QED BY <2>1, <3>1, DaemonMove DEF PlanStages, HealthStages
  <2>4. CASE daemon' = [daemon EXCEPT !.pc = "plan",
                          !.publish = [state |-> "ready", targets |-> intent.targets]]
    <3>1. daemon' \in Polls /\ daemon'.pc = "plan" /\ daemon'.publish.state = "ready"
      BY <1>0, <2>4 DEF PollStages, PlanStages, Published
    <3> QED BY <2>1, <3>1, DaemonMove DEF HealthStages
  <2> QED BY <2>1, <2>2, <2>3, <2>4
<1>6. CASE Daemon!RemovePlan
  <2>1. /\ daemon.publish.state \in {"waiting-intent", "fail-closed"} /\ UNCHANGED <<inventory, intent>>
        /\ \/ /\ published' = [published EXCEPT !.plan = Daemon!NoDocument]
              /\ daemon' = [daemon EXCEPT !.pc = "health"]
           \/ published' = published /\ daemon' = [daemon EXCEPT !.pc = "health", !.io = TRUE]
    BY <1>6 DEF Daemon!RemovePlan, DaemonInv
  <2>2. /\ daemon' \in Polls /\ published' \in Disks /\ daemon'.pc = "health"
        /\ daemon'.publish = daemon.publish
        /\ ~daemon'.io => published'.plan = Daemon!NoDocument
    BY <1>0, <2>1, NothingPublished DEF PollStages, HealthStages
  <2>3. DaemonTypeOK'
    BY <1>0, <2>1, <2>2 DEF DaemonTypeOK
  <2> QED BY <2>1, <2>2, <2>3 DEF DaemonInv, PlanAgrees, Daemon!HealthOfPlan, PlanStages
<1>7. CASE Daemon!PublishPlan
  <2>1. /\ daemon.pc \in PlanStages /\ daemon.publish.state = "ready" /\ UNCHANGED <<inventory, intent>>
    BY <1>7 DEF Daemon!PublishPlan, DaemonInv, PlanStages
  <2>2. CASE Daemon!DaemonError(TRUE) /\ published' = published
    BY <2>1, <2>2, ErrorPublished
  <2>3. CASE daemon.pc = "plan" /\ Daemon!CreateTmp("planTmp", "plan") /\ Daemon!Goto("plan write")
    <3>1. /\ daemon' \in Polls /\ published' \in Disks /\ daemon'.pc = "plan write"
          /\ daemon'.publish = daemon.publish
      BY <1>0, <2>3 DEF Daemon!CreateTmp, Daemon!Goto, PollStages, PlanStages, Files
    <3>2. DaemonTypeOK'
      BY <1>0, <2>1, <3>1 DEF DaemonTypeOK
    <3> QED BY <2>1, <3>1, <3>2 DEF DaemonInv, Daemon!HealthOfPlan, HealthStages
  <2>4. CASE /\ daemon.pc = "plan write" /\ Daemon!WriteTmp("planTmp", daemon.publish)
             /\ Daemon!Goto("plan rename")
    <3>1. /\ daemon' \in Polls /\ published' \in Disks /\ daemon'.pc = "plan rename"
          /\ daemon'.publish = daemon.publish /\ published'.planTmp = daemon.publish
      BY <1>0, <2>4 DEF Daemon!WriteTmp, Daemon!Goto, PollStages, PlanStages, Files
    <3>2. DaemonTypeOK'
      BY <1>0, <2>1, <3>1 DEF DaemonTypeOK
    <3> QED BY <2>1, <3>1, <3>2 DEF DaemonInv, Daemon!HealthOfPlan, HealthStages
  <2>5. CASE daemon.pc = "plan rename" /\ Daemon!Rename("planTmp", "plan") /\ Daemon!Goto("health")
    <3>1. published.planTmp = daemon.publish
      BY <2>5 DEF DaemonInv
    <3>2. /\ daemon' \in Polls /\ published' \in Disks /\ daemon'.pc = "health"
          /\ daemon'.publish = daemon.publish /\ published'.plan = daemon.publish
      BY <1>0, <2>5, <3>1, NothingPublished DEF Daemon!Rename, Daemon!Goto, PollStages, HealthStages, Files
    <3>3. DaemonTypeOK'
      BY <1>0, <2>1, <3>2 DEF DaemonTypeOK
    <3> QED BY <2>1, <3>2, <3>3 DEF DaemonInv, PlanAgrees, Daemon!HealthOfPlan, PlanStages
  <2> QED BY <1>7, <2>2, <2>3, <2>4, <2>5 DEF Daemon!PublishPlan
<1>8. CASE Daemon!PublishHealth
  <2>1. /\ daemon.pc \in HealthStages /\ UNCHANGED <<inventory, intent>>
        /\ ~daemon.io /\ daemon.publish.state # "daemon-error" => PlanAgrees
    BY <1>8 DEF Daemon!PublishHealth, DaemonInv, HealthStages
  <2>2. CASE daemon.pc = "health" /\ Daemon!CreateTmp("healthTmp", "health") /\ Daemon!Goto("health write")
    <3>1. /\ daemon' \in Polls /\ published' \in Disks /\ daemon'.pc = "health write"
          /\ daemon'.publish = daemon.publish /\ daemon'.io = daemon.io /\ published'.plan = published.plan
      BY <1>0, <2>2 DEF Daemon!CreateTmp, Daemon!Goto, PollStages, HealthStages, Files
    <3>2. DaemonTypeOK'
      BY <1>0, <2>1, <3>1 DEF DaemonTypeOK
    <3> QED BY <2>1, <3>1, <3>2 DEF DaemonInv, PlanAgrees, Daemon!HealthOfPlan, PlanStages
  <2>3. CASE /\ daemon.pc = "health write" /\ Daemon!WriteTmp("healthTmp", daemon.publish)
             /\ Daemon!Goto("health rename")
    <3>1. /\ daemon' \in Polls /\ published' \in Disks /\ daemon'.pc = "health rename"
          /\ daemon'.publish = daemon.publish /\ daemon'.io = daemon.io /\ published'.plan = published.plan
          /\ published'.healthTmp = daemon.publish
      BY <1>0, <2>3 DEF Daemon!WriteTmp, Daemon!Goto, PollStages, HealthStages, Files
    <3>2. DaemonTypeOK'
      BY <1>0, <2>1, <3>1 DEF DaemonTypeOK
    <3> QED BY <2>1, <3>1, <3>2 DEF DaemonInv, PlanAgrees, Daemon!HealthOfPlan, PlanStages
  <2>4. CASE /\ daemon.pc = "health rename" /\ Daemon!Rename("healthTmp", "health")
             /\ daemon' = [daemon EXCEPT !.pc = "sleep", !.done = TRUE]
    <3>1. published.healthTmp = daemon.publish
      BY <2>4 DEF DaemonInv
    <3>2. /\ daemon' \in Polls /\ published' \in Disks /\ daemon'.pc = "sleep"
          /\ daemon'.publish = daemon.publish /\ daemon'.io = daemon.io /\ published'.plan = published.plan
          /\ published'.health = daemon.publish
      BY <1>0, <2>4, <3>1, NothingPublished DEF Daemon!Rename, PollStages, Files
    <3>3. DaemonTypeOK'
      BY <1>0, <2>1, <3>2 DEF DaemonTypeOK
    <3> QED BY <2>1, <3>2, <3>3 DEF DaemonInv, PlanAgrees, Daemon!HealthOfPlan, PlanStages, HealthStages
  <2>5. CASE daemon' = [daemon EXCEPT !.pc = "sleep", !.io = TRUE] /\ published' = published
    <3>1. daemon' \in Polls /\ daemon'.pc = "sleep" /\ daemon'.io
      BY <1>0, <2>5 DEF PollStages
    <3> QED BY <2>1, <2>5, <3>1, DaemonMove DEF PlanStages, HealthStages
  <2> QED BY <1>8, <2>2, <2>3, <2>4, <2>5 DEF Daemon!PublishHealth
<1>9. CASE Daemon!Crash
  <2>1. daemon' = Daemon!Sleeping /\ UNCHANGED <<inventory, intent, published>>
    BY <1>9 DEF Daemon!Crash
  <2>2. daemon' \in Polls /\ daemon'.pc = "sleep" /\ ~daemon'.done
    BY <2>1, NothingPublished DEF Daemon!Sleeping, PollStages
  <2> QED BY <2>1, <2>2, DaemonMove DEF PlanStages, HealthStages
<1> QED BY <1>1, <1>2, <1>3, <1>4, <1>5, <1>6, <1>7, <1>8, <1>9 DEF Daemon!Next

LEMMA DaemonKept == DaemonInv /\ UNCHANGED daemonVars => DaemonInv'
<1> SUFFICES ASSUME DaemonInv, UNCHANGED daemonVars PROVE DaemonInv'
  OBVIOUS
<1>1. UNCHANGED <<inventory, intent, published, daemon>>
  BY DEF daemonVars
<1>2. DaemonTypeOK'
  BY <1>1 DEF DaemonInv, DaemonTypeOK
<1>3. PlanAgrees' = PlanAgrees /\ Daemon!HealthOfPlan'
  BY <1>1 DEF DaemonInv, PlanAgrees, Daemon!HealthOfPlan
<1> QED BY <1>1, <1>2, <1>3 DEF DaemonInv

\* reconcile_once: whoever opens the plan or the health file reads a complete document
\* wherever the daemon was killed, and after a poll without an error they agree.
THEOREM DaemonSafety == MCSpec => []DaemonSound
<1>1. DaemonInv /\ [MCNext]_mcVars => DaemonInv'
  BY DaemonStep, DaemonKept DEF MCNext, mcVars, RegistryMoves, ManagerMoves, LiveMoves, SetupMoves,
     DaemonMoves, DeviceMoves, LogMoves, MetricMoves
<1>2. DaemonInv => DaemonSound
  BY DEF DaemonInv, DaemonTypeOK, DaemonSound, Daemon!PublishedWhole, Daemon!Torn, Published, Refusals
<1> QED BY <1>1, <1>2, DaemonInit, PTL DEF MCSpec

-----------------------------------------------------------------------------
(* Device selection.                                                       *)

HostTypeOK ==
  /\ driver \in {"cpal", "sim"} /\ request \in Requests /\ selector \in Plugged!Selectors
  /\ driver = "cpal" => host \in Seq(Devices)
  /\ driver = "sim" => host \in Profiles

Streams == [device : Plugged!AllDevices, format : {request}, running : BOOLEAN,
            fault : {"none", "DeviceLost", "Callback"}]

\* The device of a stream is what the request and the selector ask for.
Suits(device) ==
  /\ device.direction = request.direction
  /\ selector.kind = "stable" => Plugged!Identity(device) = selector.identity
  /\ Plugged!Supports(device, request)

DeviceInv ==
  /\ HostTypeOK
  /\ stream # Plugged!NoStream => stream \in Streams /\ Suits(stream.device)

LEMMA HostDevices ==
  ASSUME HostTypeOK
  PROVE  host \in Seq(Plugged!AllDevices)
<1>1. CASE driver = "cpal"
  <2>1. host \in Seq(Devices) /\ Devices \subseteq Plugged!AllDevices
    BY <1>1 DEF HostTypeOK, Plugged!AllDevices
  <2> QED BY <2>1, SeqMonotonic
<1>2. CASE driver = "sim"
  BY <1>2, ControlPlaneAssumption DEF HostTypeOK
<1> QED BY <1>1, <1>2 DEF HostTypeOK

\* Whatever the passes find has the direction asked for, and the identity of a stable
\* selector.
LEMMA ResolveSuits ==
  ASSUME NEW i \in Plugged!Resolve
  PROVE  /\ i \in DOMAIN host /\ host[i].direction = request.direction
         /\ selector.kind = "stable" => Plugged!Identity(host[i]) = selector.identity
<1>1. i \in Plugged!FirstPass
  BY DEF Plugged!Resolve
<1>2. /\ Plugged!ByIndex \subseteq Plugged!Candidates /\ Plugged!ByIdentity \subseteq Plugged!Candidates
      /\ Plugged!ByName \subseteq Plugged!Candidates /\ Plugged!ByPart \subseteq Plugged!Candidates
  BY DEF Plugged!ByIndex, Plugged!ByIdentity, Plugged!ByName, Plugged!ByPart
<1>3. i \in Plugged!Candidates
  BY <1>1, <1>2 DEF Plugged!FirstPass
<1>4. ASSUME selector.kind = "stable" PROVE Plugged!Identity(host[i]) = selector.identity
  <2>1. Plugged!ByIndex = {} /\ Plugged!ByName = {} /\ Plugged!ByPart = {}
    BY <1>4 DEF Plugged!ByIndex, Plugged!ByName, Plugged!ByPart, Plugged!IsText
  <2>2. i \in Plugged!ByIdentity
    BY <1>1, <2>1 DEF Plugged!FirstPass
  <2> QED BY <2>2 DEF Plugged!ByIdentity
<1> QED BY <1>3, <1>4 DEF Plugged!Candidates

\* The simulation looks an id up among all its devices, and ids are distinct.
LEMMA SelectedSuits ==
  ASSUME HostTypeOK, NEW i \in Plugged!Selected
  PROVE  /\ i \in DOMAIN host /\ host[i].direction = request.direction
         /\ selector.kind = "stable" => Plugged!Identity(host[i]) = selector.identity
<1>1. CASE selector.kind = "default"
  <2>1. i \in Plugged!Candidates
    BY <1>1 DEF Plugged!Selected, HostTypeOK
  <2> QED BY <1>1, <2>1 DEF Plugged!Candidates
<1>2. CASE selector.kind # "default" /\ driver = "cpal"
  <2>1. i \in Plugged!Resolve
    BY <1>2 DEF Plugged!Selected
  <2> QED BY <2>1, ResolveSuits
<1>3. CASE selector.kind # "default" /\ driver = "sim"
  <2>1. /\ i \in DOMAIN host
        /\ \E r \in Plugged!Resolve : host[i].id = host[r].id
    BY <1>3 DEF Plugged!Selected
  <2>2. PICK r \in Plugged!Resolve : host[i].id = host[r].id
    BY <2>1
  <2>3. /\ r \in DOMAIN host /\ host[r].direction = request.direction
        /\ selector.kind = "stable" => Plugged!Identity(host[r]) = selector.identity
    BY ResolveSuits
  <2>4. i = r
    BY <1>3, <2>1, <2>2, <2>3, ControlPlaneAssumption DEF HostTypeOK
  <2> QED BY <2>3, <2>4
<1> QED BY <1>1, <1>2, <1>3 DEF HostTypeOK

LEMMA DeviceInit == MCInit => DeviceInv
<1> SUFFICES ASSUME MCInit PROVE DeviceInv
  OBVIOUS
<1>1. /\ \/ driver = "cpal" /\ host \in {<<d>> : d \in Devices} \union {<<d, e>> : d, e \in Devices}
         \/ driver = "sim" /\ host \in Profiles
      /\ request \in Requests /\ selector \in Plugged!Selectors /\ stream = Plugged!NoStream
  BY DEF MCInit, Plugged!Init
<1>2. ASSUME driver = "cpal" PROVE host \in Seq(Devices)
  <2>1. (\E d \in Devices : host = <<d>>) \/ (\E d, e \in Devices : host = <<d, e>>)
    BY <1>1, <1>2
  <2>2. \A d, e \in Devices : <<d>> \in Seq(Devices) /\ <<d, e>> \in Seq(Devices)
    OBVIOUS
  <2> QED BY <2>1, <2>2
<1> QED BY <1>1, <1>2 DEF DeviceInv, HostTypeOK

LEMMA DeviceStep == DeviceInv /\ Plugged!Next => DeviceInv'
<1> SUFFICES ASSUME DeviceInv, Plugged!Next PROVE DeviceInv'
  OBVIOUS
<1>0. /\ HostTypeOK /\ host \in Seq(Plugged!AllDevices)
      /\ \/ stream = Plugged!NoStream
         \/ stream \in Streams /\ Suits(stream.device)
  BY HostDevices DEF DeviceInv
<1>1. ASSUME UNCHANGED <<driver, request, selector>>, HostTypeOK',
             \/ stream' = Plugged!NoStream
             \/ stream' \in Streams /\ Suits(stream'.device)
      PROVE  DeviceInv'
  <2>1. Streams' = Streams
    BY <1>1 DEF Streams, Plugged!AllDevices
  <2>2. Suits(stream'.device) => Suits(stream.device)'
    BY <1>1 DEF Suits, Plugged!Identity, Plugged!Supports
  <2> QED BY <1>1, <2>1, <2>2 DEF DeviceInv
<1>2. UNCHANGED <<driver, host, request, selector>> => HostTypeOK'
  BY <1>0 DEF HostTypeOK
<1>3. CASE Plugged!Open
  <2>1. /\ UNCHANGED <<driver, host, request, selector>>
        /\ stream' = Plugged!NoStream \/ \E i \in Plugged!Selected :
              Plugged!Supports(host[i], request) /\ stream' = Plugged!Stream(host[i])
    BY <1>3 DEF Plugged!Open
  <2>2. ASSUME NEW i \in Plugged!Selected, Plugged!Supports(host[i], request),
               stream' = Plugged!Stream(host[i])
        PROVE  stream' \in Streams /\ Suits(stream'.device)
    <3>1. /\ i \in DOMAIN host /\ host[i].direction = request.direction
          /\ selector.kind = "stable" => Plugged!Identity(host[i]) = selector.identity
      BY <1>0, SelectedSuits
    <3>2. host[i] \in Plugged!AllDevices
      BY <1>0, <3>1
    <3>3. stream' = [device |-> host[i], format |-> request, running |-> FALSE, fault |-> "none"]
      BY <2>2 DEF Plugged!Stream, Plugged!NoStream
    <3> QED BY <2>2, <3>1, <3>2, <3>3 DEF Streams, Suits
  <2> QED BY <1>1, <1>2, <2>1, <2>2
<1>4. ASSUME UNCHANGED <<driver, request, selector>>, HostTypeOK',
             NEW running \in BOOLEAN, NEW fault \in {"none", "DeviceLost", "Callback"},
             stream \in Streams, stream' = [stream EXCEPT !.running = running, !.fault = fault]
      PROVE  DeviceInv'
  <2>1. stream # Plugged!NoStream
    BY <1>4, ControlPlaneAssumption DEF Streams, Plugged!NoStream
  <2>2. stream' \in Streams /\ stream'.device = stream.device
    BY <1>4 DEF Streams
  <2> QED BY <1>0, <1>1, <1>4, <2>1, <2>2
<1>5. CASE Plugged!Start \/ Plugged!Stop \/ \E fault \in {"DeviceLost", "Callback"} : Plugged!StreamError(fault)
  <2>1. /\ UNCHANGED <<driver, host, request, selector>> /\ stream # Plugged!NoStream
        /\ \/ stream' = [stream EXCEPT !.running = TRUE]
           \/ stream' = [stream EXCEPT !.running = FALSE]
           \/ \E fault \in {"DeviceLost", "Callback"} : stream' = [stream EXCEPT !.fault = fault]
    BY <1>5 DEF Plugged!Start, Plugged!Stop, Plugged!StreamError, Plugged!NoStream
  <2>2. stream \in Streams /\ Streams = Streams
    BY <1>0, <2>1
  <2>3. PICK running \in BOOLEAN, fault \in {"none", "DeviceLost", "Callback"} :
          stream' = [stream EXCEPT !.running = running, !.fault = fault]
    <3>1. /\ stream = [stream EXCEPT !.running = stream.running, !.fault = stream.fault]
          /\ stream.running \in BOOLEAN /\ stream.fault \in {"none", "DeviceLost", "Callback"}
          /\ [stream EXCEPT !.running = TRUE] = [stream EXCEPT !.running = TRUE, !.fault = stream.fault]
          /\ [stream EXCEPT !.running = FALSE] = [stream EXCEPT !.running = FALSE, !.fault = stream.fault]
          /\ \A fault : [stream EXCEPT !.fault = fault]
                         = [stream EXCEPT !.running = stream.running, !.fault = fault]
      BY <2>2 DEF Streams
    <3> QED BY <2>1, <3>1
  <2> QED BY <1>2, <1>4, <2>1, <2>2, <2>3
<1>6. ASSUME NEW device \in Devices, NEW i \in 1 .. Len(host) + 1, Plugged!Plug(device, i)
      PROVE  DeviceInv'
  <2>1. /\ driver = "cpal" /\ UNCHANGED <<driver, request, selector, stream>>
        /\ host' = SubSeq(host, 1, i - 1) \o <<device>> \o SubSeq(host, i, Len(host))
        /\ host \in Seq(Devices)
    BY <1>0, <1>6 DEF Plugged!Plug, Plugged!InsertAt, HostTypeOK
  <2>2. /\ Len(host) \in Nat /\ i \in Int /\ \A n \in 1 .. Len(host) : host[n] \in Devices
    BY <2>1, ElementOfSeq, LenProperties
  <2>3. SubSeq(host, 1, i - 1) \in Seq(Devices) /\ SubSeq(host, i, Len(host)) \in Seq(Devices)
    BY <2>2, SubSeqProperties
  <2>4. <<device>> \in Seq(Devices)
    OBVIOUS
  <2>5. host' \in Seq(Devices)
    BY <2>1, <2>3, <2>4, ConcatProperties
  <2>6. HostTypeOK'
    BY <1>0, <2>1, <2>5 DEF HostTypeOK
  <2> QED BY <1>0, <1>1, <2>1, <2>6
<1>7. ASSUME NEW i \in DOMAIN host, Plugged!Unplug(i) PROVE DeviceInv'
  <2>1. /\ driver = "cpal" /\ UNCHANGED <<driver, request, selector>>
        /\ host' = SubSeq(host, 1, i - 1) \o SubSeq(host, i + 1, Len(host))
        /\ stream' = IF stream.device = host[i] THEN [stream EXCEPT !.fault = "DeviceLost"] ELSE stream
        /\ host \in Seq(Devices)
    BY <1>0, <1>7 DEF Plugged!Unplug, Plugged!RemoveAt, HostTypeOK
  <2>2. /\ Len(host) \in Nat /\ i \in 1 .. Len(host) /\ \A n \in 1 .. Len(host) : host[n] \in Devices
    BY <2>1, ElementOfSeq, LenProperties
  <2>3. SubSeq(host, 1, i - 1) \in Seq(Devices) /\ SubSeq(host, i + 1, Len(host)) \in Seq(Devices)
    BY <2>2, SubSeqProperties
  <2>4. host' \in Seq(Devices)
    BY <2>1, <2>3, ConcatProperties
  <2>5. HostTypeOK'
    BY <1>0, <2>1, <2>4 DEF HostTypeOK
  <2>6. CASE stream.device = host[i]
    <3>1. stream # Plugged!NoStream
      BY <2>2, <2>6, ControlPlaneAssumption DEF Plugged!NoStream, Plugged!AllDevices
    <3>2. stream \in Streams /\ stream' = [stream EXCEPT !.running = stream.running, !.fault = "DeviceLost"]
      BY <1>0, <2>1, <2>6, <3>1 DEF Streams
    <3>3. stream.running \in BOOLEAN
      BY <3>2 DEF Streams
    <3> QED BY <1>4, <2>1, <2>5, <3>2, <3>3
  <2>7. CASE stream.device # host[i]
    BY <1>0, <1>1, <2>1, <2>5, <2>7
  <2> QED BY <2>6, <2>7
<1> QED BY <1>3, <1>5, <1>6, <1>7 DEF Plugged!Next

LEMMA DeviceKept == DeviceInv /\ UNCHANGED deviceVars => DeviceInv'
BY DEF deviceVars, DeviceInv, HostTypeOK, Streams, Suits, Plugged!Identity, Plugged!Supports,
       Plugged!AllDevices

\* CpalAudioBackend and SimAudioBackend: whatever is plugged in or out between an open and the
\* reopen of a recovery, a session opened by a stable selector plays on a device of that
\* identity and direction, in a format the device supports, or on none.
THEOREM SelectionSafety == MCSpec => []StableSelectorKept
<1>1. DeviceInv /\ [MCNext]_mcVars => DeviceInv'
  BY DeviceStep, DeviceKept DEF MCNext, mcVars, RegistryMoves, ManagerMoves, LiveMoves, SetupMoves,
     DaemonMoves, DeviceMoves, LogMoves, MetricMoves
<1>2. DeviceInv => StableSelectorKept
  <2> SUFFICES ASSUME DeviceInv PROVE StableSelectorKept
    OBVIOUS
  <2>1. CASE stream = Plugged!NoStream
    <3>1. stream.device = None /\ stream.running = FALSE
      BY <2>1 DEF Plugged!NoStream
    <3> QED BY <2>1, <3>1 DEF DeviceInv, HostTypeOK, StableSelectorKept, Plugged!TypeOK,
               Plugged!StableSelectorKept, Plugged!FormatSupported
  <2>2. CASE stream # Plugged!NoStream
    <3>1. /\ HostTypeOK /\ Suits(stream.device) /\ stream.device \in Plugged!AllDevices
          /\ stream.format = request /\ stream.device # None
      BY <2>2, ControlPlaneAssumption DEF DeviceInv, Streams
    <3> QED BY <3>1 DEF HostTypeOK, Suits, StableSelectorKept, Plugged!TypeOK,
               Plugged!StableSelectorKept, Plugged!FormatSupported
  <2> QED BY <2>1, <2>2
<1> QED BY <1>1, <1>2, DeviceInit, PTL DEF MCSpec

-----------------------------------------------------------------------------
(* The diagnostic log.                                                     *)

Counts == {"dropped", "filtered", "oversized", "invalid"}

\* What the log holds is the end of what was admitted, and its counters the rest.
LogInv ==
  /\ Diagnosed!TypeOK /\ Diagnosed!NewestRetained
  /\ log \in [events : Seq(Events), minimum : Severities, dropped : Nat, filtered : Nat,
              oversized : Nat, invalid : Nat]
  /\ \A i \in DOMAIN admitted : Diagnosed!EventValid(admitted[i])
  /\ accepted # None => Diagnosed!TruthSourceEvidence(accepted.source, accepted.path)

LEMMA LogInit == MCInit => LogInv
<1> SUFFICES ASSUME MCInit PROVE LogInv
  OBVIOUS
<1>1. /\ shared \in BOOLEAN /\ poisoned = FALSE
      /\ \E minimum \in Severities : log = Diagnosed!EmptyLog(minimum)
      /\ admitted = <<>> /\ outcomes = [d \in Diagnosed!Dispositions |-> 0] /\ accepted = None
  BY DEF MCInit, Diagnosed!Init, Diagnosed!LogInit
<1>2. /\ log.events = <<>> /\ log.minimum \in Severities /\ log.dropped = 0 /\ log.filtered = 0
      /\ log.oversized = 0 /\ log.invalid = 0
      /\ log \in [events : Seq(Events), minimum : Severities, dropped : Nat, filtered : Nat,
                  oversized : Nat, invalid : Nat]
  BY <1>1, EmptySeq DEF Diagnosed!EmptyLog
<1>3. Diagnosed!TypeOK
  BY <1>1, <1>2, EmptySeq DEF Diagnosed!TypeOK
<1>4. Diagnosed!NewestRetained
  BY <1>1, <1>2, ControlPlaneAssumption
     DEF Diagnosed!NewestRetained, Diagnosed!Saturated, Diagnosed!Dispositions
<1> QED BY <1>1, <1>2, <1>3, <1>4 DEF LogInv

LEMMA SaturatedNext ==
  ASSUME NEW n \in Nat
  PROVE  /\ Diagnosed!Saturated(n) \in Nat
         /\ Diagnosed!Saturating(Diagnosed!Saturated(n)) = Diagnosed!Saturated(n + 1)
BY ControlPlaneAssumption DEF Diagnosed!Saturated, Diagnosed!Saturating

\* An event at the end, and the oldest one gone when the log was full.
LEMMA LogRetains ==
  ASSUME LogInv, NEW event \in Events, NEW disposition \in {"Retained", "RetainedAfterEviction"},
         Diagnosed!EventValid(event),
         disposition = (IF Len(log.events) = Capacity THEN "RetainedAfterEviction" ELSE "Retained"),
         log' = Diagnosed!Retaining(event, disposition), admitted' = Append(admitted, event),
         outcomes' = [outcomes EXCEPT ![disposition] = @ + 1],
         UNCHANGED <<shared, poisoned, accepted>>
  PROVE  LogInv'
<1> DEFINE n == Len(admitted)
           k == Len(log.events)
<1>0. /\ admitted \in Seq(Events) /\ log.events \in Seq(Events) /\ n \in Nat /\ k \in Nat
      /\ k = IF n < Capacity THEN n ELSE Capacity
      /\ \A i \in 1 .. k : log.events[i] = admitted[n - k + i]
      /\ log.dropped = Diagnosed!Saturated(n - k)
      /\ Capacity \in Nat \ {0} /\ log.minimum \in Severities /\ outcomes \in [Diagnosed!Dispositions -> Nat]
  BY ControlPlaneAssumption, LenProperties DEF LogInv, Diagnosed!TypeOK, Diagnosed!NewestRetained
<1>sizes. n \in Nat /\ k \in Nat /\ k <= n /\ Capacity \in Nat
  BY <1>0
<1>1. /\ admitted' \in Seq(Events) /\ Len(admitted') = n + 1 /\ admitted'[n + 1] = event
      /\ \A i \in 1 .. n : admitted'[i] = admitted[i]
  BY <1>0, AppendProperties
<1>2. /\ outcomes' \in [Diagnosed!Dispositions -> Nat]
      /\ \A d \in {"Filtered", "RejectedOversized", "RejectedInvalid"} : outcomes'[d] = outcomes[d]
  BY <1>0 DEF Diagnosed!Dispositions
<1>3. /\ log' \in [events : Seq(Events), minimum : Severities, dropped : Nat, filtered : Nat,
                   oversized : Nat, invalid : Nat]
      /\ log'.minimum = log.minimum /\ log'.filtered = log.filtered
      /\ log'.oversized = log.oversized /\ log'.invalid = log.invalid
      /\ Len(log'.events) = IF n + 1 < Capacity THEN n + 1 ELSE Capacity
      /\ \A i \in 1 .. Len(log'.events) : log'.events[i] = admitted'[n + 1 - Len(log'.events) + i]
      /\ log'.dropped = Diagnosed!Saturated(n + 1 - Len(log'.events))
  <2>1. CASE k = Capacity
    <3>1. log' = [log EXCEPT !.events = Append(Tail(log.events), event),
                             !.dropped = Diagnosed!Saturating(log.dropped)]
      BY <2>1 DEF Diagnosed!Retaining
    <3>2. log.events # <<>>
      BY <1>0, <2>1
    <3>3. /\ Tail(log.events) \in Seq(Events) /\ Len(Tail(log.events)) = k - 1
          /\ \A i \in 1 .. k - 1 : Tail(log.events)[i] = log.events[i + 1]
      BY <1>0, <3>2, HeadTailProperties
    <3> DEFINE events == Append(Tail(log.events), event)
    <3>4. /\ events \in Seq(Events) /\ Len(events) = k /\ events[k] = event
          /\ \A i \in 1 .. k - 1 : events[i] = log.events[i + 1]
      BY <1>0, <3>3, AppendProperties
    <3>5. n - k \in Nat /\ n - k + 1 \in Nat
      BY <1>sizes
    <3>6. /\ Diagnosed!Saturating(log.dropped) = Diagnosed!Saturated(n - k + 1)
          /\ Diagnosed!Saturated(n - k + 1) \in Nat
      <4>1. log.dropped = Diagnosed!Saturated(n - k)
        BY <1>0
      <4>2. \A m \in Nat : /\ Diagnosed!Saturating(Diagnosed!Saturated(m)) = Diagnosed!Saturated(m + 1)
                           /\ Diagnosed!Saturated(m) \in Nat
        BY SaturatedNext
      <4> HIDE DEF n, k
      <4> QED BY <3>5, <4>1, <4>2
    <3> HIDE DEF events
    <3>7. /\ log'.events = events /\ log'.dropped = Diagnosed!Saturated(n - k + 1)
          /\ log' \in [events : Seq(Events), minimum : Severities, dropped : Nat, filtered : Nat,
                       oversized : Nat, invalid : Nat]
          /\ log'.minimum = log.minimum /\ log'.filtered = log.filtered
          /\ log'.oversized = log.oversized /\ log'.invalid = log.invalid
      BY <3>1, <3>4, <3>5, <3>6 DEF LogInv, events
    <3>8. \A i \in 1 .. k : events[i] = admitted'[n + 1 - k + i]
      <4> SUFFICES ASSUME NEW i \in 1 .. k PROVE events[i] = admitted'[n + 1 - k + i]
        OBVIOUS
      <4>1. CASE i = k
        BY <1>0, <1>1, <3>4, <4>1
      <4>2. CASE i # k
        <5>1. i \in 1 .. k - 1 /\ i + 1 \in 1 .. k /\ n - k + (i + 1) = n + 1 - k + i
              /\ n - k + (i + 1) \in 1 .. n
          BY <1>0, <3>5, <4>2
        <5>2. events[i] = log.events[i + 1] /\ log.events[i + 1] = admitted[n - k + (i + 1)]
          BY <1>0, <3>4, <5>1
        <5>3. admitted'[n + 1 - k + i] = admitted[n - k + (i + 1)]
          BY <1>1, <5>1
        <5> QED BY <5>2, <5>3
      <4> QED BY <4>1, <4>2
    <3>9. k = (IF n + 1 < Capacity THEN n + 1 ELSE Capacity) /\ n - k + 1 = n + 1 - k
      BY <1>0, <2>1
    <3>10. log'.dropped = Diagnosed!Saturated(n + 1 - k) /\ log'.events = events /\ Len(log'.events) = k
      BY <3>4, <3>7, <3>9
    <3>11. /\ Len(log'.events) = IF n + 1 < Capacity THEN n + 1 ELSE Capacity
           /\ \A i \in 1 .. Len(log'.events) : log'.events[i] = admitted'[n + 1 - Len(log'.events) + i]
           /\ log'.dropped = Diagnosed!Saturated(n + 1 - Len(log'.events))
      <4> HIDE DEF n, k
      <4> QED BY <3>8, <3>9, <3>10
    <3> QED BY <3>7, <3>11
  <2>2. CASE k # Capacity
    <3>1. log' = [log EXCEPT !.events = Append(log.events, event)] /\ k = n /\ n < Capacity
      BY <1>0, <2>2 DEF Diagnosed!Retaining
    <3> DEFINE events == Append(log.events, event)
    <3>2. /\ events \in Seq(Events) /\ Len(events) = n + 1 /\ events[n + 1] = event
          /\ \A i \in 1 .. n : events[i] = log.events[i]
      BY <1>0, <3>1, AppendProperties
    <3> HIDE DEF events
    <3>3. /\ log'.events = events /\ log'.dropped = log.dropped
          /\ log' \in [events : Seq(Events), minimum : Severities, dropped : Nat, filtered : Nat,
                       oversized : Nat, invalid : Nat]
          /\ log'.minimum = log.minimum /\ log'.filtered = log.filtered
          /\ log'.oversized = log.oversized /\ log'.invalid = log.invalid
      BY <3>1, <3>2 DEF LogInv, events
    <3>4. \A i \in 1 .. n + 1 : events[i] = admitted'[i]
      BY <1>0, <1>1, <3>1, <3>2
    <3>5. /\ n + 1 = (IF n + 1 < Capacity THEN n + 1 ELSE Capacity) /\ n - k = n + 1 - (n + 1)
          /\ \A i \in 1 .. n + 1 : n + 1 - (n + 1) + i = i
      BY <1>0, <3>1
    <3>6. /\ log'.dropped = Diagnosed!Saturated(n - k) /\ log'.events = events
          /\ Len(log'.events) = n + 1
      BY <1>0, <3>2, <3>3
    <3>7. /\ Len(log'.events) = IF n + 1 < Capacity THEN n + 1 ELSE Capacity
          /\ \A i \in 1 .. Len(log'.events) : log'.events[i] = admitted'[n + 1 - Len(log'.events) + i]
          /\ log'.dropped = Diagnosed!Saturated(n + 1 - Len(log'.events))
      <4>1. \A i \in 1 .. n + 1 : events[i] = admitted'[n + 1 - (n + 1) + i]
        BY <3>4, <3>5
      <4>2. \A i \in 1 .. Len(log'.events) : log'.events[i] = admitted'[n + 1 - Len(log'.events) + i]
        BY <3>6, <4>1
      <4>3. log'.dropped = Diagnosed!Saturated(n + 1 - Len(log'.events))
        BY <3>5, <3>6
      <4> QED BY <3>5, <3>6, <4>2, <4>3
    <3> QED BY <3>3, <3>7
  <2> QED BY <2>1, <2>2
<1>4. Diagnosed!TypeOK'
  BY <1>1, <1>2, <1>3 DEF LogInv, Diagnosed!TypeOK
<1>5. Diagnosed!NewestRetained'
  <2>1. /\ log.filtered = Diagnosed!Saturated(outcomes["Filtered"])
        /\ log.oversized = Diagnosed!Saturated(outcomes["RejectedOversized"])
        /\ log.invalid = Diagnosed!Saturated(outcomes["RejectedInvalid"])
    BY DEF LogInv, Diagnosed!NewestRetained
  <2>2. /\ log'.filtered = Diagnosed!Saturated(outcomes'["Filtered"])
        /\ log'.oversized = Diagnosed!Saturated(outcomes'["RejectedOversized"])
        /\ log'.invalid = Diagnosed!Saturated(outcomes'["RejectedInvalid"])
    BY <1>2, <1>3, <2>1
  <2>3. /\ Len(log'.events) = IF Len(admitted') < Capacity THEN Len(admitted') ELSE Capacity
        /\ \A i \in 1 .. Len(log'.events) :
             log'.events[i] = admitted'[Len(admitted') - Len(log'.events) + i]
        /\ log'.dropped = Diagnosed!Saturated(Len(admitted') - Len(log'.events))
    <3>1. Len(admitted') = n + 1
      BY <1>1
    <3>2. Len(log'.events) = IF n + 1 < Capacity THEN n + 1 ELSE Capacity
      BY <1>3
    <3>3. \A i \in 1 .. Len(log'.events) : log'.events[i] = admitted'[n + 1 - Len(log'.events) + i]
      BY <1>3
    <3>4. log'.dropped = Diagnosed!Saturated(n + 1 - Len(log'.events))
      BY <1>3
    <3>5. n \in Nat /\ Len(log'.events) \in Nat
      BY <1>sizes, <3>2
    <3>6. Len(admitted') - Len(log'.events) = n + 1 - Len(log'.events)
      BY <3>1, <3>5
    <3> HIDE DEF n, k
    <3>7. \A i \in 1 .. Len(log'.events) :
            log'.events[i] = admitted'[Len(admitted') - Len(log'.events) + i]
      <4> TAKE i \in 1 .. Len(log'.events)
      <4>1. log'.events[i] = admitted'[n + 1 - Len(log'.events) + i]
        BY <3>3
      <4> QED BY <3>6, <4>1
    <3>8. log'.dropped = Diagnosed!Saturated(Len(admitted') - Len(log'.events))
      BY <3>4, <3>6
    <3> QED BY <3>1, <3>2, <3>7, <3>8
  <2>4. Diagnosed!Saturated(Len(admitted) - Len(log.events))' =
          Diagnosed!Saturated(Len(admitted') - Len(log'.events))
    BY DEF Diagnosed!Saturated
  <2> QED BY <2>2, <2>3, <2>4 DEF Diagnosed!NewestRetained, Diagnosed!Saturated
<1>6. \A i \in DOMAIN admitted' : Diagnosed!EventValid(admitted'[i])
  <2>1. DOMAIN admitted = 1 .. n /\ DOMAIN admitted' = 1 .. n + 1
    BY <1>0, <1>1, LenProperties
  <2>2. \A i \in 1 .. n : Diagnosed!EventValid(admitted[i])
    BY <2>1 DEF LogInv
  <2>3. \A i \in 1 .. n + 1 : i \in 1 .. n \/ i = n + 1
    BY <1>0
  <2> QED BY <1>1, <2>1, <2>2, <2>3
<1> QED BY <1>3, <1>4, <1>5, <1>6 DEF LogInv

\* An event that is counted and not retained.
LEMMA LogCounts ==
  ASSUME LogInv, NEW disposition \in {"Filtered", "RejectedOversized", "RejectedInvalid"},
         log' = CASE disposition = "RejectedInvalid" -> [log EXCEPT !.invalid = Diagnosed!Saturating(@)]
                  [] disposition = "Filtered" -> [log EXCEPT !.filtered = Diagnosed!Saturating(@)]
                  [] disposition = "RejectedOversized" -> [log EXCEPT !.oversized = Diagnosed!Saturating(@)],
         outcomes' = [outcomes EXCEPT ![disposition] = @ + 1],
         UNCHANGED <<shared, poisoned, accepted, admitted>>
  PROVE  LogInv'
<1>0. /\ outcomes \in [Diagnosed!Dispositions -> Nat]
      /\ \A d \in {"Filtered", "RejectedOversized", "RejectedInvalid"} :
           /\ outcomes[d] \in Nat
           /\ Diagnosed!Saturated(outcomes[d] + 1) \in Nat
           /\ Diagnosed!Saturating(Diagnosed!Saturated(outcomes[d])) = Diagnosed!Saturated(outcomes[d] + 1)
  <2>1. outcomes \in [Diagnosed!Dispositions -> Nat]
    BY DEF LogInv, Diagnosed!TypeOK
  <2>2. \A d \in {"Filtered", "RejectedOversized", "RejectedInvalid"} : outcomes[d] \in Nat
    BY <2>1 DEF Diagnosed!Dispositions
  <2> QED BY <2>1, <2>2, SaturatedNext
<1>1. /\ outcomes' \in [Diagnosed!Dispositions -> Nat] /\ outcomes'[disposition] = outcomes[disposition] + 1
      /\ \A d \in Diagnosed!Dispositions \ {disposition} : outcomes'[d] = outcomes[d]
  BY <1>0 DEF Diagnosed!Dispositions
<1>2. /\ log.filtered = Diagnosed!Saturated(outcomes["Filtered"])
      /\ log.oversized = Diagnosed!Saturated(outcomes["RejectedOversized"])
      /\ log.invalid = Diagnosed!Saturated(outcomes["RejectedInvalid"])
  BY DEF LogInv, Diagnosed!NewestRetained
<1>3. /\ log' \in [events : Seq(Events), minimum : Severities, dropped : Nat, filtered : Nat,
                   oversized : Nat, invalid : Nat]
      /\ log'.events = log.events /\ log'.minimum = log.minimum /\ log'.dropped = log.dropped
      /\ log'.filtered = Diagnosed!Saturated(outcomes'["Filtered"])
      /\ log'.oversized = Diagnosed!Saturated(outcomes'["RejectedOversized"])
      /\ log'.invalid = Diagnosed!Saturated(outcomes'["RejectedInvalid"])
  <2>0. /\ log \in [events : Seq(Events), minimum : Severities, dropped : Nat, filtered : Nat,
                    oversized : Nat, invalid : Nat]
        /\ \A d \in {"Filtered", "RejectedOversized", "RejectedInvalid"} \ {disposition} :
             outcomes'[d] = outcomes[d]
    BY <1>1 DEF LogInv, Diagnosed!Dispositions
  <2>1. CASE disposition = "RejectedInvalid"
    <3>1. /\ log' = [log EXCEPT !.invalid = Diagnosed!Saturating(log.invalid)]
          /\ Diagnosed!Saturating(log.invalid) = Diagnosed!Saturated(outcomes'["RejectedInvalid"])
          /\ Diagnosed!Saturated(outcomes'["RejectedInvalid"]) \in Nat
      BY <1>0, <1>1, <1>2, <2>1
    <3> QED BY <1>2, <2>0, <2>1, <3>1
  <2>2. CASE disposition = "Filtered"
    <3>1. /\ log' = [log EXCEPT !.filtered = Diagnosed!Saturating(log.filtered)]
          /\ Diagnosed!Saturating(log.filtered) = Diagnosed!Saturated(outcomes'["Filtered"])
          /\ Diagnosed!Saturated(outcomes'["Filtered"]) \in Nat
      BY <1>0, <1>1, <1>2, <2>2
    <3> QED BY <1>2, <2>0, <2>2, <3>1
  <2>3. CASE disposition = "RejectedOversized"
    <3>1. /\ log' = [log EXCEPT !.oversized = Diagnosed!Saturating(log.oversized)]
          /\ Diagnosed!Saturating(log.oversized) = Diagnosed!Saturated(outcomes'["RejectedOversized"])
          /\ Diagnosed!Saturated(outcomes'["RejectedOversized"]) \in Nat
      BY <1>0, <1>1, <1>2, <2>3
    <3> QED BY <1>2, <2>0, <2>3, <3>1
  <2> QED BY <2>1, <2>2, <2>3
<1>4. Diagnosed!TypeOK'
  BY <1>1, <1>3 DEF LogInv, Diagnosed!TypeOK
<1>5. Diagnosed!NewestRetained'
  BY <1>3 DEF LogInv, Diagnosed!NewestRetained
<1> QED BY <1>3, <1>4, <1>5 DEF LogInv

LEMMA LogStep == LogInv /\ Diagnosed!LogNext => LogInv'
<1> SUFFICES ASSUME LogInv, Diagnosed!LogNext PROVE LogInv'
  OBVIOUS
<1>1. ASSUME NEW event \in Events, Diagnosed!Push(event) PROVE LogInv'
  <2> DEFINE disposition == Diagnosed!Disposition(event)
  <2>1. /\ log' = CASE disposition = "RejectedInvalid" -> [log EXCEPT !.invalid = Diagnosed!Saturating(@)]
                    [] disposition = "Filtered" -> [log EXCEPT !.filtered = Diagnosed!Saturating(@)]
                    [] disposition = "RejectedOversized" -> [log EXCEPT !.oversized = Diagnosed!Saturating(@)]
                    [] disposition \in {"Retained", "RetainedAfterEviction"} ->
                         Diagnosed!Retaining(event, disposition)
        /\ admitted' = IF disposition \in {"Retained", "RetainedAfterEviction"}
                       THEN Append(admitted, event) ELSE admitted
        /\ outcomes' = [outcomes EXCEPT ![disposition] = @ + 1]
        /\ UNCHANGED <<shared, poisoned, accepted>>
    BY <1>1 DEF Diagnosed!Push
  <2>2. CASE disposition \in {"Filtered", "RejectedOversized", "RejectedInvalid"}
    <3>1. /\ log' = CASE disposition = "RejectedInvalid" -> [log EXCEPT !.invalid = Diagnosed!Saturating(@)]
                      [] disposition = "Filtered" -> [log EXCEPT !.filtered = Diagnosed!Saturating(@)]
                      [] disposition = "RejectedOversized" ->
                           [log EXCEPT !.oversized = Diagnosed!Saturating(@)]
          /\ admitted' = admitted
      <4> HIDE DEF disposition
      <4> QED BY <2>1, <2>2
    <3> HIDE DEF disposition
    <3> QED BY <2>1, <2>2, <3>1, LogCounts
  <2>3. CASE disposition \in {"Retained", "RetainedAfterEviction"}
    <3>1. /\ Diagnosed!EventValid(event)
          /\ disposition = (IF Len(log.events) = Capacity THEN "RetainedAfterEviction" ELSE "Retained")
      BY <2>3 DEF Diagnosed!Disposition
    <3>2. log' = Diagnosed!Retaining(event, disposition) /\ admitted' = Append(admitted, event)
      <4> HIDE DEF disposition
      <4> QED BY <2>1, <2>3
    <3> HIDE DEF disposition
    <3> QED BY <2>1, <2>3, <3>1, <3>2, LogRetains
  <2>4. disposition \in {"Filtered", "RejectedOversized", "RejectedInvalid", "Retained",
                         "RetainedAfterEviction"}
    BY DEF Diagnosed!Disposition
  <2> QED BY <2>2, <2>3, <2>4
<1>2. ASSUME NEW severity \in Severities, Diagnosed!SetMinimumSeverity(severity) PROVE LogInv'
  <2>1. log' = [log EXCEPT !.minimum = severity] /\ UNCHANGED <<shared, poisoned, admitted, outcomes, accepted>>
    BY <1>2 DEF Diagnosed!SetMinimumSeverity
  <2>2. /\ log' \in [events : Seq(Events), minimum : Severities, dropped : Nat, filtered : Nat,
                     oversized : Nat, invalid : Nat]
        /\ log'.events = log.events /\ log'.minimum = severity /\ log'.dropped = log.dropped
        /\ log'.filtered = log.filtered /\ log'.oversized = log.oversized /\ log'.invalid = log.invalid
    BY <2>1 DEF LogInv
  <2>3. Diagnosed!TypeOK' /\ Diagnosed!NewestRetained'
    BY <2>1, <2>2 DEF LogInv, Diagnosed!TypeOK, Diagnosed!NewestRetained
  <2> QED BY <2>1, <2>2, <2>3 DEF LogInv
<1>3. CASE Diagnosed!InspectPanics
  <2>1. poisoned' = TRUE /\ UNCHANGED <<shared, log, admitted, outcomes, accepted>>
    BY <1>3 DEF Diagnosed!InspectPanics
  <2> QED BY <2>1 DEF LogInv, Diagnosed!TypeOK, Diagnosed!NewestRetained
<1>4. ASSUME NEW document \in SupportDocuments, Diagnosed!Validate(document) PROVE LogInv'
  <2>1. /\ accepted' = IF Diagnosed!DocumentValid(document) THEN document ELSE None
        /\ UNCHANGED <<shared, poisoned, log, admitted, outcomes>>
    BY <1>4 DEF Diagnosed!Validate
  <2>2. accepted' # None => Diagnosed!TruthSourceEvidence(accepted'.source, accepted'.path)
    BY <2>1 DEF Diagnosed!DocumentValid, Diagnosed!SnapshotValid, Diagnosed!ReportValid
  <2> QED BY <2>1, <2>2 DEF LogInv, Diagnosed!TypeOK, Diagnosed!NewestRetained
<1> QED BY <1>1, <1>2, <1>3, <1>4 DEF Diagnosed!LogNext

LEMMA LogKept == LogInv /\ UNCHANGED logVars => LogInv'
BY DEF logVars, LogInv, Diagnosed!TypeOK, Diagnosed!NewestRetained

LEMMA LogDocumented ==
  ASSUME LogInv
  PROVE  Diagnosed!TruthDocumented
<1> SUFFICES ASSUME NEW d \in {log.events[i] : i \in DOMAIN log.events} \union ({accepted} \ {None})
             PROVE  IF d.source = "PhysicalMeasurement" THEN d.path \notin {None, Diagnosed!NoText, 0}
                    ELSE d.path = None
  BY DEF Diagnosed!TruthDocumented
<1>1. CASE d \in {accepted} \ {None}
  BY <1>1 DEF LogInv, Diagnosed!TruthSourceEvidence
<1>2. ASSUME NEW i \in DOMAIN log.events, d = log.events[i]
      PROVE  Diagnosed!TruthSourceEvidence(d.source, d.path)
  <2> DEFINE n == Len(admitted)
             k == Len(log.events)
  <2>0. admitted \in Seq(Events) /\ log.events \in Seq(Events)
    BY DEF LogInv, Diagnosed!TypeOK
  <2>1. n \in Nat /\ k \in Nat /\ i \in 1 .. k /\ DOMAIN admitted = 1 .. n
    BY <1>2, <2>0, LenProperties
  <2>3. k <= n /\ log.events[i] = admitted[n - k + i]
    <3>1. /\ k = IF n < Capacity THEN n ELSE Capacity
          /\ \A j \in 1 .. k : log.events[j] = admitted[n - k + j]
      BY DEF LogInv, Diagnosed!NewestRetained
    <3>2. k <= n
      BY <2>1, <3>1, ControlPlaneAssumption
    <3> QED BY <2>1, <3>1, <3>2
  <2>2. n - k + i \in DOMAIN admitted
    <3> HIDE DEF n, k
    <3> QED BY <2>1, <2>3
  <2> QED BY <1>2, <2>2, <2>3 DEF LogInv, Diagnosed!EventValid
<1> QED BY <1>1, <1>2 DEF Diagnosed!TruthSourceEvidence

-----------------------------------------------------------------------------
(* The counters.  What all recorders together still owe to a counter is a  *)
(* sum over them, given by a measure: a number for every set of recorders, *)
(* which grows by the weight of a recorder with that recorder.             *)

Measures(w) ==
  {measure \in [SUBSET Recorders -> Nat] :
     /\ measure[{}] = 0
     /\ \A S \in SUBSET Recorders : \A r \in Recorders \ S : measure[S \union {r}] = measure[S] + w[r]}

Weighs(w, n) == \E measure \in Measures(w) : measure[Recorders] = n

LEMMA WeighsNothing == Weighs([r \in Recorders |-> 0], 0)
<1>1. [S \in SUBSET Recorders |-> 0] \in Measures([r \in Recorders |-> 0])
  BY DEF Measures
<1> QED BY <1>1 DEF Weighs

\* When the weight of one recorder changes, so does what all weigh.
LEMMA WeighsChanged ==
  ASSUME NEW w \in [Recorders -> Nat], NEW n \in Nat, Weighs(w, n), NEW r \in Recorders, NEW v \in Nat
  PROVE  w[r] <= n /\ n - w[r] + v \in Nat /\ Weighs([w EXCEPT ![r] = v], n - w[r] + v)
<1>1. PICK measure \in Measures(w) : measure[Recorders] = n
  BY DEF Weighs
<1>2. /\ measure \in [SUBSET Recorders -> Nat] /\ measure[{}] = 0
      /\ \A S \in SUBSET Recorders : \A x \in Recorders \ S : measure[S \union {x}] = measure[S] + w[x]
  BY DEF Measures
<1>3. \A S \in SUBSET Recorders : r \in S => measure[S] = measure[S \ {r}] + w[r]
  <2> SUFFICES ASSUME NEW S \in SUBSET Recorders, r \in S PROVE measure[S] = measure[S \ {r}] + w[r]
    OBVIOUS
  <2>1. S = (S \ {r}) \union {r} /\ S \ {r} \in SUBSET Recorders /\ r \in Recorders \ (S \ {r})
    OBVIOUS
  <2> QED BY <1>2, <2>1
<1>4. \A S \in SUBSET Recorders : /\ measure[S] \in Nat
                                  /\ r \in S => w[r] <= measure[S] /\ measure[S] - w[r] + v \in Nat
  <2> SUFFICES ASSUME NEW S \in SUBSET Recorders
               PROVE  /\ measure[S] \in Nat
                      /\ r \in S => w[r] <= measure[S] /\ measure[S] - w[r] + v \in Nat
    OBVIOUS
  <2>1. measure[S] \in Nat /\ measure[S \ {r}] \in Nat /\ w[r] \in Nat
    BY <1>2
  <2> QED BY <1>3, <2>1
<1> DEFINE changed == [S \in SUBSET Recorders |-> IF r \in S THEN measure[S] - w[r] + v ELSE measure[S]]
<1>5. changed \in [SUBSET Recorders -> Nat] /\ changed[{}] = 0
  BY <1>2, <1>4
<1>6. ASSUME NEW S \in SUBSET Recorders, NEW x \in Recorders \ S
      PROVE  changed[S \union {x}] = changed[S] + [w EXCEPT ![r] = v][x]
  <2>1. /\ measure[S] \in Nat /\ measure[S \union {x}] = measure[S] + w[x] /\ w[x] \in Nat /\ w[r] \in Nat
        /\ S \union {x} \in SUBSET Recorders
    BY <1>2, <1>6
  <2>2. /\ changed[S] = IF r \in S THEN measure[S] - w[r] + v ELSE measure[S]
        /\ changed[S \union {x}] = IF r \in S \union {x} THEN measure[S \union {x}] - w[r] + v
                                   ELSE measure[S \union {x}]
        /\ [w EXCEPT ![r] = v][x] = IF x = r THEN v ELSE w[x]
    BY <2>1
  <2> HIDE DEF changed
  <2> QED BY <1>6, <2>1, <2>2
<1>7. changed \in Measures([w EXCEPT ![r] = v])
  <2> HIDE DEF changed
  <2> QED BY <1>5, <1>6 DEF Measures
<1>8. changed[Recorders] = n - w[r] + v
  BY <1>1
<1> HIDE DEF changed
<1> QED BY <1>1, <1>4, <1>7, <1>8 DEF Weighs

\* The counters that add up, and those that keep the largest.
Sums == {"count", "total"}
Peaks == {"max", "peak"}
GroupOf(f) == IF f \in Diagnosed!Timing THEN Diagnosed!Timing ELSE Diagnosed!Gauge

\* What a recording adds to a counter.
Amount(f, value) == IF f = "count" THEN 1 ELSE value

\* What a recorder has begun and not added yet, and what it has added and not finished.
Owes(rec, f) == IF f \in rec.pending THEN Amount(f, rec.value) ELSE 0
Ahead(rec, f) ==
  IF rec.pending # {} /\ rec.pending \subseteq Diagnosed!Timing /\ f \notin rec.pending
  THEN Amount(f, rec.value) ELSE 0

Recordings == [value : Nat, pending : (SUBSET Diagnosed!Timing) \union (SUBSET Diagnosed!Gauge)]
Values == [Diagnosed!Fields -> Nat]
Takings == [read : SUBSET Diagnosed!Fields, values : Values, floor : Values]

SumsOwed ==
  \A f \in Sums :
    /\ finished[f] <= counters[f] /\ counters[f] <= begun[f]
    /\ Weighs([r \in Recorders |-> Owes(recorders[r], f)], begun[f] - counters[f])
    /\ Weighs([r \in Recorders |-> Ahead(recorders[r], f)], counters[f] - finished[f])

PeaksOwed ==
  \A f \in Peaks :
    /\ finished[f] <= counters[f] /\ counters[f] <= begun[f]
    /\ \A r \in Recorders :
         recorders[r].pending # {} /\ recorders[r].pending \subseteq GroupOf(f) =>
           /\ recorders[r].value <= begun[f]
           /\ f \notin recorders[r].pending => recorders[r].value <= counters[f]

\* A snapshot and the one before are of the past.
SnapshotsBehind ==
  /\ \A f \in Diagnosed!Cumulative : taken[f] <= counters[f]
  /\ taking # None =>
       \A f \in Diagnosed!Cumulative :
         /\ taking.floor[f] <= counters[f]
         /\ f \in taking.read => /\ taking.floor[f] <= taking.values[f]
                                 /\ taking.values[f] <= counters[f]

MetricInv ==
  /\ counters \in Values /\ begun \in Values /\ finished \in Values /\ taken \in Values
  /\ recorders \in [Recorders -> Recordings]
  /\ taking # None => taking \in Takings
  /\ SumsOwed /\ PeaksOwed /\ SnapshotsBehind

LEMMA MetricInit == MCInit => MetricInv
<1> SUFFICES ASSUME MCInit PROVE MetricInv
  OBVIOUS
<1>1. /\ counters = Diagnosed!Zeroed /\ recorders = [r \in Recorders |-> Diagnosed!Idle]
      /\ begun = Diagnosed!Zeroed /\ finished = Diagnosed!Zeroed /\ taking = None
      /\ taken = Diagnosed!Zeroed
  BY DEF MCInit, Diagnosed!Init, Diagnosed!MetricInit
<1>2. /\ Diagnosed!Zeroed \in Values /\ \A f \in Diagnosed!Fields : Diagnosed!Zeroed[f] = 0
      /\ Diagnosed!Idle \in Recordings /\ Diagnosed!Idle.pending = {}
  BY DEF Diagnosed!Zeroed, Values, Diagnosed!Idle, Recordings
<1>3. Sums \subseteq Diagnosed!Fields /\ Peaks \subseteq Diagnosed!Fields
      /\ Diagnosed!Cumulative \subseteq Diagnosed!Fields
  BY DEF Sums, Peaks, Diagnosed!Fields, Diagnosed!Timing, Diagnosed!Gauge, Diagnosed!Cumulative
<1>4. SumsOwed
  <2> SUFFICES ASSUME NEW f \in Sums
               PROVE  /\ finished[f] <= counters[f] /\ counters[f] <= begun[f]
                      /\ Weighs([r \in Recorders |-> Owes(recorders[r], f)], begun[f] - counters[f])
                      /\ Weighs([r \in Recorders |-> Ahead(recorders[r], f)], counters[f] - finished[f])
    BY DEF SumsOwed
  <2>1. \A r \in Recorders : Owes(recorders[r], f) = 0 /\ Ahead(recorders[r], f) = 0
    BY <1>1, <1>2 DEF Owes, Ahead
  <2>2. /\ [r \in Recorders |-> Owes(recorders[r], f)] = [r \in Recorders |-> 0]
        /\ [r \in Recorders |-> Ahead(recorders[r], f)] = [r \in Recorders |-> 0]
    BY <2>1
  <2>3. begun[f] = 0 /\ counters[f] = 0 /\ finished[f] = 0 /\ 0 - 0 = 0
    BY <1>1, <1>2, <1>3
  <2> QED BY <2>2, <2>3, WeighsNothing
<1>5. PeaksOwed
  BY <1>1, <1>2, <1>3 DEF PeaksOwed
<1>6. SnapshotsBehind
  BY <1>1, <1>2, <1>3 DEF SnapshotsBehind
<1> QED BY <1>1, <1>2, <1>4, <1>5, <1>6 DEF MetricInv

LEMMA RecorderMoved ==
  ASSUME recorders \in [Recorders -> Recordings], NEW r \in Recorders, NEW rec \in Recordings,
         recorders' = [recorders EXCEPT ![r] = rec], NEW f \in Sums, NEW n \in Nat
  PROVE  /\ Weighs([x \in Recorders |-> Owes(recorders[x], f)], n) =>
              LET m == n - Owes(recorders[r], f) + Owes(rec, f)
              IN /\ Owes(recorders[r], f) <= n /\ m \in Nat
                 /\ Weighs([x \in Recorders |-> Owes(recorders'[x], f)], m)
         /\ Weighs([x \in Recorders |-> Ahead(recorders[x], f)], n) =>
              LET m == n - Ahead(recorders[r], f) + Ahead(rec, f)
              IN /\ Ahead(recorders[r], f) <= n /\ m \in Nat
                 /\ Weighs([x \in Recorders |-> Ahead(recorders'[x], f)], m)
<1> DEFINE owes == [x \in Recorders |-> Owes(recorders[x], f)]
           ahead == [x \in Recorders |-> Ahead(recorders[x], f)]
<1>1. \A rec1 \in Recordings : Owes(rec1, f) \in Nat /\ Ahead(rec1, f) \in Nat
  BY DEF Owes, Ahead, Recordings, Amount
<1>2. owes \in [Recorders -> Nat] /\ ahead \in [Recorders -> Nat]
  BY <1>1
<1>3. /\ [x \in Recorders |-> Owes(recorders'[x], f)] = [owes EXCEPT ![r] = Owes(rec, f)]
      /\ [x \in Recorders |-> Ahead(recorders'[x], f)] = [ahead EXCEPT ![r] = Ahead(rec, f)]
  <2>1. \A x \in Recorders : recorders'[x] = IF x = r THEN rec ELSE recorders[x]
    OBVIOUS
  <2> QED BY <2>1
<1>4. owes[r] = Owes(recorders[r], f) /\ ahead[r] = Ahead(recorders[r], f)
  OBVIOUS
<1>5. Owes(rec, f) \in Nat /\ Ahead(rec, f) \in Nat
  BY <1>1
<1> HIDE DEF owes, ahead
<1>6. Weighs(owes, n) => /\ owes[r] <= n /\ n - owes[r] + Owes(rec, f) \in Nat
                         /\ Weighs([owes EXCEPT ![r] = Owes(rec, f)], n - owes[r] + Owes(rec, f))
  BY <1>2, <1>5, WeighsChanged
<1>7. Weighs(ahead, n) => /\ ahead[r] <= n /\ n - ahead[r] + Ahead(rec, f) \in Nat
                          /\ Weighs([ahead EXCEPT ![r] = Ahead(rec, f)], n - ahead[r] + Ahead(rec, f))
  BY <1>2, <1>5, WeighsChanged
<1> QED BY <1>3, <1>4, <1>6, <1>7 DEF owes, ahead

\* The sums after a recorder has moved: what it owes is what the counter has not got, and what
\* it is ahead is what has not finished.
LEMMA SumsMoved ==
  ASSUME MetricInv, NEW r \in Recorders, NEW rec \in Recordings,
         recorders' = [recorders EXCEPT ![r] = rec],
         counters' \in Values, begun' \in Values, finished' \in Values,
         \A f \in Sums :
           /\ begun'[f] - counters'[f] = begun[f] - counters[f] - Owes(recorders[r], f) + Owes(rec, f)
           /\ counters'[f] - finished'[f] = counters[f] - finished[f] - Ahead(recorders[r], f) + Ahead(rec, f)
  PROVE  SumsOwed'
<1> SUFFICES ASSUME NEW f \in Sums
             PROVE  /\ finished'[f] <= counters'[f] /\ counters'[f] <= begun'[f]
                    /\ Weighs([x \in Recorders |-> Owes(recorders'[x], f)], begun'[f] - counters'[f])
                    /\ Weighs([x \in Recorders |-> Ahead(recorders'[x], f)], counters'[f] - finished'[f])
  BY DEF SumsOwed, Weighs, Measures, Owes, Ahead, Amount
<1>1. /\ counters[f] \in Nat /\ begun[f] \in Nat /\ finished[f] \in Nat
      /\ counters'[f] \in Nat /\ begun'[f] \in Nat /\ finished'[f] \in Nat
  BY DEF MetricInv, Values, Sums, Diagnosed!Fields, Diagnosed!Timing, Diagnosed!Gauge
<1>2. /\ begun[f] - counters[f] \in Nat /\ counters[f] - finished[f] \in Nat
      /\ Weighs([x \in Recorders |-> Owes(recorders[x], f)], begun[f] - counters[f])
      /\ Weighs([x \in Recorders |-> Ahead(recorders[x], f)], counters[f] - finished[f])
  BY <1>1 DEF MetricInv, SumsOwed
<1>3. recorders \in [Recorders -> Recordings]
  BY DEF MetricInv
<1>4. /\ begun'[f] - counters'[f] \in Nat
      /\ Weighs([x \in Recorders |-> Owes(recorders'[x], f)], begun'[f] - counters'[f])
  BY <1>2, <1>3, RecorderMoved
<1>5. /\ counters'[f] - finished'[f] \in Nat
      /\ Weighs([x \in Recorders |-> Ahead(recorders'[x], f)], counters'[f] - finished'[f])
  BY <1>2, <1>3, RecorderMoved
<1> QED BY <1>1, <1>4, <1>5

LEMMA SnapshotsStay ==
  ASSUME MetricInv, counters' \in Values, UNCHANGED <<taking, taken>>,
         \A f \in Diagnosed!Cumulative : counters[f] <= counters'[f]
  PROVE  SnapshotsBehind'
<1>1. \A f \in Diagnosed!Cumulative : counters[f] \in Nat /\ counters'[f] \in Nat /\ taken[f] \in Nat
  BY DEF MetricInv, Values, Diagnosed!Cumulative
<1>2. taking # None => \A f \in Diagnosed!Cumulative : taking.floor[f] \in Nat /\ taking.values[f] \in Nat
  BY DEF MetricInv, Takings, Values, Diagnosed!Cumulative
<1>3. \A f \in Diagnosed!Cumulative : taken[f] <= counters'[f]
  BY <1>1 DEF MetricInv, SnapshotsBehind
<1>4. ASSUME taking # None, NEW f \in Diagnosed!Cumulative
      PROVE  /\ taking.floor[f] <= counters'[f]
             /\ f \in taking.read => /\ taking.floor[f] <= taking.values[f]
                                     /\ taking.values[f] <= counters'[f]
  <2>1. /\ taking.floor[f] <= counters[f] /\ counters[f] <= counters'[f]
        /\ f \in taking.read => taking.floor[f] <= taking.values[f] /\ taking.values[f] <= counters[f]
    BY <1>4 DEF MetricInv, SnapshotsBehind
  <2> QED BY <1>1, <1>2, <1>4, <2>1
<1> QED BY <1>3, <1>4 DEF SnapshotsBehind

LEMMA MetricBegin ==
  ASSUME MetricInv, NEW r \in Recorders, NEW fields \in {Diagnosed!Timing, Diagnosed!Gauge},
         NEW value \in Nat, Diagnosed!Begin(r, fields, value)
  PROVE  MetricInv'
<1> DEFINE rec == [value |-> value, pending |-> fields]
<1>1. /\ recorders[r].pending = {} /\ recorders' = [recorders EXCEPT ![r] = rec]
      /\ begun' = Diagnosed!Recorded(begun, fields, value)
      /\ UNCHANGED <<counters, finished, taking, taken>>
  BY DEF Diagnosed!Begin
<1>2. /\ counters \in Values /\ begun \in Values /\ finished \in Values /\ taken \in Values
      /\ recorders \in [Recorders -> Recordings] /\ (taking # None => taking \in Takings)
      /\ SumsOwed /\ PeaksOwed /\ SnapshotsBehind
  BY DEF MetricInv
<1>3. rec \in Recordings
  BY DEF Recordings
<1>4. /\ begun' \in Values
      /\ \A f \in Sums : begun'[f] = begun[f] + (IF fields = Diagnosed!Timing THEN Amount(f, value) ELSE 0)
      /\ \A f \in Peaks : begun'[f] = IF fields = GroupOf(f) THEN Diagnosed!Larger(begun[f], value)
                                      ELSE begun[f]
  BY <1>1, <1>2 DEF Values, Diagnosed!Recorded, Sums, Peaks, Amount, GroupOf, Diagnosed!Fields,
     Diagnosed!Timing, Diagnosed!Gauge, Diagnosed!Larger
<1>5. \A f \in Sums : /\ Owes(recorders[r], f) = 0 /\ Ahead(recorders[r], f) = 0 /\ Ahead(rec, f) = 0
                      /\ Owes(rec, f) = IF fields = Diagnosed!Timing THEN Amount(f, value) ELSE 0
  BY <1>1 DEF Owes, Ahead, Sums, Diagnosed!Timing, Diagnosed!Gauge
<1>6. \A f \in Sums :
        /\ begun'[f] - counters'[f] = begun[f] - counters[f] - Owes(recorders[r], f) + Owes(rec, f)
        /\ counters'[f] - finished'[f] = counters[f] - finished[f] - Ahead(recorders[r], f) + Ahead(rec, f)
  <2> SUFFICES ASSUME NEW f \in Sums
               PROVE  /\ begun'[f] - counters'[f] = begun[f] - counters[f] - Owes(recorders[r], f) + Owes(rec, f)
                      /\ counters'[f] - finished'[f] =
                           counters[f] - finished[f] - Ahead(recorders[r], f) + Ahead(rec, f)
    OBVIOUS
  <2>1. counters[f] \in Nat /\ begun[f] \in Nat /\ finished[f] \in Nat /\ Amount(f, value) \in Nat
    BY <1>2 DEF Values, Sums, Diagnosed!Fields, Diagnosed!Timing, Diagnosed!Gauge, Amount
  <2>2. counters'[f] = counters[f] /\ finished'[f] = finished[f]
    BY <1>1
  <2> HIDE DEF rec
  <2> QED BY <1>4, <1>5, <2>1, <2>2
<1>7. SumsOwed'
  <2> HIDE DEF rec
  <2> QED BY <1>1, <1>2, <1>3, <1>4, <1>6, SumsMoved
<1>8. PeaksOwed'
  <2> SUFFICES ASSUME NEW f \in Peaks
               PROVE  /\ finished'[f] <= counters'[f] /\ counters'[f] <= begun'[f]
                      /\ \A x \in Recorders :
                           recorders'[x].pending # {} /\ recorders'[x].pending \subseteq GroupOf(f) =>
                             /\ recorders'[x].value <= begun'[f]
                             /\ f \notin recorders'[x].pending => recorders'[x].value <= counters'[f]
    BY DEF PeaksOwed, GroupOf, Diagnosed!Timing, Diagnosed!Gauge
  <2>1. counters[f] \in Nat /\ begun[f] \in Nat /\ finished[f] \in Nat
    BY <1>2 DEF Values, Peaks, Diagnosed!Fields, Diagnosed!Timing, Diagnosed!Gauge
  <2>2. /\ begun'[f] \in Nat /\ begun[f] <= begun'[f]
        /\ fields = GroupOf(f) => value <= begun'[f]
    BY <1>4, <2>1 DEF Diagnosed!Larger
  <2>3. finished[f] <= counters[f] /\ counters[f] <= begun[f]
    BY <1>2 DEF PeaksOwed
  <2>4. ASSUME NEW x \in Recorders, recorders'[x].pending # {}, recorders'[x].pending \subseteq GroupOf(f)
        PROVE  /\ recorders'[x].value <= begun'[f]
               /\ f \notin recorders'[x].pending => recorders'[x].value <= counters'[f]
    <3>1. CASE x = r
      <4>1. recorders'[x].pending = fields /\ recorders'[x].value = value
        BY <1>1, <1>2, <3>1
      <4>2. fields = GroupOf(f) /\ f \in fields
        BY <2>4, <4>1 DEF GroupOf, Peaks, Diagnosed!Timing, Diagnosed!Gauge
      <4> QED BY <2>2, <4>1, <4>2
    <3>2. CASE x # r
      <4>1. recorders'[x] = recorders[x] /\ recorders[x].value \in Nat
        BY <1>1, <1>2, <3>2 DEF Recordings
      <4>2. /\ recorders[x].value <= begun[f]
            /\ f \notin recorders[x].pending => recorders[x].value <= counters[f]
        BY <1>2, <2>4, <4>1 DEF PeaksOwed
      <4> QED BY <1>1, <2>1, <2>2, <4>1, <4>2
    <3> QED BY <3>1, <3>2
  <2>5. finished'[f] <= counters'[f] /\ counters'[f] <= begun'[f]
    BY <1>1, <2>1, <2>2, <2>3
  <2> QED BY <2>4, <2>5
<1>9. SnapshotsBehind'
  BY <1>1, <1>2 DEF SnapshotsBehind
<1> QED BY <1>1, <1>2, <1>3, <1>4, <1>7, <1>8, <1>9 DEF MetricInv

LEMMA MetricUpdate ==
  ASSUME MetricInv, NEW r \in Recorders, NEW field \in Diagnosed!Fields, Diagnosed!Update(r, field)
  PROVE  MetricInv'
<1> DEFINE old == recorders[r]
           value == old.value
           rest == old.pending \ {field}
           rec == [value |-> value, pending |-> rest]
           ended == rest = {}
<1>1. /\ field \in old.pending
      /\ counters' = [counters EXCEPT ![field] = Diagnosed!Updated(@, field, value)]
      /\ recorders' = [recorders EXCEPT ![r].pending = rest]
      /\ finished' = IF ended THEN Diagnosed!Recorded(finished, Diagnosed!FieldsOf({field}), value)
                     ELSE finished
      /\ UNCHANGED <<begun, taking, taken>>
  BY DEF Diagnosed!Update
<1>2. /\ counters \in Values /\ begun \in Values /\ finished \in Values /\ taken \in Values
      /\ recorders \in [Recorders -> Recordings] /\ (taking # None => taking \in Takings)
      /\ SumsOwed /\ PeaksOwed /\ SnapshotsBehind
  BY DEF MetricInv
<1>3. old \in Recordings /\ value \in Nat /\ recorders' = [recorders EXCEPT ![r] = rec]
  <2>1. old \in Recordings
    BY <1>2
  <2>2. value \in Nat
    BY <2>1 DEF Recordings
  <2>3. rec = [old EXCEPT !.pending = rest]
    BY <2>1 DEF Recordings
  <2>4. recorders' = [recorders EXCEPT ![r] = [old EXCEPT !.pending = rest]]
    BY <1>1
  <2> QED BY <2>1, <2>2, <2>3, <2>4
<1>4. \/ field \in Diagnosed!Timing /\ old.pending \subseteq Diagnosed!Timing
      \/ field \in Diagnosed!Gauge /\ old.pending \subseteq Diagnosed!Gauge
  BY <1>1, <1>3 DEF Recordings
<1>5. rec \in Recordings
  BY <1>3 DEF Recordings
<1>6. /\ Diagnosed!FieldsOf({field}) = GroupOf(field)
      /\ GroupOf(field) \in {Diagnosed!Timing, Diagnosed!Gauge}
  BY DEF Diagnosed!FieldsOf, GroupOf
<1> HIDE DEF rest, value, old
\* The counters and what has finished.
<1>7. /\ counters' \in Values
      /\ \A f \in Sums : counters'[f] = counters[f] + (IF f = field THEN Amount(f, value) ELSE 0)
      /\ \A f \in Peaks : counters'[f] = IF f = field THEN Diagnosed!Larger(counters[f], value)
                                         ELSE counters[f]
  <2>1. \A f \in Sums \union Peaks : f \in Diagnosed!Fields /\ counters[f] \in Nat
    BY <1>2 DEF Values, Sums, Peaks, Diagnosed!Fields, Diagnosed!Timing, Diagnosed!Gauge
  <2>2. Diagnosed!Updated(counters[field], field, value) \in Nat
    BY <1>2, <1>3 DEF Values, Diagnosed!Updated, Diagnosed!Larger, Diagnosed!Fields, Diagnosed!Timing,
       Diagnosed!Gauge
  <2>3. counters' \in Values
    BY <1>1, <1>2, <2>2 DEF Values
  <2>4. \A f \in Diagnosed!Fields :
          counters'[f] = IF f = field THEN Diagnosed!Updated(counters[f], field, value) ELSE counters[f]
    BY <1>1, <1>2 DEF Values
  <2>5. \A f \in Sums : f = field => Diagnosed!Updated(counters[f], field, value) = counters[f] + Amount(f, value)
    BY DEF Sums, Diagnosed!Updated, Amount
  <2>6. \A f \in Peaks : f = field =>
          Diagnosed!Updated(counters[f], field, value) = Diagnosed!Larger(counters[f], value)
    BY DEF Peaks, Diagnosed!Updated
  <2> QED BY <2>1, <2>3, <2>4, <2>5, <2>6
<1>8. /\ finished' \in Values
      /\ \A f \in Sums : finished'[f] = finished[f] + (IF ended /\ field \in Diagnosed!Timing
                                                       THEN Amount(f, value) ELSE 0)
      /\ \A f \in Peaks : finished'[f] = IF ended /\ GroupOf(field) = GroupOf(f)
                                         THEN Diagnosed!Larger(finished[f], value) ELSE finished[f]
  <2>1. CASE ended
    <3>1. finished' = Diagnosed!Recorded(finished, GroupOf(field), value)
      BY <1>1, <1>6, <2>1
    <3>2. CASE field \in Diagnosed!Timing
      <4>1. finished' = Diagnosed!Recorded(finished, Diagnosed!Timing, value) /\ GroupOf(field) = Diagnosed!Timing
        BY <3>1, <3>2 DEF GroupOf
      <4> QED BY <1>2, <1>3, <2>1, <3>2, <4>1 DEF Values, Diagnosed!Recorded, Sums, Peaks, Amount, GroupOf,
              Diagnosed!Fields, Diagnosed!Timing, Diagnosed!Gauge, Diagnosed!Larger
    <3>3. CASE field \notin Diagnosed!Timing
      <4>1. finished' = Diagnosed!Recorded(finished, Diagnosed!Gauge, value) /\ GroupOf(field) = Diagnosed!Gauge
        BY <3>1, <3>3 DEF GroupOf
      <4> QED BY <1>2, <1>3, <2>1, <3>3, <4>1 DEF Values, Diagnosed!Recorded, Sums, Peaks, Amount, GroupOf,
              Diagnosed!Fields, Diagnosed!Timing, Diagnosed!Gauge, Diagnosed!Larger
    <3> QED BY <3>2, <3>3
  <2>2. CASE ~ended
    BY <1>1, <1>2, <2>2 DEF Values, Sums, Peaks, Diagnosed!Fields, Diagnosed!Timing, Diagnosed!Gauge
  <2> QED BY <2>1, <2>2
<1>9. \A f \in Sums \union Peaks :
        /\ counters[f] \in Nat /\ begun[f] \in Nat /\ finished[f] \in Nat /\ Amount(f, value) \in Nat
        /\ counters'[f] \in Nat /\ finished'[f] \in Nat
  BY <1>2, <1>3, <1>7, <1>8 DEF Values, Sums, Peaks, Diagnosed!Fields, Diagnosed!Timing, Diagnosed!Gauge, Amount
\* What the recorder owed and was ahead before and after.
<1>10. ASSUME NEW f \in Sums
       PROVE  /\ Owes(old, f) - Owes(rec, f) = IF f = field THEN Amount(f, value) ELSE 0
              /\ Ahead(rec, f) - Ahead(old, f) = (IF f = field THEN Amount(f, value) ELSE 0)
                                               - (IF ended /\ field \in Diagnosed!Timing
                                                  THEN Amount(f, value) ELSE 0)
              /\ Owes(old, f) \in Nat /\ Owes(rec, f) \in Nat /\ Ahead(old, f) \in Nat /\ Ahead(rec, f) \in Nat
  <2>1. /\ f \in Diagnosed!Timing /\ f \notin Diagnosed!Gauge /\ Amount(f, value) \in Nat
        /\ Diagnosed!Timing \intersect Diagnosed!Gauge = {}
    BY <1>9 DEF Sums, Diagnosed!Timing, Diagnosed!Gauge
  <2>2. /\ rec.value = value /\ rec.pending = rest /\ old.value = value /\ rest = old.pending \ {field}
    BY DEF value, rest
  <2> HIDE DEF rec
  <2>3. CASE field \in Diagnosed!Timing /\ old.pending \subseteq Diagnosed!Timing
    BY <1>1, <2>1, <2>2, <2>3 DEF Owes, Ahead
  <2>4. CASE field \in Diagnosed!Gauge /\ old.pending \subseteq Diagnosed!Gauge
    <3>1. /\ f # field /\ f \notin old.pending /\ f \notin rest /\ field \notin Diagnosed!Timing
          /\ ~(old.pending \subseteq Diagnosed!Timing) /\ rest # {} => ~(rest \subseteq Diagnosed!Timing)
      BY <1>1, <2>1, <2>2, <2>4
    <3> QED BY <2>1, <2>2, <3>1 DEF Owes, Ahead
  <2> QED BY <1>4, <2>3, <2>4
<1>11. \A f \in Sums :
         /\ begun'[f] - counters'[f] = begun[f] - counters[f] - Owes(old, f) + Owes(rec, f)
         /\ counters'[f] - finished'[f] = counters[f] - finished[f] - Ahead(old, f) + Ahead(rec, f)
  <2> SUFFICES ASSUME NEW f \in Sums
               PROVE  /\ begun'[f] - counters'[f] = begun[f] - counters[f] - Owes(old, f) + Owes(rec, f)
                      /\ counters'[f] - finished'[f] = counters[f] - finished[f] - Ahead(old, f) + Ahead(rec, f)
    OBVIOUS
  <2>1. /\ counters[f] \in Nat /\ begun[f] \in Nat /\ finished[f] \in Nat /\ Amount(f, value) \in Nat
        /\ begun' = begun
    BY <1>1, <1>9
  <2>2. /\ counters'[f] = counters[f] + (IF f = field THEN Amount(f, value) ELSE 0)
        /\ finished'[f] = finished[f] + (IF ended /\ field \in Diagnosed!Timing THEN Amount(f, value) ELSE 0)
    BY <1>7, <1>8
  <2> HIDE DEF rec, ended
  <2> QED BY <1>10, <2>1, <2>2
<1>12. SumsOwed'
  <2>1. old = recorders[r]
    BY DEF old
  <2>2. begun' \in Values
    BY <1>1, <1>2
  <2> HIDE DEF rec, ended
  <2> QED BY <1>3, <1>5, <1>7, <1>8, <1>11, <2>1, <2>2, SumsMoved
<1>13. ASSUME NEW f \in Peaks
       PROVE  /\ finished'[f] <= counters'[f] /\ counters'[f] <= begun[f] /\ counters[f] <= counters'[f]
              /\ f = field => value <= counters'[f]
  <2>1. /\ counters[f] \in Nat /\ begun[f] \in Nat /\ finished[f] \in Nat
        /\ finished[f] <= counters[f] /\ counters[f] <= begun[f]
    BY <1>2, <1>9 DEF PeaksOwed
  <2>2. counters'[f] = (IF f = field THEN Diagnosed!Larger(counters[f], value) ELSE counters[f])
    BY <1>7
  <2>3. GroupOf(field) = GroupOf(f) =>
          value <= begun[f] /\ (f \notin old.pending => value <= counters[f])
    <3>1. old.pending # {} /\ old.pending \subseteq GroupOf(field)
      BY <1>1, <1>4 DEF GroupOf, Diagnosed!Timing, Diagnosed!Gauge
    <3> QED BY <1>2, <3>1 DEF PeaksOwed, old, value
  <2>4. counters[f] <= counters'[f] /\ counters'[f] <= begun[f] /\ (f = field => value <= counters'[f])
    <3>1. CASE f = field
      BY <1>3, <2>1, <2>2, <2>3, <3>1 DEF Diagnosed!Larger
    <3>2. CASE f # field
      BY <2>1, <2>2, <3>2
    <3> QED BY <3>1, <3>2
  <2>5. finished'[f] <= counters'[f]
    <3>1. CASE ended /\ GroupOf(field) = GroupOf(f)
      <4>1. finished'[f] = Diagnosed!Larger(finished[f], value)
        BY <1>8, <3>1
      <4>2. f \in old.pending => f = field
        BY <3>1 DEF rest
      <4>3. value <= counters'[f]
        BY <1>3, <1>9, <2>1, <2>3, <2>4, <3>1, <4>2
      <4> QED BY <1>9, <2>1, <2>4, <4>1, <4>3 DEF Diagnosed!Larger
    <3>2. CASE ~(ended /\ GroupOf(field) = GroupOf(f))
      <4>1. finished'[f] = finished[f]
        BY <1>8, <3>2
      <4> QED BY <1>9, <2>1, <2>4, <4>1
    <3> QED BY <3>1, <3>2
  <2> QED BY <2>4, <2>5
<1>14. PeaksOwed'
  <2> SUFFICES ASSUME NEW f \in Peaks, NEW x \in Recorders,
                      recorders'[x].pending # {}, recorders'[x].pending \subseteq GroupOf(f)
               PROVE  /\ recorders'[x].value <= begun[f]
                      /\ f \notin recorders'[x].pending => recorders'[x].value <= counters'[f]
    BY <1>1, <1>13 DEF PeaksOwed, GroupOf, Diagnosed!Timing, Diagnosed!Gauge
  <2>1. /\ counters[f] \in Nat /\ begun[f] \in Nat /\ counters'[f] \in Nat
        /\ counters[f] <= counters'[f]
    BY <1>9, <1>13
  <2>2. CASE x = r
    <3>1. recorders'[x].pending = rest /\ recorders'[x].value = value
      BY <1>2, <1>3, <2>2
    <3>2. old.pending # {} /\ old.pending \subseteq GroupOf(f)
      BY <1>1, <1>4, <3>1 DEF rest, GroupOf, Diagnosed!Timing, Diagnosed!Gauge
    <3>3. value <= begun[f] /\ (f \notin old.pending => value <= counters[f])
      BY <1>2, <3>2 DEF PeaksOwed, old, value
    <3>4. f \notin rest => f \notin old.pending \/ f = field
      BY DEF rest
    <3> QED BY <1>3, <1>13, <2>1, <3>1, <3>3, <3>4
  <2>3. CASE x # r
    <3>1. recorders'[x] = recorders[x] /\ recorders[x].value \in Nat
      BY <1>2, <1>3, <2>3 DEF Recordings
    <3>2. /\ recorders[x].value <= begun[f]
          /\ f \notin recorders[x].pending => recorders[x].value <= counters[f]
      BY <1>2, <3>1 DEF PeaksOwed
    <3> QED BY <2>1, <3>1, <3>2
  <2> QED BY <2>2, <2>3
<1>15. \A f \in Diagnosed!Cumulative : counters[f] <= counters'[f]
  <2> SUFFICES ASSUME NEW f \in Sums \union Peaks PROVE counters[f] <= counters'[f]
    BY DEF Diagnosed!Cumulative, Sums, Peaks, Diagnosed!Fields, Diagnosed!Timing, Diagnosed!Gauge
  <2>1. CASE f \in Sums
    BY <1>7, <1>9, <2>1
  <2>2. CASE f \in Peaks
    BY <1>13, <2>2
  <2> QED BY <2>1, <2>2
<1>16. SnapshotsBehind'
  BY <1>1, <1>7, <1>15, SnapshotsStay
<1> QED BY <1>1, <1>2, <1>3, <1>5, <1>7, <1>8, <1>12, <1>14, <1>16 DEF MetricInv

LEMMA OwedKept ==
  ASSUME SumsOwed, PeaksOwed, UNCHANGED <<counters, recorders, begun, finished>>
  PROVE  SumsOwed' /\ PeaksOwed'
<1>1. SumsOwed'
  <2> SUFFICES ASSUME NEW f \in Sums
               PROVE  /\ finished'[f] <= counters'[f] /\ counters'[f] <= begun'[f]
                      /\ Weighs([x \in Recorders |-> Owes(recorders'[x], f)], begun'[f] - counters'[f])
                      /\ Weighs([x \in Recorders |-> Ahead(recorders'[x], f)], counters'[f] - finished'[f])
    BY DEF SumsOwed, Weighs, Measures, Owes, Ahead, Amount
  <2> QED BY DEF SumsOwed
<1>2. PeaksOwed'
  BY DEF PeaksOwed, GroupOf, Diagnosed!Timing, Diagnosed!Gauge
<1> QED BY <1>1, <1>2

LEMMA MetricSnapshot ==
  ASSUME MetricInv,
         \/ Diagnosed!BeginSnapshot \/ Diagnosed!EndSnapshot
         \/ \E field \in Diagnosed!Fields : Diagnosed!Load(field)
  PROVE  MetricInv'
<1>1. /\ UNCHANGED <<counters, recorders, begun, finished>>
      /\ counters \in Values /\ begun \in Values /\ finished \in Values /\ taken \in Values
      /\ recorders \in [Recorders -> Recordings] /\ (taking # None => taking \in Takings)
      /\ SumsOwed /\ PeaksOwed /\ SnapshotsBehind
  BY DEF MetricInv, Diagnosed!BeginSnapshot, Diagnosed!EndSnapshot, Diagnosed!Load
<1>2. SumsOwed' /\ PeaksOwed'
  BY <1>1, OwedKept
<1>3. \A f \in Diagnosed!Cumulative : /\ f \in Diagnosed!Fields /\ f \in Sums \union Peaks
                                      /\ counters[f] \in Nat /\ taken[f] \in Nat /\ finished[f] \in Nat
                                      /\ finished[f] <= counters[f] /\ taken[f] <= counters[f]
  <2>1. Diagnosed!Cumulative \subseteq Diagnosed!Fields /\ Diagnosed!Cumulative = Sums \union Peaks
    BY DEF Diagnosed!Cumulative, Sums, Peaks, Diagnosed!Fields, Diagnosed!Timing, Diagnosed!Gauge
  <2> QED BY <1>1, <2>1 DEF Values, SumsOwed, PeaksOwed, SnapshotsBehind
<1>4. CASE Diagnosed!BeginSnapshot
  <2> DEFINE floor == [f \in Diagnosed!Fields |-> Diagnosed!Larger(finished[f], taken[f])]
  <2>1. taking' = [read |-> {}, values |-> Diagnosed!Zeroed, floor |-> floor] /\ taken' = taken
    BY <1>4 DEF Diagnosed!BeginSnapshot
  <2>2. floor \in Values /\ Diagnosed!Zeroed \in Values
    BY <1>1 DEF Values, Diagnosed!Larger, Diagnosed!Zeroed
  <2>3. \A f \in Diagnosed!Cumulative : floor[f] <= counters[f]
    BY <1>3 DEF Diagnosed!Larger
  <2> HIDE DEF floor
  <2>4. taking' \in Takings /\ taking'.read = {} /\ taking'.floor = floor
    BY <2>1, <2>2 DEF Takings
  <2>5. SnapshotsBehind'
    BY <1>1, <1>3, <2>1, <2>3, <2>4 DEF SnapshotsBehind
  <2> QED BY <1>1, <1>2, <2>1, <2>4, <2>5 DEF MetricInv
<1>5. ASSUME NEW field \in Diagnosed!Fields, Diagnosed!Load(field) PROVE MetricInv'
  <2>1. /\ taking # None /\ taken' = taken /\ taking \in Takings
        /\ taking' = [taking EXCEPT !.read = @ \union {field}, !.values[field] = counters[field]]
    BY <1>1, <1>5 DEF Diagnosed!Load
  <2>2. counters[field] \in Nat /\ taking.values \in Values
    BY <1>1, <2>1 DEF Values, Takings
  <2>3. /\ taking' \in Takings /\ taking'.read = taking.read \union {field} /\ taking'.floor = taking.floor
        /\ \A f \in Diagnosed!Fields :
             taking'.values[f] = IF f = field THEN counters[f] ELSE taking.values[f]
    BY <2>1, <2>2 DEF Takings, Values
  <2>4. \A f \in Diagnosed!Cumulative :
          /\ taking.floor[f] <= counters[f]
          /\ f \in taking.read => taking.floor[f] <= taking.values[f] /\ taking.values[f] <= counters[f]
    BY <1>1, <2>1 DEF SnapshotsBehind
  <2>5. \A f \in Diagnosed!Cumulative :
          /\ taking'.floor[f] <= counters[f]
          /\ f \in taking'.read => taking'.floor[f] <= taking'.values[f] /\ taking'.values[f] <= counters[f]
    BY <1>3, <2>3, <2>4
  <2>6. SnapshotsBehind'
    BY <1>1, <1>3, <2>1, <2>5 DEF SnapshotsBehind
  <2> QED BY <1>1, <1>2, <2>1, <2>3, <2>6 DEF MetricInv
<1>6. CASE Diagnosed!EndSnapshot
  <2>1. /\ taking # None /\ taking.read = Diagnosed!Fields /\ taken' = taking.values /\ taking' = None
        /\ taking \in Takings
    BY <1>1, <1>6 DEF Diagnosed!EndSnapshot
  <2>2. taken' \in Values /\ \A f \in Diagnosed!Cumulative : taken'[f] <= counters[f]
    BY <1>1, <1>3, <2>1 DEF Takings, SnapshotsBehind
  <2>3. SnapshotsBehind'
    BY <1>1, <2>1, <2>2 DEF SnapshotsBehind
  <2> QED BY <1>1, <1>2, <2>1, <2>2, <2>3 DEF MetricInv
<1> QED BY <1>4, <1>5, <1>6

LEMMA MetricStep == MetricInv /\ Diagnosed!MetricNext => MetricInv'
<1> SUFFICES ASSUME MetricInv, Diagnosed!MetricNext PROVE MetricInv'
  OBVIOUS
<1>1. CASE \E r \in Recorders : \/ \E ns \in Durations : Diagnosed!Begin(r, Diagnosed!Timing, ns)
                                \/ \E n \in Occupancies : Diagnosed!Begin(r, Diagnosed!Gauge, n)
  <2>1. \E r \in Recorders, value \in Nat, fields \in {Diagnosed!Timing, Diagnosed!Gauge} :
          Diagnosed!Begin(r, fields, value)
    BY <1>1, ControlPlaneAssumption
  <2> QED BY <2>1, MetricBegin
<1>2. CASE \E r \in Recorders, field \in Diagnosed!Fields : Diagnosed!Update(r, field)
  BY <1>2, MetricUpdate
<1>3. CASE \/ Diagnosed!BeginSnapshot \/ Diagnosed!EndSnapshot
           \/ \E field \in Diagnosed!Fields : Diagnosed!Load(field)
  BY <1>3, MetricSnapshot
<1> QED BY <1>1, <1>2, <1>3 DEF Diagnosed!MetricNext

LEMMA MetricKept == MetricInv /\ UNCHANGED metricVars => MetricInv'
<1> SUFFICES ASSUME MetricInv, UNCHANGED metricVars PROVE MetricInv'
  OBVIOUS
<1>1. UNCHANGED <<counters, recorders, begun, finished, taking, taken>>
  BY DEF metricVars
<1>2. SumsOwed' /\ PeaksOwed'
  BY <1>1, OwedKept DEF MetricInv
<1>3. SnapshotsBehind'
  BY <1>1 DEF MetricInv, SnapshotsBehind
<1> QED BY <1>1, <1>2, <1>3 DEF MetricInv

LEMMA MetricBracketed ==
  ASSUME MetricInv
  PROVE  Diagnosed!SnapshotBracketed
<1> SUFFICES ASSUME taking # None, NEW f \in Diagnosed!Cumulative \intersect taking.read
             PROVE  taking.floor[f] <= taking.values[f] /\ taking.values[f] <= begun[f]
  BY DEF Diagnosed!SnapshotBracketed
<1>1. taking.floor[f] <= taking.values[f] /\ taking.values[f] <= counters[f]
  BY DEF MetricInv, SnapshotsBehind
<1>2. f \in Diagnosed!Fields /\ f \in Sums \union Peaks
  BY DEF Diagnosed!Cumulative, Sums, Peaks, Diagnosed!Fields, Diagnosed!Timing, Diagnosed!Gauge
<1>3. /\ counters[f] <= begun[f] /\ counters[f] \in Nat /\ begun[f] \in Nat
      /\ taking.values[f] \in Nat
  BY <1>2 DEF MetricInv, SumsOwed, PeaksOwed, Values, Takings
<1> QED BY <1>1, <1>3

\* aurora-diagnostics: the log holds the newest events that were admitted and counts all
\* others, nothing claims a measurement it does not document, and however many threads
\* record while a snapshot is taken, it misses nothing that had been recorded when it began
\* and counts nothing that had not begun.
THEOREM DiagnosticsSafety == MCSpec => []DiagnosticsSound
<1>1. LogInv /\ MetricInv /\ [MCNext]_mcVars => LogInv' /\ MetricInv'
  BY LogStep, LogKept, MetricStep, MetricKept DEF MCNext, mcVars, RegistryMoves, ManagerMoves,
     LiveMoves, SetupMoves, DaemonMoves, DeviceMoves, LogMoves, MetricMoves
<1>2. LogInv /\ MetricInv => DiagnosticsSound
  BY LogDocumented, MetricBracketed DEF LogInv, DiagnosticsSound
<1> QED BY <1>1, <1>2, LogInit, MetricInit, PTL DEF MCSpec

=============================================================================
