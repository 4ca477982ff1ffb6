--------------------------- MODULE PluginRegistry ---------------------------
(***************************************************************************)
(* The registry of application-plugin packages of aurora-plugin-host and   *)
(* the manifest contract of aurora-plugin-api.  A slot holds the active    *)
(* package, a staged candidate, the target of a rollback and the digest    *)
(* remembered for every version ever admitted.  A snapshot of the registry *)
(* is the only thing that survives a restart; the host that restores it    *)
(* may offer another API than the one that wrote it.                       *)
(*                                                                         *)
(* Abstraction: a manifest is its API range and whether its other fields   *)
(* (schema, names, entrypoint, capability and permission lists) are well   *)
(* formed; a digest is a name for the bytes of a package.                  *)
(***************************************************************************)
EXTENDS Naturals, Functions

CONSTANTS Plugins, Versions, Digests, HostApis, None,
          Offered    \* the packages anyone ever tries to stage

\* PluginManifest and PluginPackageRecord.
Manifests == [wellFormed : BOOLEAN, minMinor : HostApis, maxMinor : HostApis]
Packages == [version : Versions, digest : Digests, manifest : Manifests]

VARIABLES hostApi,    \* minor version of the host API of the running registry
          slots,      \* PluginRegistry::slots
          disk,       \* the last snapshot that was persisted
          committed   \* history: the packages an operator committed, per plugin

regVars == <<hostApi, slots, disk, committed>>

EmptySlot == [active |-> None, staged |-> None, rollback |-> None, known |-> <<>>]

\* PluginSlot.
KnownDigests == UNION {[known -> Digests] : known \in SUBSET Versions}
Slots == [active : Packages \union {None}, staged : Packages \union {None},
          rollback : Packages \union {None}, known : KnownDigests]

TypeOK ==
  /\ hostApi \in HostApis
  /\ slots \in [Plugins -> Slots] /\ disk \in [Plugins -> Slots]
  /\ committed \in [Plugins -> SUBSET Packages]

Init ==
  /\ hostApi \in HostApis
  /\ slots = [p \in Plugins |-> EmptySlot]
  /\ disk = slots
  /\ committed = [p \in Plugins |-> {}]

-----------------------------------------------------------------------------

\* ApiCompatibility::accepts.
Accepts(m, host) == m.minMinor <= host /\ host <= m.maxMinor

\* PluginManifest::validate_for_host, the checks of one manifest against a host.
ValidateForHost(m, host) ==
  /\ m.wellFormed
  /\ m.minMinor <= m.maxMinor
  /\ Accepts(m, host)

\* same_package.
SamePackage(known, pkg) ==
  /\ known # None
  /\ known.version = pkg.version
  /\ known.digest = pkg.digest

\* Mutant: any bytes for a known version.
KnownVersionIgnored(slot, pkg) == TRUE

\* ensure_known_version_consistency.
KnownVersionConsistent(slot, pkg) ==
  pkg.version \in DOMAIN slot.known => slot.known[pkg.version] = pkg.digest

\* BTreeMap::entry(version).or_insert_with(digest).
Remember(known, pkg) ==
  [v \in DOMAIN known \union {pkg.version} |->
     IF v \in DOMAIN known THEN known[v] ELSE pkg.digest]

\* PluginRegistry::stage.
Stage(p, pkg) ==
  /\ ValidateForHost(pkg.manifest, hostApi)
  /\ KnownVersionConsistent(slots[p], pkg)
  /\ ~SamePackage(slots[p].active, pkg)
  /\ slots[p].staged = None
  /\ slots' = [slots EXCEPT ![p].known = Remember(@, pkg), ![p].staged = pkg]
  /\ UNCHANGED <<hostApi, disk, committed>>

\* PluginRegistry::commit_staged.
CommitStaged(p) ==
  /\ slots[p].staged # None
  /\ slots' = [slots EXCEPT ![p].staged = None,
                            ![p].active = slots[p].staged,
                            ![p].rollback = slots[p].active]
  /\ committed' = [committed EXCEPT ![p] = @ \union {slots[p].staged}]
  /\ UNCHANGED <<hostApi, disk>>

\* Mutant: the identity of the candidate is forgotten, too.
DiscardForgets(p) ==
  /\ slots[p].staged # None
  /\ slots' = [slots EXCEPT ![p].staged = None,
                            ![p].known = Restrict(@, DOMAIN @ \ {slots[p].staged.version})]
  /\ UNCHANGED <<hostApi, disk, committed>>

\* PluginRegistry::discard_staged.
DiscardStaged(p) ==
  /\ slots[p].staged # None
  /\ slots' = [slots EXCEPT ![p].staged = None]
  /\ UNCHANGED <<hostApi, disk, committed>>

\* Mutant: a staged candidate is taken for the target.
RollbackToStaged(p) ==
  /\ slots[p].rollback # None
  /\ slots' = [slots EXCEPT ![p].staged = None,
                            ![p].active = IF slots[p].staged # None THEN slots[p].staged
                                          ELSE slots[p].rollback,
                            ![p].rollback = slots[p].active]
  /\ UNCHANGED <<hostApi, disk, committed>>

\* PluginRegistry::rollback.
Rollback(p) ==
  /\ slots[p].rollback # None
  /\ slots' = [slots EXCEPT ![p].staged = None,
                            ![p].active = slots[p].rollback,
                            ![p].rollback = slots[p].active]
  /\ UNCHANGED <<hostApi, disk, committed>>

\* PluginRegistry::snapshot, persisted by the layer above.
Persist == disk' = slots /\ UNCHANGED <<hostApi, slots, committed>>

\* validate_restored_slot; a slot that was never used is not in the snapshot.
RestoredSlotValid(host, slot) ==
  /\ \A pkg \in {slot.active, slot.staged, slot.rollback} \ {None} :
       /\ ValidateForHost(pkg.manifest, host)
       /\ pkg.version \in DOMAIN slot.known
       /\ slot.known[pkg.version] = pkg.digest
  /\ slot.active = None \/ slot.active # slot.staged

\* The process ends at any moment and a host with API `host' restores the last
\* snapshot (PluginRegistry::from_snapshot).  A refused snapshot is not installed:
\* the process does not come up and the snapshot stays where it is.
Restart(host) ==
  /\ \A p \in Plugins : RestoredSlotValid(host, disk[p])
  /\ hostApi' = host
  /\ slots' = disk
  /\ UNCHANGED <<disk, committed>>

Next ==
  \/ \E p \in Plugins : \/ \E pkg \in Offered : Stage(p, pkg)
                        \/ CommitStaged(p)
                        \/ DiscardStaged(p)
                        \/ Rollback(p)
  \/ Persist
  \/ \E host \in HostApis : Restart(host)

Spec == Init /\ [][Next]_regVars

-----------------------------------------------------------------------------

(* Whatever was staged, committed, discarded, rolled back or restored before, *)
(* a snapshot taken now would be restored by the host that took it:           *)
(* validate_restored_slot accepts every slot the operations can produce.      *)
SnapshotRestorable == \A p \in Plugins : RestoredSlotValid(hostApi, slots[p])

(* "Once a (plugin ID, package version) is admitted, its digest is remembered *)
(* permanently by this registry snapshot and may not change" (stage): the     *)
(* running registry never contradicts or forgets an identity on disk, so that *)
(* a restart cannot turn one version into other bytes.                        *)
IdentityPermanent ==
  \A p \in Plugins, v \in Versions :
    v \in DOMAIN disk[p].known =>
      /\ v \in DOMAIN slots[p].known
      /\ slots[p].known[v] = disk[p].known[v]

(* "rollback cannot accidentally activate a package that was only staged":    *)
(* what is active, or one rollback away from it, was committed explicitly.    *)
ActiveWasCommitted ==
  \A p \in Plugins : {slots[p].active, slots[p].rollback} \ {None} \subseteq committed[p]

=============================================================================
