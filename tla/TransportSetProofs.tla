------------------------- MODULE TransportSetProofs -------------------------
(***************************************************************************)
(* Proofs about the transport set, for every number of routes, every mix   *)
(* of transport implementations, every queue capacity and every pattern of *)
(* native failures.                                                        *)
(***************************************************************************)
EXTENDS TransportSet, TLAPS

\* The inductive invariant.  NoStraggler is what start and prepare rely on,
\* TimelineShared what the routes' own checks rely on.
SetInv == TypeOK /\ NoStraggler /\ InStep /\ TimelineShared

\* A new set satisfies the invariant.
LEMMA InitSetInv == Init => SetInv
<1> SUFFICES ASSUME Init PROVE SetInv
  OBVIOUS
<1>1. TypeOK
  BY TransportSetAssumption DEF Init, TypeOK, Transports, MaybeTime, Times, Silent
<1>2. NoStraggler /\ InStep /\ TimelineShared
  BY DEF Init, NoStraggler, InStep, TimelineShared
<1> QED BY <1>1, <1>2 DEF SetInv

\* What the transports of a reset look like: typed and not started, so a method
\* that resets every route leaves no straggler and no timeline.
LEMMA ResetOne ==
  ASSUME NEW s \in Transports
  PROVE  /\ ResetOf(s) \in Transports /\ ResetOf(s).life # "started"
         /\ ResetOf(s).expected = Absent
BY TransportSetAssumption DEF ResetOf, Transports, MaybeTime

\* The other transport states a method can produce are typed.
LEMMA PreparedOne == Prepared \in Transports /\ Prepared.life = "prepared"
                     /\ ResetOf(Prepared) \in Transports /\ ResetOf(Prepared).life = "prepared"
BY TransportSetAssumption DEF Prepared, ResetOf, Transports, MaybeTime

\* A started transport is typed and begins without a timeline.
LEMMA StartedOne ==
  ASSUME NEW s \in Transports
  PROVE  /\ Started(s) \in Transports /\ Started(s).expected = Absent
         /\ ResetOf(Started(s)) \in Transports /\ ResetOf(Started(s)).life # "started"
<1>1. Started(s) \in Transports /\ Started(s).expected = Absent
  BY DEF Started, Transports, MaybeTime
<1> QED BY <1>1, ResetOne

\* An accepted block moves a route's timeline to the block's successor.
LEMMA SubmittedOne ==
  ASSUME TypeOK, NEW r \in Routes, NEW t \in Times, t <= LastTime, NEW bad, CanSubmit(r, t, bad)
  PROVE  /\ Submitted(r, t) \in Transports
         /\ Kind[r] = "genavb" => Submitted(r, t).expected = t + 1
<1>1. tr[r] \in Transports
  BY DEF TypeOK
<1>2. CASE Kind[r] = "sim"
  <2>1. tr[r].queue + 1 \in 0 .. QueueCap
    BY <1>1, <1>2, TransportSetAssumption DEF CanSubmit, Transports
  <2> QED BY <1>1, <1>2, <2>1 DEF Submitted, Transports
<1>3. CASE Kind[r] = "genavb"
  <2>1. t + 1 \in MaybeTime
    BY TransportSetAssumption DEF MaybeTime, Times
  <2> QED BY <1>1, <1>3, <2>1 DEF Submitted, Transports
<1> QED BY <1>2, <1>3, TransportSetAssumption DEF Kinds

-----------------------------------------------------------------------------
\* prepare leaves a set that is not started, with no started transport.
LEMMA PrepareStep == ASSUME SetInv, Prepare \/ PrepareFailed PROVE SetInv'
<1>1. life # "started" /\ life' \in {"new", "prepared"} /\ next' = Absent /\ UNCHANGED <<heard, now>>
  BY DEF Prepare, PrepareFailed
<1>2. tr' \in [Routes -> Transports] /\ \A r \in Routes : tr'[r].life # "started"
  <2>1. CASE Prepare
    BY <2>1, PreparedOne DEF Prepare
  <2>2. CASE PrepareFailed
    <3>1. PICK f \in Routes :
            tr' = [r \in Routes |-> IF r < f THEN ResetOf(Prepared) ELSE tr[r]]
      BY <2>2 DEF PrepareFailed
    <3>2. tr \in [Routes -> Transports] /\ \A r \in Routes : tr[r].life # "started"
      BY <1>1 DEF SetInv, TypeOK, NoStraggler
    <3> QED BY <3>1, <3>2, PreparedOne
  <2> QED BY <2>1, <2>2
<1>3. TypeOK'
  BY <1>1, <1>2 DEF SetInv, TypeOK, MaybeTime
<1>4. NoStraggler' /\ InStep' /\ TimelineShared'
  BY <1>1, <1>2 DEF NoStraggler, InStep, TimelineShared
<1> QED BY <1>3, <1>4 DEF SetInv

\* start either starts every route on a fresh timeline or none.
LEMMA StartStep == ASSUME SetInv, Start \/ StartFailed PROVE SetInv'
<1>0. tr \in [Routes -> Transports] /\ heard \in [Routes -> MaybeTime] /\ now \in Times
  BY DEF SetInv, TypeOK
<1>1. CASE Start
  <2>1. /\ tr' = [r \in Routes |-> Started(tr[r])]
        /\ next' = Absent /\ life' = "started" /\ heard' = Silent /\ now' = now
    BY <1>1 DEF Start
  <2>2. tr' \in [Routes -> Transports] /\ \A r \in Routes : tr'[r].expected = Absent
    BY <1>0, <2>1, StartedOne
  <2>3. TypeOK'
    BY <1>0, <2>1, <2>2 DEF TypeOK, MaybeTime, Silent
  <2>4. NoStraggler' /\ InStep' /\ TimelineShared'
    BY <2>1, <2>2 DEF NoStraggler, InStep, TimelineShared, Silent
  <2> QED BY <2>3, <2>4 DEF SetInv
<1>2. CASE StartFailed
  <2>1. PICK f \in Routes :
          tr' = [r \in Routes |-> IF r < f THEN ResetOf(Started(tr[r])) ELSE tr[r]]
    BY <1>2 DEF StartFailed
  <2>2. life = "prepared" /\ next' = Absent /\ UNCHANGED <<life, heard, now>>
    BY <1>2 DEF StartFailed
  <2>3. \A r \in Routes : tr[r].life # "started"
    BY <2>2 DEF SetInv, NoStraggler
  <2>4. tr' \in [Routes -> Transports] /\ \A r \in Routes : tr'[r].life # "started"
    BY <1>0, <2>1, <2>3, StartedOne
  <2>5. TypeOK'
    BY <1>0, <2>2, <2>4 DEF SetInv, TypeOK, MaybeTime
  <2>6. NoStraggler' /\ InStep' /\ TimelineShared'
    BY <2>2, <2>4 DEF NoStraggler, InStep, TimelineShared
  <2> QED BY <2>5, <2>6 DEF SetInv
<1> QED BY <1>1, <1>2

\* A submitted block reaches every route, none, or stops them all.
LEMMA SubmitStep == ASSUME SetInv, SubmitRefused \/ Submit \/ SubmitAborted PROVE SetInv'
<1>0. /\ tr \in [Routes -> Transports] /\ heard \in [Routes -> MaybeTime]
      /\ now \in Times /\ next \in MaybeTime /\ life = "started"
  BY DEF SetInv, TypeOK, SubmitRefused, Submit, SubmitAborted
<1>00. ASSUME NEW t \in Times, Input(t) PROVE now' \in Times
  BY <1>00, TransportSetAssumption DEF Input, Times
<1>1. CASE SubmitRefused
  <2>1. now' \in Times /\ UNCHANGED <<life, next, tr, heard>>
    BY <1>1, <1>00 DEF SubmitRefused
  <2>2. TypeOK'
    BY <1>0, <2>1 DEF SetInv, TypeOK
  <2>3. NoStraggler' /\ InStep' /\ TimelineShared'
    BY <2>1 DEF SetInv, NoStraggler, InStep, TimelineShared
  <2> QED BY <2>2, <2>3 DEF SetInv
<1>2. CASE Submit
  <2>1. PICK t \in Times, bad \in SUBSET Routes :
          /\ Input(t) /\ Splits(t) /\ \A r \in Routes : CanSubmit(r, t, bad)
          /\ tr' = [r \in Routes |-> Submitted(r, t)]
          /\ next' = t + 1 /\ heard' = [r \in Routes |-> t] /\ life' = life
    BY <1>2 DEF Submit
  <2>2. t <= LastTime /\ t + 1 \in MaybeTime /\ t \in MaybeTime
    BY <2>1, TransportSetAssumption DEF Splits, MaybeTime, Times
  <2>3. TypeOK
    BY DEF SetInv
  <2>4. \A r \in Routes : /\ Submitted(r, t) \in Transports
                          /\ Kind[r] = "genavb" => Submitted(r, t).expected = t + 1
    BY <2>1, <2>2, <2>3, SubmittedOne
  <2>5. tr' \in [Routes -> Transports] /\ heard' \in [Routes -> MaybeTime]
    BY <2>1, <2>2, <2>4
  <2>6. TypeOK'
    BY <1>0, <1>00, <2>1, <2>2, <2>5 DEF TypeOK
  <2>7. NoStraggler' /\ InStep'
    BY <1>0, <2>1 DEF NoStraggler, InStep
  <2>8. TimelineShared'
    BY <2>1, <2>4 DEF TimelineShared
  <2> QED BY <2>6, <2>7, <2>8 DEF SetInv
<1>3. CASE SubmitAborted
  <2>1. PICK t \in Times, f \in Routes :
          Input(t) /\ heard' = [r \in Routes |-> IF r < f THEN t ELSE heard[r]]
    BY <1>3 DEF SubmitAborted
  <2>2. tr' = [r \in Routes |-> ResetOf(tr[r])] /\ next' = Absent /\ life' = "new"
    BY <1>3 DEF SubmitAborted
  <2>3. tr' \in [Routes -> Transports] /\ \A r \in Routes : tr'[r].life # "started"
    BY <1>0, <2>2, ResetOne
  <2>4. heard' \in [Routes -> MaybeTime]
    BY <1>0, <2>1 DEF MaybeTime
  <2>5. TypeOK'
    BY <1>00, <2>1, <2>2, <2>3, <2>4 DEF TypeOK, MaybeTime
  <2>6. NoStraggler' /\ InStep' /\ TimelineShared'
    BY <2>2, <2>3 DEF NoStraggler, InStep, TimelineShared
  <2> QED BY <2>5, <2>6 DEF SetInv
<1> QED BY <1>1, <1>2, <1>3

\* stop and reset leave no transport started and no timeline on either side.
LEMMA ResetStep == ASSUME SetInv, Stop \/ Reset PROVE SetInv'
<1>0. /\ tr \in [Routes -> Transports] /\ life \in {"new", "prepared", "started"}
      /\ heard \in [Routes -> MaybeTime] /\ now \in Times
  BY DEF SetInv, TypeOK
<1>1. /\ tr' = [r \in Routes |-> ResetOf(tr[r])] /\ next' = Absent
      /\ life' \in {life, "prepared"} /\ UNCHANGED <<heard, now>>
  BY DEF Stop, Reset
<1>2. /\ tr' \in [Routes -> Transports]
      /\ \A r \in Routes : tr'[r].life # "started" /\ tr'[r].expected = Absent
  BY <1>0, <1>1, ResetOne
<1>3. TypeOK'
  BY <1>0, <1>1, <1>2 DEF TypeOK, MaybeTime
<1>4. NoStraggler' /\ InStep' /\ TimelineShared'
  BY <1>1, <1>2 DEF SetInv, NoStraggler, InStep, TimelineShared
<1> QED BY <1>3, <1>4 DEF SetInv

\* A draining queue touches neither lifecycle nor timeline.
LEMMA DrainStep == ASSUME SetInv, DrainOne PROVE SetInv'
<1>1. PICK q \in Routes : /\ tr[q].queue > 0
                          /\ tr' = [tr EXCEPT ![q].queue = @ - 1]
  BY DEF DrainOne
<1>2. UNCHANGED <<life, next, heard, now>> /\ tr \in [Routes -> Transports]
  BY DEF DrainOne, SetInv, TypeOK
<1>3. tr[q].queue - 1 \in 0 .. QueueCap
  BY <1>1, <1>2, TransportSetAssumption DEF Transports
<1>4. /\ tr' \in [Routes -> Transports]
      /\ \A r \in Routes : tr'[r].life = tr[r].life /\ tr'[r].expected = tr[r].expected
  BY <1>1, <1>2, <1>3 DEF Transports
<1>5. TypeOK'
  BY <1>2, <1>4 DEF SetInv, TypeOK
<1>6. NoStraggler' /\ InStep' /\ TimelineShared'
  BY <1>2, <1>4 DEF SetInv, NoStraggler, InStep, TimelineShared
<1> QED BY <1>5, <1>6 DEF SetInv

\* A step that changes nothing keeps the invariant.
LEMMA StutterStep == ASSUME SetInv, UNCHANGED vars PROVE SetInv'
BY DEF SetInv, vars, TypeOK, NoStraggler, InStep, TimelineShared

-----------------------------------------------------------------------------
\* No method of the set, whichever calls fail in it, breaks the invariant.
LEMMA SetStep == SetInv /\ [Next]_vars => SetInv'
BY PrepareStep, StartStep, SubmitStep, ResetStep, DrainStep, StutterStep DEF Next

\* The invariant holds in every reachable state.
THEOREM SetInvariant == Spec => []SetInv
BY InitSetInv, SetStep, PTL DEF Spec

\* No failure of any route in any method leaves a transport running when the
\* set is not: prepare, start and submit are all or nothing.
THEOREM SetNoStraggler == Spec => []NoStraggler
<1>1. SetInv => NoStraggler
  BY DEF SetInv
<1> QED BY <1>1, SetInvariant, PTL

\* The modules of a started set have all taken the same blocks.
THEOREM SetInStep == Spec => []InStep
<1>1. SetInv => InStep
  BY DEF SetInv
<1> QED BY <1>1, SetInvariant, PTL

\* The fan-out and the transports agree on the next block of a started set.
THEOREM SetTimelineShared == Spec => []TimelineShared
<1>1. SetInv => TimelineShared
  BY DEF SetInv
<1> QED BY <1>1, SetInvariant, PTL

\* SetSafe: for any number and kind of routes, whichever call fails, the set
\* starts, submits and stops its transports as one.
THEOREM SetSafety == Spec => []SetSafe
<1>1. SetInv => SetSafe
  BY DEF SetInv, SetSafe
<1> QED BY <1>1, SetInvariant, PTL

-----------------------------------------------------------------------------
\* Why no gap is heard: what a route of a started set heard last is followed
\* by the block the fan-out expects, and a set whose fan-out was reset has a
\* first route that takes no block at all.
HeardFollows ==
  life = "started" =>
    \A r \in Routes : heard[r] # Absent =>
      next = heard[r] + 1 \/ (next = Absent /\ tr[1].life # "started")

\* A block that any route takes is the successor of the one it heard before.
LEMMA TakenFollows ==
  ASSUME SetInv, HeardFollows, life = "started", NEW t \in Times, Splits(t),
         NEW bad, CanSubmit(1, t, bad), NEW r \in Routes, heard[r] # Absent
  PROVE  t = heard[r] + 1
<1>1. next \in {Absent, t} /\ tr[1].life = "started"
  BY DEF Splits, CanSubmit
<1>2. next = heard[r] + 1
  BY <1>1 DEF HeardFollows
<1>3. heard[r] + 1 \in Nat
  BY TransportSetAssumption DEF SetInv, TypeOK, MaybeTime, Times
<1> QED BY <1>1, <1>2, <1>3, TransportSetAssumption

\* A failing submission that reached some route was taken by the first one.
LEMMA FirstTakes ==
  ASSUME SubmitAborted
  PROVE  \E t \in Times, bad \in SUBSET Routes, f \in Routes :
           /\ Splits(t) /\ heard' = [r \in Routes |-> IF r < f THEN t ELSE heard[r]]
           /\ f # 1 => CanSubmit(1, t, bad)
<1>1. PICK t \in Times, bad \in SUBSET Routes, f \in Routes :
        /\ Splits(t) /\ FirstFailing(f, {r \in Routes : CanSubmit(r, t, bad)})
        /\ heard' = [r \in Routes |-> IF r < f THEN t ELSE heard[r]]
  BY DEF SubmitAborted
<1>2. f # 1 => 1 \in 1 .. f - 1
  BY DEF Routes
<1>3. f # 1 => CanSubmit(1, t, bad)
  BY <1>1, <1>2 DEF FirstFailing
<1> QED BY <1>1, <1>3

\* HeardFollows survives every step.
LEMMA FollowsStep == ASSUME SetInv, HeardFollows, [Next]_vars PROVE HeardFollows'
<1>0. tr \in [Routes -> Transports] /\ 1 \in Routes /\ heard \in [Routes -> MaybeTime]
  BY TransportSetAssumption DEF SetInv, TypeOK, Routes
<1>1. CASE Prepare \/ PrepareFailed \/ StartFailed \/ SubmitAborted \/ Stop
  <2>1. life' # "started"
    BY <1>1 DEF Prepare, PrepareFailed, StartFailed, SubmitAborted, Stop
  <2> QED BY <2>1 DEF HeardFollows
<1>2. CASE Start
  <2>1. \A r \in Routes : heard'[r] = Absent
    BY <1>2 DEF Start, Silent
  <2> QED BY <2>1 DEF HeardFollows
<1>3. CASE Submit
  <2>1. \A r \in Routes : next' = heard'[r] + 1
    BY <1>3 DEF Submit
  <2> QED BY <2>1 DEF HeardFollows
<1>4. CASE Reset
  <2>1. tr'[1].life # "started" /\ next' = Absent
    BY <1>0, <1>4, ResetOne DEF Reset
  <2> QED BY <2>1 DEF HeardFollows
<1>5. CASE SubmitRefused \/ DrainOne \/ UNCHANGED vars
  <2>1. UNCHANGED <<life, next, heard>> /\ tr'[1].life = tr[1].life
    <3>1. CASE SubmitRefused \/ UNCHANGED vars
      BY <3>1 DEF SubmitRefused, vars
    <3>2. CASE DrainOne
      BY <1>0, <3>2 DEF DrainOne, Transports
    <3> QED BY <1>5, <3>1, <3>2
  <2> QED BY <2>1 DEF HeardFollows
<1> QED BY <1>1, <1>2, <1>3, <1>4, <1>5 DEF Next

\* NoGapHeard for every number and mix of routes: whichever calls fail and
\* however the set is stopped, reset or aborted, a module never hears a block
\* other than the next one of its stream.
THEOREM SetNoGap == Spec => NoGapHeard
<1> DEFINE Continuous ==
             \A r \in Routes : heard'[r] \notin {heard[r], Absent} /\ heard[r] # Absent
               => heard'[r] = heard[r] + 1
<1>1. Init => HeardFollows
  BY DEF Init, HeardFollows
<1>2. SetInv /\ HeardFollows /\ [Next]_vars => HeardFollows'
  BY FollowsStep
<1>3. ASSUME SetInv, HeardFollows, [Next]_vars PROVE [Continuous]_vars
  <2> SUFFICES ASSUME Next PROVE Continuous
    BY <1>3
  <2>0. 1 \in Routes
    BY TransportSetAssumption DEF Routes
  <2>1. CASE Submit
    <3>1. PICK t \in Times, bad \in SUBSET Routes :
            /\ life = "started" /\ Splits(t) /\ CanSubmit(1, t, bad)
            /\ heard' = [r \in Routes |-> t]
      BY <2>0, <2>1 DEF Submit
    <3> QED BY <1>3, <3>1, TakenFollows
  <2>2. CASE SubmitAborted
    <3>1. PICK t \in Times, bad \in SUBSET Routes, f \in Routes :
            /\ Splits(t) /\ heard' = [r \in Routes |-> IF r < f THEN t ELSE heard[r]]
            /\ f # 1 => CanSubmit(1, t, bad)
      BY <2>2, FirstTakes
    <3>2. life = "started"
      BY <2>2 DEF SubmitAborted
    <3>3. ASSUME NEW r \in Routes, r < f, heard[r] # Absent PROVE t = heard[r] + 1
      <4>1. f # 1
        BY <3>3 DEF Routes
      <4> QED BY <1>3, <3>1, <3>2, <3>3, <4>1, TakenFollows
    <3> QED BY <3>1, <3>3
  <2>3. CASE Start
    BY <2>3 DEF Start, Silent
  <2>4. CASE Prepare \/ PrepareFailed \/ StartFailed \/ SubmitRefused \/ Stop \/ Reset \/ DrainOne
    BY <2>4 DEF Prepare, PrepareFailed, StartFailed, SubmitRefused, Stop, Reset, DrainOne
  <2> QED BY <2>1, <2>2, <2>3, <2>4 DEF Next
<1> QED BY <1>1, <1>2, <1>3, SetInvariant, PTL DEF Spec, NoGapHeard
=============================================================================
