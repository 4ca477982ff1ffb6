----------------------------- MODULE LinkProofs -----------------------------
(***************************************************************************)
(* Proofs about the links below a transport set: the AOO adapter and its   *)
(* native shim, the AVDECC-driven GenAVB runtime, the GenAVB shim with its *)
(* shared library, clock and anchor, and the set of ESP end points.        *)
(***************************************************************************)
EXTENDS MCTransportSet, Sequences, FiniteSetTheorems, TLAPS

-----------------------------------------------------------------------------
(* The AOO adapter and its shim.                                           *)

Places == Aoo!Mapped \cup {"idle", "claimed", "closed"}
Unused == {"idle", "claimed", "opened", "closing", "closed"}

\* Where a thread is (q), what its transport (p) and its native handle (n) then
\* are.
HandleFits(q, p, n) ==
  /\ q \in Unused => n = Aoo!Cleared
  /\ q \in Aoo!Preparing => /\ ~n.prepared /\ ~n.started /\ ~n.running /\ ~n.dying
                            /\ p.life = "loaded"
  /\ q \in {"register", "spawnSend", "spawnReceive"} => n.client
  /\ q \in Aoo!Cleaning /\ ~n.dying => ~n.prepared /\ ~n.started /\ p.life = "loaded"
  /\ q = "live" => /\ ~n.dying /\ (n.running <=> n.prepared)
                   /\ n.prepared <=> p.life # "loaded"
                   /\ n.started <=> p.life = "started"
  /\ q = "live" /\ p.expected # Absent => n.base # Absent /\ n.base < p.expected
  /\ p.life # "started" => p.expected = Absent

\* Socket threads run on a client that is not freed, and a cleanup that frees
\* it without a join has none.
SocketsFit(q, n) ==
  n.net # {} =>
    /\ q \in {"spawnReceive", "joinSend", "live", "cleanup", "join"} /\ n.client
    /\ q = "live" => n.prepared
    /\ q = "cleanup" => n.running

\* The parts of a thread's state are what they should be.
ThreadFits(q, p, n) ==
  /\ q \in Places /\ p \in Aoo!Transports /\ n \in Aoo!NativeHandles
  /\ Len(p.events) <= EventCapacity
  /\ HandleFits(q, p, n) /\ SocketsFit(q, n)

AooInv ==
  /\ flag \in BOOLEAN
  /\ pc \in [Threads -> Places] /\ tp \in [Threads -> Aoo!Transports]
  /\ native \in [Threads -> Aoo!NativeHandles]
  /\ \A t \in Threads : pc[t] # "idle" => flag
  /\ \A t, u \in Threads : pc[t] # "idle" /\ pc[u] # "idle" => t = u
  /\ \A t \in Threads : ThreadFits(pc[t], tp[t], native[t])

LEMMA AooInit == MCInit => AooInv
<1> SUFFICES ASSUME MCInit PROVE AooInv
  OBVIOUS
<1>1. ThreadFits("idle", Aoo!Fresh, Aoo!Cleared)
  <2>1. Aoo!Cleared \in Aoo!NativeHandles
    BY DEF Aoo!Cleared, Aoo!NativeHandles, Aoo!Sockets
  <2>2. Aoo!Fresh \in Aoo!Transports /\ Len(Aoo!Fresh.events) <= EventCapacity
    BY LinkAssumption DEF Aoo!Fresh, Aoo!Transports, Aoo!AooAssumption, Aoo!Events
  <2>3. HandleFits("idle", Aoo!Fresh, Aoo!Cleared) /\ SocketsFit("idle", Aoo!Cleared)
    BY DEF HandleFits, SocketsFit, Aoo!Fresh, Aoo!Cleared, Aoo!Preparing, Aoo!Cleaning
  <2> QED BY <2>1, <2>2, <2>3 DEF ThreadFits, Places
<1>2. /\ flag = FALSE /\ pc = [t \in Threads |-> "idle"]
      /\ tp = [t \in Threads |-> Aoo!Fresh] /\ native = [t \in Threads |-> Aoo!Cleared]
  BY DEF MCInit, Aoo!Init
<1> QED BY <1>1, <1>2 DEF AooInv, ThreadFits, Places

\* A step of one thread, which holds the flag or takes it, disturbs no other.
LEMMA AooMove ==
  ASSUME AooInv, NEW t \in Threads, NEW q, NEW p, NEW n,
         pc' = [pc EXCEPT ![t] = q], tp' = [tp EXCEPT ![t] = p],
         native' = [native EXCEPT ![t] = n], flag' \in BOOLEAN,
         pc[t] # "idle" \/ ~flag, q # "idle" => flag',
         ThreadFits(q, p, n)
  PROVE  AooInv'
<1>1. /\ pc' \in [Threads -> Places] /\ tp' \in [Threads -> Aoo!Transports]
      /\ native' \in [Threads -> Aoo!NativeHandles]
  BY DEF AooInv, ThreadFits
<1>2. \A u \in Threads \ {t} : pc[u] = "idle"
  BY DEF AooInv
<1>3. /\ pc'[t] = q /\ tp'[t] = p /\ native'[t] = n
      /\ \A u \in Threads \ {t} : pc'[u] = pc[u] /\ tp'[u] = tp[u] /\ native'[u] = native[u]
  BY DEF AooInv
<1>4. \A u \in Threads : ThreadFits(pc'[u], tp'[u], native'[u])
  BY <1>3 DEF AooInv
<1> QED BY <1>1, <1>2, <1>3, <1>4 DEF AooInv

\* What the invariant says of one thread, and that nothing happens before it
\* has claimed the library.
LEMMA AooThread ==
  ASSUME AooInv, NEW t \in Threads
  PROVE  /\ ThreadFits(pc[t], tp[t], native[t]) /\ flag \in BOOLEAN
         /\ pc[t] # "idle" => flag
         /\ tp = [tp EXCEPT ![t] = tp[t]] /\ native = [native EXCEPT ![t] = native[t]]
         /\ pc = [pc EXCEPT ![t] = pc[t]]
BY DEF AooInv

LEMMA AooLoads == ASSUME AooInv, NEW t \in Threads, Aoo!Loads(t) PROVE AooInv'
<1> USE AooThread, AooMove
<1>1. CASE Aoo!Claim(t)
  <2>1. ThreadFits("claimed", tp[t], native[t])
    BY <1>1 DEF Aoo!Claim, Aoo!Goto, ThreadFits, HandleFits, SocketsFit, Places, Unused, Aoo!Preparing, Aoo!Cleaning
  <2> QED BY <1>1, <2>1 DEF Aoo!Claim, Aoo!Goto
<1>2. CASE Aoo!LibraryOpened(t)
  <2>1. pc[t] = "claimed" /\ ThreadFits("opened", tp[t], native[t]) /\ ThreadFits("idle", tp[t], native[t])
    BY <1>2 DEF Aoo!LibraryOpened, Aoo!Goto, ThreadFits, HandleFits, SocketsFit, Places, Unused, Aoo!Mapped, Aoo!Preparing, Aoo!Cleaning
  <2>2. CASE pc' = [pc EXCEPT ![t] = "opened"] /\ UNCHANGED <<flag, tp, native>>
    BY <2>1, <2>2
  <2>3. CASE pc' = [pc EXCEPT ![t] = "idle"] /\ flag' = FALSE /\ UNCHANGED <<tp, native>>
    BY <2>1, <2>3
  <2> QED BY <1>2, <2>2, <2>3 DEF Aoo!LibraryOpened, Aoo!Goto
<1>3. CASE Aoo!Created(t)
  <2>1. pc[t] = "opened" /\ native[t] = Aoo!Cleared
    BY <1>3 DEF Aoo!Created, Aoo!Goto, ThreadFits, HandleFits, Unused
  <2>2. ThreadFits("closing", tp[t], native[t])
    BY <2>1 DEF ThreadFits, HandleFits, SocketsFit, Places, Unused, Aoo!Mapped, Aoo!Preparing, Aoo!Cleaning
  <2>3. ThreadFits("live", Aoo!Fresh, native[t])
    <3>1. Aoo!Fresh \in Aoo!Transports /\ Len(Aoo!Fresh.events) <= EventCapacity
      BY LinkAssumption DEF Aoo!Fresh, Aoo!Transports, Aoo!AooAssumption, Aoo!Events
    <3>2. HandleFits("live", Aoo!Fresh, native[t]) /\ SocketsFit("live", native[t])
      BY <2>1 DEF HandleFits, SocketsFit, Unused, Aoo!Preparing, Aoo!Cleaning, Aoo!Fresh, Aoo!Cleared
    <3> QED BY <3>1, <3>2 DEF ThreadFits, Places, Aoo!Mapped
  <2> QED BY <1>3, <2>1, <2>2, <2>3 DEF Aoo!Created, Aoo!Goto
<1>4. CASE Aoo!Destroy(t)
  <2> DEFINE n == [native[t] EXCEPT !.dying = TRUE]
  <2>1. pc[t] = "live" /\ native' = [native EXCEPT ![t] = n]
    BY <1>4 DEF Aoo!Destroy, Aoo!Goto, AooInv
  <2>2. ThreadFits("cleanup", tp[t], n)
    BY <2>1 DEF ThreadFits, HandleFits, SocketsFit, Places, Unused, Aoo!Mapped, Aoo!Preparing, Aoo!Cleaning, Aoo!NativeHandles
  <2>3. pc' = [pc EXCEPT ![t] = "cleanup"] /\ UNCHANGED <<flag, tp>>
    BY <1>4 DEF Aoo!Destroy, Aoo!Goto
  <2> HIDE DEF n
  <2> QED BY <2>1, <2>2, <2>3
<1>5. CASE Aoo!Close(t)
  <2>1. pc[t] = "closing" /\ ThreadFits("closed", tp[t], native[t])
    BY <1>5 DEF Aoo!Close, Aoo!Goto, ThreadFits, HandleFits, SocketsFit, Places, Unused, Aoo!Preparing, Aoo!Cleaning
  <2> QED BY <1>5, <2>1 DEF Aoo!Close, Aoo!Goto
<1>6. CASE Aoo!Release(t)
  <2>1. pc[t] = "closed" /\ ThreadFits("idle", tp[t], native[t])
    BY <1>6 DEF Aoo!Release, Aoo!Goto, ThreadFits, HandleFits, SocketsFit, Places, Unused, Aoo!Preparing, Aoo!Cleaning
  <2> QED BY <1>6, <2>1 DEF Aoo!Release, Aoo!Goto
<1> QED BY <1>1, <1>2, <1>3, <1>4, <1>5, <1>6 DEF Aoo!Loads

\* push_event keeps the ring within its capacity
LEMMA EventsBounded ==
  ASSUME NEW q \in Seq(Aoo!Events), Len(q) <= EventCapacity, NEW e \in Aoo!Events
  PROVE  Aoo!Push(q, e) \in Seq(Aoo!Events) /\ Len(Aoo!Push(q, e)) <= EventCapacity
<1>1. EventCapacity \in Nat \ {0}
  BY LinkAssumption DEF Aoo!AooAssumption
<1>2. CASE Len(q) = EventCapacity
  BY <1>1, <1>2 DEF Aoo!Push
<1>3. CASE Len(q) # EventCapacity
  BY <1>1, <1>3 DEF Aoo!Push
<1> QED BY <1>2, <1>3

\* A lifecycle change of the transport of t.
LEMMA Becoming ==
  ASSUME AooInv, NEW t \in Threads, NEW l \in {"prepared", "started"}, NEW e \in Aoo!Events,
         Aoo!Becomes(t, l, e)
  PROVE  \E p \in Aoo!Transports :
           /\ tp' = [tp EXCEPT ![t] = p] /\ Len(p.events) <= EventCapacity
           /\ p.life = l /\ p.expected = Absent
<1> DEFINE p == [life |-> l, expected |-> Absent, events |-> Aoo!Push(tp[t].events, e)]
<1>1. Aoo!Push(tp[t].events, e) \in Seq(Aoo!Events) /\ Len(Aoo!Push(tp[t].events, e)) <= EventCapacity
  BY EventsBounded DEF AooInv, ThreadFits, Aoo!Transports
<1>2. p \in Aoo!Transports /\ p.life = l /\ p.expected = Absent /\ Len(p.events) <= EventCapacity
  BY <1>1 DEF Aoo!Transports
<1>3. tp' = [tp EXCEPT ![t] = p]
  BY DEF Aoo!Becomes
<1> QED BY <1>2, <1>3

LEMMA AooPrepares == ASSUME AooInv, NEW t \in Threads, Aoo!Prepares(t) PROVE AooInv'
<1> USE AooThread, AooMove
<1>1. CASE Aoo!Prepare(t)
  <2>1. pc[t] = "live" /\ ThreadFits("allocate", tp[t], native[t])
    BY <1>1 DEF Aoo!Prepare, Aoo!Goto, ThreadFits, HandleFits, SocketsFit, Places, Unused, Aoo!Mapped, Aoo!Preparing,
           Aoo!Cleaning, Aoo!NativeHandles
  <2> QED BY <1>1, <2>1 DEF Aoo!Prepare, Aoo!Goto
<1>2. CASE Aoo!Allocate(t)
  <2>1. PICK client \in BOOLEAN, source \in BOOLEAN :
          /\ native' = [native EXCEPT ![t].client = client, ![t].source = source]
          /\ \/ client /\ pc' = [pc EXCEPT ![t] = "register"]
             \/ pc' = [pc EXCEPT ![t] = "cleanup"]
    BY <1>2 DEF Aoo!Allocate, Aoo!Goto
  <2> DEFINE n == [native[t] EXCEPT !.client = client, !.source = source]
  <2>2. pc[t] = "allocate" /\ UNCHANGED <<flag, tp>>
    BY <1>2 DEF Aoo!Allocate, Aoo!Goto
  <2>3. native' = [native EXCEPT ![t] = n]
    BY <2>1 DEF AooInv
  <2>4. ThreadFits("cleanup", tp[t], n) /\ (client => ThreadFits("register", tp[t], n))
    BY <2>2 DEF ThreadFits, HandleFits, SocketsFit, Places, Unused, Aoo!Mapped, Aoo!Preparing,
           Aoo!Cleaning, Aoo!NativeHandles
  <2> HIDE DEF n
  <2>5. CASE client /\ pc' = [pc EXCEPT ![t] = "register"]
    BY <2>2, <2>3, <2>4, <2>5
  <2>6. CASE pc' = [pc EXCEPT ![t] = "cleanup"]
    BY <2>2, <2>3, <2>4, <2>6
  <2> QED BY <2>1, <2>5, <2>6
<1>3. CASE Aoo!Register(t)
  <2>1. PICK added \in BOOLEAN :
          /\ native' = [native EXCEPT ![t].registered = added]
          /\ \/ pc' = [pc EXCEPT ![t] = "spawnSend"]
             \/ pc' = [pc EXCEPT ![t] = "cleanup"]
    BY <1>3 DEF Aoo!Register, Aoo!Goto
  <2> DEFINE n == [native[t] EXCEPT !.registered = added]
  <2>2. pc[t] = "register" /\ UNCHANGED <<flag, tp>>
    BY <1>3 DEF Aoo!Register, Aoo!Goto
  <2>3. native' = [native EXCEPT ![t] = n]
    BY <2>1 DEF AooInv
  <2>4. ThreadFits("cleanup", tp[t], n) /\ ThreadFits("spawnSend", tp[t], n)
    BY <2>2 DEF ThreadFits, HandleFits, SocketsFit, Places, Unused, Aoo!Mapped, Aoo!Preparing,
           Aoo!Cleaning, Aoo!NativeHandles
  <2> HIDE DEF n
  <2>5. CASE pc' = [pc EXCEPT ![t] = "spawnSend"]
    BY <2>2, <2>3, <2>4, <2>5
  <2>6. CASE pc' = [pc EXCEPT ![t] = "cleanup"]
    BY <2>2, <2>3, <2>4, <2>6
  <2> QED BY <2>1, <2>5, <2>6
<1>4. CASE Aoo!SpawnSend(t)
  <2> DEFINE n == [native[t] EXCEPT !.net = @ \cup {"send"}]
  <2>1. pc[t] = "spawnSend" /\ UNCHANGED <<flag, tp>>
    BY <1>4 DEF Aoo!SpawnSend, Aoo!Goto
  <2>2. ThreadFits("spawnReceive", tp[t], n) /\ ThreadFits("cleanup", tp[t], native[t])
    BY <2>1 DEF Aoo!Sockets, ThreadFits, HandleFits, SocketsFit, Places, Unused, Aoo!Mapped, Aoo!Preparing,
           Aoo!Cleaning, Aoo!NativeHandles
  <2> HIDE DEF n
  <2>3. CASE pc' = [pc EXCEPT ![t] = "spawnReceive"] /\ native' = [native EXCEPT ![t] = n]
    BY <2>1, <2>2, <2>3
  <2>4. CASE pc' = [pc EXCEPT ![t] = "cleanup"] /\ UNCHANGED native
    BY <2>1, <2>2, <2>4
  <2> QED BY <1>4, <2>3, <2>4 DEF Aoo!SpawnSend, Aoo!Goto, AooInv, n
<1>5. CASE Aoo!SpawnReceive(t)
  <2> DEFINE n == [native[t] EXCEPT !.net = @ \cup {"receive"}, !.running = TRUE, !.prepared = TRUE]
  <2>1. pc[t] = "spawnReceive" /\ UNCHANGED flag
    BY <1>5 DEF Aoo!SpawnReceive, Aoo!Goto
  <2>2. ThreadFits("joinSend", tp[t], native[t])
    BY <2>1 DEF ThreadFits, HandleFits, SocketsFit, Places, Unused, Aoo!Mapped, Aoo!Preparing,
           Aoo!Cleaning, Aoo!NativeHandles
  <2>3. /\ n \in Aoo!NativeHandles /\ ~n.dying /\ n.running /\ n.prepared /\ ~n.started /\ n.client
    <3> DEFINE m == [native[t] EXCEPT !.net = @ \cup {"receive"}]
    <3>1. m \in Aoo!NativeHandles /\ ~m.dying /\ ~m.started /\ m.client
      BY <2>1 DEF Aoo!Sockets, ThreadFits, HandleFits, Aoo!Preparing, Aoo!NativeHandles
    <3>2. n = [m EXCEPT !.running = TRUE, !.prepared = TRUE]
      OBVIOUS
    <3> HIDE DEF m, n
    <3> QED BY <3>1, <3>2 DEF Aoo!NativeHandles
  <2>6. \/ pc' = [pc EXCEPT ![t] = "joinSend"] /\ UNCHANGED <<native, tp>>
        \/ /\ pc' = [pc EXCEPT ![t] = "live"] /\ native' = [native EXCEPT ![t] = n]
           /\ Aoo!Becomes(t, "prepared", "Prepared")
    BY <1>5 DEF Aoo!SpawnReceive, Aoo!Goto
  <2> HIDE DEF n
  <2>4. CASE pc' = [pc EXCEPT ![t] = "joinSend"] /\ UNCHANGED <<native, tp>>
    BY <2>1, <2>2, <2>4
  <2>5. CASE pc' = [pc EXCEPT ![t] = "live"] /\ native' = [native EXCEPT ![t] = n]
             /\ Aoo!Becomes(t, "prepared", "Prepared")
    <3>1. PICK p \in Aoo!Transports :
           /\ tp' = [tp EXCEPT ![t] = p] /\ Len(p.events) <= EventCapacity
           /\ p.life = "prepared" /\ p.expected = Absent
      BY <2>5, Becoming DEF Aoo!Events
    <3>2. ThreadFits("live", p, n)
      BY <2>3, <3>1 DEF ThreadFits, HandleFits, SocketsFit, Places, Unused, Aoo!Mapped, Aoo!Preparing, Aoo!Cleaning
    <3> QED BY <2>1, <2>5, <3>1, <3>2
  <2> QED BY <2>4, <2>5, <2>6
<1>6. CASE Aoo!JoinSend(t)
  <2>1. pc[t] = "joinSend" /\ ThreadFits("cleanup", tp[t], native[t])
    BY <1>6 DEF Aoo!JoinSend, Aoo!Goto, ThreadFits, HandleFits, SocketsFit, Places, Unused, Aoo!Mapped, Aoo!Preparing,
           Aoo!Cleaning, Aoo!NativeHandles
  <2>2. pc' = [pc EXCEPT ![t] = "cleanup"] /\ UNCHANGED <<flag, tp, native>>
    BY <1>6 DEF Aoo!JoinSend, Aoo!Goto
  <2> QED BY <2>1, <2>2
<1> QED BY <1>1, <1>2, <1>3, <1>4, <1>5, <1>6 DEF Aoo!Prepares

LEMMA AooCleans == ASSUME AooInv, NEW t \in Threads, Aoo!Cleans(t) PROVE AooInv'
<1> USE AooThread, AooMove
<1>1. CASE Aoo!Cleanup(t)
  <2> DEFINE n == [native[t] EXCEPT !.started = FALSE]
             q == IF native[t].running THEN "join" ELSE "free"
  <2>1. /\ pc[t] = "cleanup" /\ UNCHANGED <<flag, tp>>
        /\ pc' = [pc EXCEPT ![t] = q] /\ native' = [native EXCEPT ![t] = n]
    BY <1>1 DEF Aoo!Cleanup, Aoo!Goto
  <2>2. ThreadFits(q, tp[t], n)
    BY <2>1 DEF ThreadFits, HandleFits, SocketsFit, Places, Unused, Aoo!Mapped, Aoo!Preparing,
           Aoo!Cleaning, Aoo!NativeHandles
  <2>3. q # "idle"
    OBVIOUS
  <2> HIDE DEF n, q
  <2> QED BY <2>1, <2>2, <2>3
<1>2. CASE Aoo!Join(t)
  <2> DEFINE n == [native[t] EXCEPT !.running = FALSE]
  <2>1. /\ pc[t] = "join" /\ UNCHANGED <<flag, tp>> /\ native[t].net = {}
        /\ pc' = [pc EXCEPT ![t] = "free"] /\ native' = [native EXCEPT ![t] = n]
    BY <1>2 DEF Aoo!Join, Aoo!Goto
  <2>2. ThreadFits("free", tp[t], n)
    BY <2>1 DEF ThreadFits, HandleFits, SocketsFit, Places, Unused, Aoo!Mapped, Aoo!Preparing,
           Aoo!Cleaning, Aoo!NativeHandles
  <2> HIDE DEF n
  <2> QED BY <2>1, <2>2
<1>3. CASE Aoo!Free(t)
  <2> DEFINE q == IF native[t].dying THEN "closing" ELSE "live"
  <2>1. pc[t] = "free" /\ UNCHANGED <<flag, tp>> /\ pc' = [pc EXCEPT ![t] = q]
    BY <1>3 DEF Aoo!Free, Aoo!Goto
  <2>2. native[t].net = {}
    BY <2>1 DEF ThreadFits, SocketsFit
  <2>3. native' = [native EXCEPT ![t] = Aoo!Cleared]
    <3>1. [Aoo!Cleared EXCEPT !.net = {}] = Aoo!Cleared
      <4>1. ASSUME NEW r, r = Aoo!Cleared PROVE [r EXCEPT !.net = r.net] = r
        BY <4>1, Zenon DEF Aoo!Cleared
      <4>2. Aoo!Cleared.net = {}
        BY DEF Aoo!Cleared
      <4> QED BY <4>1, <4>2
    <3> QED BY <1>3, <2>2, <3>1 DEF Aoo!Free
  <2>4. Aoo!Cleared \in Aoo!NativeHandles
    BY DEF Aoo!Cleared, Aoo!NativeHandles, Aoo!Sockets
  <2>5. ThreadFits(q, tp[t], Aoo!Cleared)
    <3>1. CASE native[t].dying
      BY <2>1, <2>4, <3>1 DEF Aoo!Cleared, ThreadFits, HandleFits, SocketsFit, Places, Unused,
            Aoo!Mapped, Aoo!Preparing, Aoo!Cleaning
    <3>2. CASE ~native[t].dying
      BY <2>1, <2>4, <3>2 DEF Aoo!Cleared, ThreadFits, HandleFits, SocketsFit, Places, Unused,
            Aoo!Mapped, Aoo!Preparing, Aoo!Cleaning
    <3> QED BY <3>1, <3>2
  <2>6. q # "idle"
    OBVIOUS
  <2> HIDE DEF q
  <2> QED BY <2>1, <2>3, <2>5, <2>6
<1>4. CASE Aoo!ThreadReturns(t)
  <2>1. PICK x \in native[t].net : native' = [native EXCEPT ![t].net = @ \ {x}]
    BY <1>4 DEF Aoo!ThreadReturns
  <2> DEFINE n == [native[t] EXCEPT !.net = @ \ {x}]
  <2>2. native' = [native EXCEPT ![t] = n] /\ UNCHANGED <<flag, pc, tp>>
    BY <1>4, <2>1 DEF Aoo!ThreadReturns, AooInv
  <2>3. pc[t] \in {"spawnReceive", "joinSend", "live", "cleanup", "join"}
    BY <2>1 DEF ThreadFits, SocketsFit
  <2>4. ThreadFits(pc[t], tp[t], n)
    BY <2>1, <2>3 DEF ThreadFits, HandleFits, SocketsFit, Places, Unused, Aoo!Mapped, Aoo!Preparing,
           Aoo!Cleaning, Aoo!NativeHandles
  <2> HIDE DEF n
  <2> QED BY <2>2, <2>3, <2>4
<1> QED BY <1>1, <1>2, <1>3, <1>4 DEF Aoo!Cleans

LEMMA AooUses == ASSUME AooInv, NEW t \in Threads, Aoo!Uses(t) PROVE AooInv'
<1> USE AooThread, AooMove
<1>0. pc[t] = "live" /\ UNCHANGED <<flag, pc>>
  BY DEF Aoo!Uses
<1>1. CASE Aoo!Start(t)
  <2> DEFINE n == [native[t] EXCEPT !.started = TRUE, !.base = Absent]
  <2>1. tp[t].life = "prepared" /\ native' = [native EXCEPT ![t] = n]
    BY <1>1 DEF Aoo!Start, Aoo!NativeStart
  <2>2. PICK p \in Aoo!Transports :
          /\ tp' = [tp EXCEPT ![t] = p] /\ Len(p.events) <= EventCapacity
          /\ p.life = "started" /\ p.expected = Absent
    BY <1>1, Becoming DEF Aoo!Start, Aoo!Events
  <2>4. /\ native[t] \in Aoo!NativeHandles /\ ~native[t].dying /\ native[t].running
        /\ native[t].prepared /\ (native[t].net # {} => native[t].client)
    BY <1>0, <2>1 DEF ThreadFits, HandleFits, SocketsFit
  <2>5. /\ n \in Aoo!NativeHandles /\ ~n.dying /\ n.running /\ n.prepared /\ n.started
        /\ n.net # {} => n.client
    BY ONLY <2>4 DEF Aoo!NativeHandles
  <2> HIDE DEF n
  <2>3. ThreadFits("live", p, n)
    BY <2>2, <2>5 DEF ThreadFits, HandleFits, SocketsFit, Places, Unused, Aoo!Mapped, Aoo!Preparing,
           Aoo!Cleaning
  <2> QED BY <1>0, <2>1, <2>2, <2>3
<1>2. CASE Aoo!Submit(t)
  <2>1. PICK time \in 0 .. LastBlock :
          /\ tp[t].life = "started" /\ Aoo!NativeSubmit(t, time)
          /\ \/ time >= Aoo!TimeBase(t, time) /\ tp' = [tp EXCEPT ![t].expected = time + 1]
             \/ UNCHANGED tp
          /\ tp[t].expected \in {Absent, time}
    BY <1>2 DEF Aoo!Submit
  <2> DEFINE b == Aoo!TimeBase(t, time)
             n == [native[t] EXCEPT !.base = b]
             p == [tp[t] EXCEPT !.expected = time + 1]
  <2>2. time \in Nat /\ b \in Nat /\ Absent \notin Nat /\ (native[t].base # Absent => b = native[t].base)
    BY <2>1, LinkAssumption DEF Aoo!TimeBase, ThreadFits, Aoo!NativeHandles, Aoo!AooAssumption
  <2>3. native' = [native EXCEPT ![t] = n]
    BY <2>1 DEF Aoo!NativeSubmit
  <2> HIDE DEF b
  <2>4. ThreadFits("live", tp[t], n)
    BY <1>0, <2>1, <2>2 DEF ThreadFits, HandleFits, SocketsFit, Places, Unused, Aoo!Mapped, Aoo!Preparing,
           Aoo!Cleaning, Aoo!NativeHandles
  <2>5. p \in Aoo!Transports /\ p.expected = time + 1 /\ p.life = "started" /\ p.events = tp[t].events
    BY <2>1, <2>2 DEF ThreadFits, Aoo!Transports
  <2>6. ASSUME time >= b PROVE ThreadFits("live", p, n)
    <3> HIDE DEF p
    <3>1. n \in Aoo!NativeHandles /\ n.base = b
      BY <2>2 DEF ThreadFits, Aoo!NativeHandles
    <3>2. b # Absent /\ b < time + 1
      BY <2>2, <2>6
    <3> QED BY <1>0, <2>1, <2>4, <2>5, <3>1, <3>2
            DEF ThreadFits, HandleFits, SocketsFit, Places, Unused, Aoo!Mapped, Aoo!Preparing, Aoo!Cleaning
  <2>7. CASE time >= b /\ tp' = [tp EXCEPT ![t] = p]
    <3> HIDE DEF p, n
    <3> QED BY <1>0, <2>3, <2>6, <2>7
  <2>8. CASE UNCHANGED tp
    <3> HIDE DEF p, n
    <3> QED BY <1>0, <2>3, <2>4, <2>8
  <2> QED BY <2>1, <2>7, <2>8 DEF b
<1>3. CASE Aoo!Stop(t)
  <2>1. PICK p \in Aoo!Transports :
          /\ tp' = [tp EXCEPT ![t] = p] /\ Len(p.events) <= EventCapacity
          /\ p.life = "prepared" /\ p.expected = Absent
    BY <1>3, Becoming DEF Aoo!Stop, Aoo!Events
  <2> DEFINE n == [native[t] EXCEPT !.started = FALSE, !.base = Absent]
  <2>2. CASE tp[t].life = "started"
    <3>1. native' = [native EXCEPT ![t] = n]
      BY <1>3, <2>2 DEF Aoo!Stop, Aoo!NativeStop
    <3>3. /\ native[t] \in Aoo!NativeHandles /\ ~native[t].dying /\ native[t].running
          /\ native[t].prepared /\ (native[t].net # {} => native[t].client)
      BY <1>0, <2>2 DEF ThreadFits, HandleFits, SocketsFit
    <3>4. /\ n \in Aoo!NativeHandles /\ ~n.dying /\ n.running /\ n.prepared /\ ~n.started
          /\ n.net # {} => n.client
      BY ONLY <3>3 DEF Aoo!NativeHandles
    <3> HIDE DEF n
    <3>2. ThreadFits("live", p, n)
      BY <2>1, <3>4 DEF ThreadFits, HandleFits, SocketsFit, Places, Unused, Aoo!Mapped, Aoo!Preparing,
           Aoo!Cleaning
    <3> QED BY <1>0, <2>1, <3>1, <3>2
  <2>3. CASE tp[t].life # "started"
    <3>1. UNCHANGED native /\ tp[t].life # "loaded"
      BY <1>3, <2>3 DEF Aoo!Stop
    <3>2. ThreadFits("live", p, native[t])
      BY <1>0, <2>1, <2>3, <3>1 DEF ThreadFits, HandleFits, SocketsFit, Places, Unused, Aoo!Mapped, Aoo!Preparing,
           Aoo!Cleaning, Aoo!NativeHandles
    <3> QED BY <1>0, <2>1, <3>1, <3>2
  <2> QED BY <2>2, <2>3
<1>4. CASE Aoo!Reset(t)
  <2> DEFINE p == [tp[t] EXCEPT !.expected = Absent]
             n == [native[t] EXCEPT !.base = Absent]
  <2>1. tp' = [tp EXCEPT ![t] = p] /\ native' \in {native, [native EXCEPT ![t] = n]}
    BY <1>4 DEF Aoo!Reset, Aoo!NativeReset
  <2>3. ThreadFits("live", tp[t], native[t])
    BY <1>0
  <2>4. /\ p \in Aoo!Transports /\ p.life = tp[t].life /\ p.expected = Absent
        /\ p.events = tp[t].events
    BY <2>3 DEF ThreadFits, Aoo!Transports
  <2>5. /\ n \in Aoo!NativeHandles /\ n.dying = native[t].dying /\ n.running = native[t].running
        /\ n.prepared = native[t].prepared /\ n.started = native[t].started
        /\ n.net = native[t].net /\ n.client = native[t].client
    BY <2>3 DEF ThreadFits, Aoo!NativeHandles
  <2> HIDE DEF p, n
  <2>2. ThreadFits("live", p, native[t]) /\ ThreadFits("live", p, n)
    BY <2>3, <2>4, <2>5 DEF ThreadFits, HandleFits, SocketsFit, Places, Unused, Aoo!Mapped,
           Aoo!Preparing, Aoo!Cleaning
  <2> QED BY <1>0, <2>1, <2>2
<1>5. CASE Aoo!PollEvent(t)
  <2> DEFINE p == [tp[t] EXCEPT !.events = Tail(@)]
  <2>1. tp' = [tp EXCEPT ![t] = p] /\ UNCHANGED native /\ tp[t].events # <<>>
    BY <1>5 DEF Aoo!PollEvent
  <2>2. Tail(tp[t].events) \in Seq(Aoo!Events) /\ Len(Tail(tp[t].events)) <= EventCapacity
    BY <2>1, LinkAssumption DEF ThreadFits, Aoo!Transports, Aoo!AooAssumption
  <2>3. ThreadFits("live", p, native[t])
    BY <1>0, <2>2 DEF Aoo!Transports, ThreadFits, HandleFits, SocketsFit, Places, Unused, Aoo!Mapped, Aoo!Preparing,
           Aoo!Cleaning, Aoo!NativeHandles
  <2> HIDE DEF p
  <2> QED BY <1>0, <2>1, <2>3
<1> QED BY <1>1, <1>2, <1>3, <1>4, <1>5 DEF Aoo!Uses

\* What the adapter and its shim promise, from the invariant.
LEMMA AooImplied == AooInv => Aoo!AooSafe
<1> SUFFICES ASSUME AooInv PROVE Aoo!AooSafe
  OBVIOUS
<1>1. Aoo!TypeOK
  BY DEF AooInv, Aoo!TypeOK, Places, ThreadFits
<1>2. Aoo!OneRuntime
  BY DEF AooInv, Aoo!OneRuntime, Aoo!Mapped, Aoo!Preparing, Aoo!Cleaning
<1>3. Aoo!ThreadsJoined
  BY DEF AooInv, ThreadFits, SocketsFit, Aoo!ThreadsJoined, Aoo!Mapped, Aoo!Preparing, Aoo!Cleaning
<1>4. Aoo!LifecyclesAgree
  BY DEF AooInv, ThreadFits, HandleFits, Aoo!LifecyclesAgree
<1> QED BY <1>1, <1>2, <1>3, <1>4 DEF Aoo!AooSafe

-----------------------------------------------------------------------------
(* The set of ESP end points: what is proved of every module transport set *)
(* holds of it, because its methods are methods of that specification.     *)

EspSet == INSTANCE TransportSetProofs WITH
  N <- 2, Kind <- <<"sim", "genavb">>, LastTime <- EspLast,
  life <- espLife, next <- espNext, tr <- espTr, heard <- espHeard, now <- espNow

\* The two instances of the specification are one.
LEMMA EspIsSet ==
  /\ Esp!Init <=> EspSet!Init
  /\ Esp!Next <=> EspSet!Next
  /\ Esp!vars = EspSet!vars
  /\ EspSet!SetInv => Esp!TypeOK /\ Esp!InStep /\ Esp!NoStraggler
BY DEF EspSet!SetInv,
       Esp!Routes, Esp!Kinds, Esp!vars, Esp!Times, Esp!MaybeTime, Esp!Transports, Esp!Silent,
       Esp!Init, Esp!Native, Esp!CanPrepare, Esp!CanStart, Esp!SubmitsFull, Esp!CanSubmit,
       Esp!Prepared, Esp!Started, Esp!Submitted, Esp!ResetOf, Esp!FirstFailing, Esp!Prepare,
       Esp!PrepareFailed, Esp!Start, Esp!StartFailed, Esp!Input, Esp!Splits, Esp!SubmitRefused,
       Esp!Submit, Esp!SubmitAborted, Esp!Stop, Esp!ResetTransports, Esp!Reset, Esp!DrainOne,
       Esp!Next, Esp!TypeOK, Esp!NoStraggler, Esp!InStep, EspSet!Routes, EspSet!Kinds,
       EspSet!vars, EspSet!Times, EspSet!MaybeTime, EspSet!Transports, EspSet!Silent,
       EspSet!Init, EspSet!Native, EspSet!CanPrepare, EspSet!CanStart, EspSet!SubmitsFull,
       EspSet!CanSubmit, EspSet!Prepared, EspSet!Started, EspSet!Submitted, EspSet!ResetOf,
       EspSet!FirstFailing, EspSet!Prepare, EspSet!PrepareFailed, EspSet!Start,
       EspSet!StartFailed, EspSet!Input, EspSet!Splits, EspSet!SubmitRefused, EspSet!Submit,
       EspSet!SubmitAborted, EspSet!Stop, EspSet!ResetTransports, EspSet!Reset, EspSet!DrainOne,
       EspSet!Next, EspSet!TypeOK, EspSet!NoStraggler, EspSet!InStep

\* Two routes of these kinds are a transport set.
LEMMA EspAssumption ==
  /\ 2 \in Nat \ {0} /\ <<"sim", "genavb">> \in [EspSet!Routes -> EspSet!Kinds]
  /\ QueueCap \in Nat \ {0} /\ EspLast \in Nat /\ Absent \notin Nat
BY TransportSetAssumption, LinkAssumption DEF EspSet!Routes, EspSet!Kinds

EspInv == built \in BOOLEAN /\ EspSet!SetInv

LEMMA EspInit == MCInit => EspInv
BY EspIsSet, EspAssumption, EspSet!InitSetInv DEF MCInit, EspInv

LEMMA EspStep == EspInv /\ EspMethod => EspInv'
<1> SUFFICES ASSUME EspInv, EspMethod PROVE EspInv'
  OBVIOUS
<1>1. built' \in BOOLEAN
  BY DEF EspInv, EspMethod, EspNew, EspPrepare, EspStart, EspSubmit, EspStop, EspReset, EspDrainOne, Built
<1>2. Esp!Next \/ UNCHANGED Esp!vars
  BY DEF EspMethod, EspNew, EspPrepare, EspStart, EspSubmit, EspStop, EspReset, EspDrainOne, Esp!Next, Esp!vars
<1>3. [EspSet!Next]_(EspSet!vars)
  BY <1>2, EspIsSet DEF Esp!vars, EspSet!vars
<1> QED BY <1>1, <1>3, EspAssumption, EspSet!SetStep DEF EspInv

\* What the steps of the other components keep.
LEMMA AooKept == AooInv /\ UNCHANGED aooVars => AooInv'
BY DEF AooInv, aooVars

LEMMA EspKept == EspInv /\ UNCHANGED espVars => EspInv'
<1> SUFFICES ASSUME EspInv, UNCHANGED espVars PROVE EspInv'
  OBVIOUS
<1>1. built' \in BOOLEAN /\ UNCHANGED EspSet!vars
  BY DEF EspInv, espVars, EspSet!vars
<1> QED BY <1>1, EspAssumption, EspSet!SetStep DEF EspInv

\* The AOO adapter and the ESP end points: one library is mapped at a time,
\* socket threads are joined before their client is freed, adapter and shim
\* agree on the lifecycle; the stereo pairs of a set move as one.
THEOREM LinkSafety == MCSpec => []LinksSound
<1> DEFINE Inv == AooInv /\ EspInv
<1>1. MCInit => Inv
  BY AooInit, EspInit
<1>2. ASSUME Inv, [MCNext]_<<focus, vars, avbVars, shimVars, aooVars, espVars>> PROVE Inv'
  <2>1. CASE AooMoves
    <3>1. AooInv'
      BY <1>2, <2>1, AooLoads, AooPrepares, AooCleans, AooUses DEF AooMoves, Aoo!Next
    <3>2. EspInv'
      BY <1>2, <2>1, EspKept DEF AooMoves
    <3> QED BY <3>1, <3>2
  <2>2. CASE EspMoves
    BY <1>2, <2>2, EspStep, AooKept DEF EspMoves
  <2>3. CASE UNCHANGED <<aooVars, espVars>>
    BY <1>2, <2>3, AooKept, EspKept
  <2> QED BY <1>2, <2>1, <2>2, <2>3 DEF MCNext, SetMoves, AvbMoves, ShimMoves
<1>3. Inv => LinksSound
  BY AooImplied, EspIsSet DEF LinksSound, EspInv
<1> QED BY <1>1, <1>2, <1>3, PTL DEF MCSpec

-----------------------------------------------------------------------------
(* The AVDECC-driven GenAVB runtime.                                       *)

Occupied(c) == {s \in Avb!Slots : c[s] # Absent}

\* One slot for one stream index, from load on; what the session has connected
\* is what the native handle has cached, so nothing is before it is open.
SessionCached ==
  /\ phase # "none" => table \in [Avb!Slots -> Indexes] /\ Avb!ValidTable(table)
  /\ \A s \in Avb!Slots : conn[s] # Absent =>
       phase # "none" /\ control = "open" /\ cache[table[s]] = conn[s]

\* Until a close has failed, a prepared or started runtime has every stream
\* connected and its talkers run with the connected parameters; otherwise no
\* talker runs.
TalkersFit ==
  control # "dead" =>
    IF phase \in {"prepared", "started"}
      THEN \A s \in Avb!Slots : conn[s] # Absent /\ talk[s].params = conn[s]
      ELSE \A s \in Avb!Slots : talk[s].life # "started"

AvbInv == Avb!TypeOK /\ Avb!GateCounts /\ SessionCached /\ TalkersFit

\* The two names of the cardinality of a finite set are one.
LEMMA SameCardinality == \A S : Avb!Cardinality(S) = Cardinality(S) /\ Shim!Cardinality(S) = Cardinality(S)
BY DEF Cardinality, Avb!Cardinality, Shim!Cardinality

LEMMA ShimFinite == \A S : Shim!IsFiniteSet(S) <=> IsFiniteSet(S)
BY DEF IsFiniteSet, Shim!IsFiniteSet

\* The occupied slots are counted by a number up to N, which is N when they
\* are all of them.
LEMMA OccupiedCounted ==
  ASSUME NEW c
  PROVE  /\ IsFiniteSet(Occupied(c)) /\ Cardinality(Occupied(c)) \in 0 .. Streams
         /\ Cardinality(Occupied(c)) = Streams => \A s \in Avb!Slots : c[s] # Absent
<1>0. Streams \in Nat
  BY LinkAssumption DEF Avb!AvbAssumption
<1>1. IsFiniteSet(Avb!Slots) /\ Cardinality(Avb!Slots) = Streams
  BY <1>0, FS_Interval DEF Avb!Slots
<1>2. Occupied(c) \in SUBSET Avb!Slots
  BY DEF Occupied
<1>3. /\ IsFiniteSet(Occupied(c)) /\ Cardinality(Occupied(c)) <= Streams
      /\ Cardinality(Occupied(c)) = Streams => Occupied(c) = Avb!Slots
  BY <1>1, <1>2, FS_Subset
<1>4. Cardinality(Occupied(c)) \in Nat
  BY <1>3, FS_CardinalityType
<1> QED BY <1>0, <1>3, <1>4 DEF Occupied

LEMMA AvbConstants ==
  /\ Streams \in Nat \ {0} /\ LastBlock \in Nat
  /\ Absent \notin Nat /\ Absent \notin Params /\ Absent \notin Indexes
  /\ \A t \in Tables : t \in [Avb!Slots -> Indexes]
BY LinkAssumption DEF Avb!AvbAssumption, Avb!Slots

\* A reset talker is one that does not transmit, with the parameters it had.
LEMMA TalkerReset ==
  ASSUME NEW t \in Avb!Talkers
  PROVE  /\ Avb!ResetTalker(t) \in Avb!Talkers /\ Avb!ResetTalker(t).life # "started"
         /\ Avb!ResetTalker(t).params = t.params
BY DEF Avb!Talkers, Avb!ResetTalker

\* abort_data_plane leaves no talker that transmits.
LEMMA DataPlaneAborted ==
  ASSUME AvbInv, Avb!AbortDataPlane
  PROVE  /\ talk' \in [Avb!Slots -> Avb!Talkers] /\ split' = Absent
         /\ \A s \in Avb!Slots : talk'[s].life # "started"
BY TalkerReset DEF AvbInv, Avb!TypeOK, Avb!AbortDataPlane

\* SixStreamAvdeccSession::reset leaves nothing connected and counts nothing.
LEMMA SessionReset ==
  ASSUME Avb!ResetSession
  PROVE  /\ conn' \in [Avb!Slots -> Params \cup {Absent}] /\ count' \in 0 .. Streams
         /\ Avb!GateCounts' /\ (\A s \in Avb!Slots : conn'[s] = Absent) /\ UNCHANGED table
<1>1. \A s \in Avb!Slots : conn'[s] = Absent
  BY DEF Avb!ResetSession, Avb!Nobody
<1>2. {s \in Avb!Slots : conn'[s] # Absent} = {}
  BY <1>1
<1>3. Avb!GateCounts'
  BY <1>2, FS_EmptySet, SameCardinality DEF Avb!ResetSession, Avb!GateCounts
<1>4. conn' \in [Avb!Slots -> Params \cup {Absent}] /\ count' \in 0 .. Streams
  BY AvbConstants DEF Avb!ResetSession, Avb!Nobody
<1> QED BY <1>1, <1>3, <1>4 DEF Avb!ResetSession

LEMMA AvbInit == MCInit => AvbInv
<1> SUFFICES ASSUME MCInit PROVE AvbInv
  OBVIOUS
<1> USE DEF MCInit, Avb!Init, Avb!Nobody
<1>1. \A s \in Avb!Slots : conn[s] = Absent /\ talk[s].life = "loaded"
  OBVIOUS
<1>2. Avb!TypeOK
  BY AvbConstants DEF Avb!TypeOK, Avb!Talkers, Avb!Times
<1>3. Avb!GateCounts
  <2>1. {s \in Avb!Slots : conn[s] # Absent} = {}
    BY <1>1
  <2> QED BY <2>1, FS_EmptySet, SameCardinality DEF Avb!GateCounts
<1>4. SessionCached /\ TalkersFit
  BY <1>1 DEF SessionCached, TalkersFit
<1> QED BY <1>2, <1>3, <1>4 DEF AvbInv

LEMMA AvbOpens == ASSUME AvbInv, Avb!Load \/ Avb!OpenControl PROVE AvbInv'
<1>1. CASE Avb!Load
  <2>1. PICK t \in Tables : Avb!ValidTable(t) /\ table' = t
    BY <1>1 DEF Avb!Load
  <2>2. phase = "none" /\ phase' = "loaded" /\ UNCHANGED <<control, cache, conn, count, talk, split, clock>>
    BY <1>1 DEF Avb!Load
  <2>3. table' \in [Avb!Slots -> Indexes]
    BY <2>1, AvbConstants
  <2> QED BY <2>1, <2>2, <2>3 DEF AvbInv, Avb!TypeOK, Avb!GateCounts, SessionCached, TalkersFit
<1>2. CASE Avb!OpenControl
  BY <1>2 DEF Avb!OpenControl, Avb!session, AvbInv, Avb!TypeOK, Avb!GateCounts, SessionCached, TalkersFit
<1> QED BY <1>1, <1>2

LEMMA AvbConnects == ASSUME AvbInv, Avb!ReceiveConnect PROVE AvbInv'
<1> USE AvbConstants
<1>1. PICK i \in Indexes, p \in Params, s \in Avb!Slots :
        /\ control = "open" /\ cache' = [cache EXCEPT ![i] = p]
        /\ table[s] = i /\ conn[s] = Absent
        /\ conn' = [conn EXCEPT ![s] = p] /\ count' = count + 1
  BY DEF Avb!ReceiveConnect, Avb!Indicated, Avb!Received, Avb!Connects
<1>2. phase # "none" /\ UNCHANGED <<phase, control, table, talk, split, clock>>
  BY DEF Avb!ReceiveConnect
<1>3. phase \notin {"prepared", "started"}
  BY <1>1 DEF AvbInv, TalkersFit
<1>4. /\ cache' \in [Indexes -> Params \cup {Absent}] /\ conn' \in [Avb!Slots -> Params \cup {Absent}]
      /\ conn'[s] = p /\ \A r \in Avb!Slots : r # s => conn'[r] = conn[r]
  BY <1>1 DEF AvbInv, Avb!TypeOK
<1>5. count' = Cardinality(Occupied(conn')) /\ count' \in 0 .. Streams
  <2>1. Occupied(conn') = Occupied(conn) \cup {s} /\ s \notin Occupied(conn)
    BY <1>1, <1>4 DEF Occupied
  <2>2. count = Cardinality(Occupied(conn))
    BY SameCardinality DEF AvbInv, Avb!GateCounts, Occupied
  <2>3. Cardinality(Occupied(conn')) = Cardinality(Occupied(conn)) + 1
    BY <2>1, OccupiedCounted, FS_AddElement
  <2> QED BY <1>1, <2>2, <2>3, OccupiedCounted
<1>6. Avb!GateCounts'
  BY <1>5, SameCardinality DEF Avb!GateCounts, Occupied
<1>7. Avb!TypeOK'
  BY <1>2, <1>4, <1>5 DEF AvbInv, Avb!TypeOK
<1>8. SessionCached'
  <2>1. \A r \in Avb!Slots : r # s => table[r] # i /\ table[r] \in Indexes
    BY <1>1, <1>2 DEF AvbInv, SessionCached, Avb!ValidTable
  <2>2. \A r \in Avb!Slots : r # s => cache'[table[r]] = cache[table[r]]
    BY <1>1, <2>1 DEF AvbInv, Avb!TypeOK
  <2>3. cache'[table[s]] = p
    BY <1>1 DEF AvbInv, Avb!TypeOK
  <2> QED BY <1>1, <1>2, <1>4, <2>2, <2>3 DEF AvbInv, SessionCached
<1>9. TalkersFit'
  BY <1>2, <1>3 DEF AvbInv, TalkersFit
<1> QED BY <1>6, <1>7, <1>8, <1>9 DEF AvbInv

LEMMA AvbDisconnects == ASSUME AvbInv, Avb!ReceiveDisconnect PROVE AvbInv'
<1> USE AvbConstants
<1>1. PICK i \in Indexes, p \in Params, s \in Avb!Slots :
        /\ control = "open" /\ cache' = [cache EXCEPT ![i] = Absent]
        /\ table[s] = i /\ conn[s] # Absent
        /\ conn' = [conn EXCEPT ![s] = Absent] /\ count' = count - 1
  BY DEF Avb!ReceiveDisconnect, Avb!Indicated, Avb!Received, Avb!Disconnects
<1>2. phase # "none" /\ phase' = "open" /\ Avb!AbortDataPlane /\ UNCHANGED <<control, table, clock>>
  BY DEF Avb!ReceiveDisconnect
<1>4. /\ cache' \in [Indexes -> Params \cup {Absent}] /\ conn' \in [Avb!Slots -> Params \cup {Absent}]
      /\ conn'[s] = Absent /\ \A r \in Avb!Slots : r # s => conn'[r] = conn[r]
  BY <1>1 DEF AvbInv, Avb!TypeOK
<1>5. count' = Cardinality(Occupied(conn')) /\ count' \in 0 .. Streams
  <2>1. Occupied(conn') = Occupied(conn) \ {s} /\ s \in Occupied(conn)
    BY <1>1, <1>4 DEF Occupied
  <2>2. count = Cardinality(Occupied(conn))
    BY SameCardinality DEF AvbInv, Avb!GateCounts, Occupied
  <2>3. Cardinality(Occupied(conn')) = Cardinality(Occupied(conn)) - 1
    <3>1. IsFiniteSet(Occupied(conn))
      BY OccupiedCounted
    <3>2. Cardinality(Occupied(conn) \ {s}) = Cardinality(Occupied(conn)) - 1
      BY ONLY <2>1, <3>1, FS_RemoveElement
    <3> QED BY ONLY <2>1, <3>2
  <2> QED BY <1>1, <2>2, <2>3, OccupiedCounted
<1>6. Avb!GateCounts'
  BY <1>5, SameCardinality DEF Avb!GateCounts, Occupied
<1>7. Avb!TypeOK'
  BY <1>2, <1>4, <1>5, DataPlaneAborted DEF AvbInv, Avb!TypeOK
<1>8. SessionCached'
  <2>1. \A r \in Avb!Slots : r # s => table[r] # i /\ table[r] \in Indexes
    BY <1>1, <1>2 DEF AvbInv, SessionCached, Avb!ValidTable
  <2>2. \A r \in Avb!Slots : r # s => cache'[table[r]] = cache[table[r]]
    BY <1>1, <2>1 DEF AvbInv, Avb!TypeOK
  <2> QED BY <1>1, <1>2, <1>4, <2>2 DEF AvbInv, SessionCached
<1>9. TalkersFit'
  BY <1>2, DataPlaneAborted DEF TalkersFit
<1> QED BY <1>6, <1>7, <1>8, <1>9 DEF AvbInv

LEMMA AvbCloses == ASSUME AvbInv, Avb!ReceiveRefused \/ Avb!CloseControl PROVE AvbInv'
<1>1. /\ phase # "none" /\ phase' # "none" /\ Avb!AbortDataPlane /\ Avb!ResetSession /\ UNCHANGED clock
      /\ phase' \in {"loaded", "open", "prepared", "started"} /\ control' \in {"loaded", "open", "dead"}
      /\ cache' \in [Indexes -> Params \cup {Absent}]
      /\ control' # "dead" => phase' \in {"loaded", "open"}
  BY DEF Avb!ReceiveRefused, Avb!CloseControl, Avb!ForgetCache, Avb!Indicated, Avb!Received, AvbInv, Avb!TypeOK
<1> QED BY <1>1, DataPlaneAborted, SessionReset, AvbConstants
        DEF AvbInv, Avb!TypeOK, SessionCached, TalkersFit

\* The steps of the data plane leave control and session alone, so what counts
\* is what they make of the talkers.
LEMMA DataPlaneStep ==
  ASSUME AvbInv, UNCHANGED <<control, cache, table, conn, count>>,
         talk' \in [Avb!Slots -> Avb!Talkers], split' \in Avb!Times \cup {Absent},
         clock' \in Avb!Times, phase # "none",
         phase' \in {"loaded", "open", "prepared", "started"}, TalkersFit'
  PROVE  AvbInv'
BY DEF AvbInv, Avb!TypeOK, Avb!GateCounts, SessionCached

\* The start gate opens only when every slot is connected, so that what is
\* cached is what is connected.
LEMMA GateOpens ==
  ASSUME AvbInv, Avb!Complete
  PROVE  \A s \in Avb!Slots : conn[s] # Absent /\ Avb!Cached(s) = conn[s]
<1>1. Cardinality(Occupied(conn)) = Streams
  BY SameCardinality DEF AvbInv, Avb!GateCounts, Avb!Complete, Occupied
<1> QED BY <1>1, OccupiedCounted DEF AvbInv, SessionCached, Avb!Cached

LEMMA AvbPrepares == ASSUME AvbInv, Avb!PrepareComplete PROVE AvbInv'
<1>1. /\ phase = "open" /\ Avb!Complete /\ split' = Absent
      /\ UNCHANGED <<control, cache, table, conn, count, clock>>
  BY DEF Avb!PrepareComplete, Avb!session
<1>2. \A s \in Avb!Slots : Avb!Cached(s) = conn[s] /\ conn[s] \in Params
  BY <1>1, GateOpens DEF AvbInv, Avb!TypeOK
<1>3. CASE /\ talk' = [s \in Avb!Slots |-> [life |-> "prepared", params |-> Avb!Cached(s), expected |-> Absent]]
           /\ phase' = "prepared"
  <2>1. /\ talk' \in [Avb!Slots -> Avb!Talkers]
        /\ \A s \in Avb!Slots : talk'[s].params = conn[s]
    BY <1>2, <1>3 DEF Avb!Talkers
  <2>2. TalkersFit'
    BY <1>1, <1>2, <1>3, <2>1, AvbConstants DEF TalkersFit
  <2> QED BY <1>1, <1>3, <2>1, <2>2, DataPlaneStep DEF AvbInv, Avb!TypeOK
<1>4. ASSUME NEW f \in Avb!Slots, UNCHANGED phase,
             talk' = [s \in Avb!Slots |->
                 Avb!ResetTalker(IF s < f THEN [talk[s] EXCEPT !.life = "prepared", !.params = Avb!Cached(s)]
                                          ELSE talk[s])]
      PROVE  AvbInv'
  <2>1. \A s \in Avb!Slots :
          /\ talk[s] \in Avb!Talkers
          /\ [talk[s] EXCEPT !.life = "prepared", !.params = Avb!Cached(s)] \in Avb!Talkers
    BY <1>2 DEF AvbInv, Avb!TypeOK, Avb!Talkers
  <2>2. talk' \in [Avb!Slots -> Avb!Talkers] /\ \A s \in Avb!Slots : talk'[s].life # "started"
    BY <1>4, <2>1, TalkerReset
  <2>3. TalkersFit'
    BY <1>1, <1>4, <2>2 DEF TalkersFit
  <2> QED BY <1>1, <1>4, <2>2, <2>3, DataPlaneStep DEF AvbInv, Avb!TypeOK
<1> QED BY <1>3, <1>4 DEF Avb!PrepareComplete

LEMMA AvbStarts == ASSUME AvbInv, Avb!Start PROVE AvbInv'
<1>1. phase = "prepared" /\ split' = Absent /\ UNCHANGED <<control, cache, table, conn, count, clock>>
  BY DEF Avb!Start, Avb!session
<1>2. CASE /\ talk' = [s \in Avb!Slots |-> [talk[s] EXCEPT !.life = "started", !.expected = Absent]]
           /\ phase' = "started"
  <2>1. /\ talk' \in [Avb!Slots -> Avb!Talkers]
        /\ \A s \in Avb!Slots : talk'[s].params = talk[s].params
    BY <1>2 DEF Avb!Talkers, AvbInv, Avb!TypeOK
  <2>2. TalkersFit'
    BY <1>1, <1>2, <2>1 DEF AvbInv, TalkersFit
  <2> QED BY <1>1, <1>2, <2>1, <2>2, DataPlaneStep DEF AvbInv, Avb!TypeOK
<1>3. CASE talk' = [s \in Avb!Slots |-> Avb!ResetTalker(talk[s])] /\ phase' = "open"
  <2>1. talk' \in [Avb!Slots -> Avb!Talkers] /\ \A s \in Avb!Slots : talk'[s].life # "started"
    BY <1>3, TalkerReset DEF AvbInv, Avb!TypeOK
  <2>2. TalkersFit'
    BY <1>3, <2>1 DEF TalkersFit
  <2> QED BY <1>1, <1>3, <2>1, <2>2, DataPlaneStep DEF AvbInv, Avb!TypeOK
<1> QED BY <1>2, <1>3 DEF Avb!Start

LEMMA AvbSubmits == ASSUME AvbInv, Avb!Submit PROVE AvbInv'
<1>1. PICK t \in Avb!Times :
        /\ Avb!Input(t)
        /\ \/ /\ Avb!Splits(t)
              /\ talk' = [s \in Avb!Slots |-> [talk[s] EXCEPT !.expected = t + 1]]
              /\ split' = t + 1 /\ UNCHANGED phase
           \/ Avb!AbortDataPlane /\ phase' = "open"
  <2>1. 1 \in Avb!Slots
    BY AvbConstants DEF Avb!Slots
  <2> QED BY <2>1 DEF Avb!Submit
<1>2. phase = "started" /\ UNCHANGED <<control, cache, table, conn, count>>
  BY DEF Avb!Submit, Avb!session
<1>3. clock' \in Avb!Times
  BY <1>1, AvbConstants DEF Avb!Input, Avb!Times, AvbInv, Avb!TypeOK
<1>4. CASE /\ talk' = [s \in Avb!Slots |-> [talk[s] EXCEPT !.expected = t + 1]]
           /\ split' = t + 1 /\ UNCHANGED phase /\ Avb!Splits(t)
  <2>1. t + 1 \in Avb!Times
    BY <1>4, AvbConstants DEF Avb!Splits, Avb!Times
  <2>2. /\ talk' \in [Avb!Slots -> Avb!Talkers]
        /\ \A s \in Avb!Slots : talk'[s].params = talk[s].params
    BY <1>4, <2>1 DEF Avb!Talkers, AvbInv, Avb!TypeOK
  <2>3. TalkersFit'
    BY <1>2, <1>4, <2>2 DEF AvbInv, TalkersFit
  <2> QED BY <1>2, <1>3, <1>4, <2>1, <2>2, <2>3, DataPlaneStep
<1>5. CASE Avb!AbortDataPlane /\ phase' = "open"
  <2>1. TalkersFit'
    BY <1>5, DataPlaneAborted DEF TalkersFit
  <2> QED BY <1>2, <1>3, <1>5, <2>1, DataPlaneAborted, DataPlaneStep
<1> QED BY <1>1, <1>4, <1>5

LEMMA AvbStops == ASSUME AvbInv, Avb!Stop \/ Avb!ResetDataPlane PROVE AvbInv'
<1>1. /\ phase # "none" /\ split' = Absent /\ UNCHANGED <<control, cache, table, conn, count, clock>>
      /\ phase' \in {"loaded", "open", "prepared"}
  BY DEF Avb!Stop, Avb!ResetDataPlane, Avb!AbortDataPlane, Avb!session, AvbInv, Avb!TypeOK
<1>2. CASE Avb!Stop
  <2>1. PICK bad \in SUBSET Avb!Slots :
          talk' = [s \in Avb!Slots |->
            IF talk[s].life = "started" /\ s \in bad THEN talk[s] ELSE Avb!ResetTalker(talk[s])]
    BY <1>2 DEF Avb!Stop
  <2>2. /\ talk' \in [Avb!Slots -> Avb!Talkers]
        /\ \A s \in Avb!Slots : talk'[s].params = talk[s].params
    BY <2>1, TalkerReset DEF AvbInv, Avb!TypeOK
  <2>3. TalkersFit'
    BY <1>1, <1>2, <2>2 DEF Avb!Stop, AvbInv, TalkersFit
  <2> QED BY <1>1, <2>2, <2>3, DataPlaneStep DEF AvbInv, Avb!TypeOK
<1>3. CASE Avb!ResetDataPlane
  <2>1. Avb!AbortDataPlane /\ phase' \notin {"prepared", "started"}
    BY <1>3 DEF Avb!ResetDataPlane, AvbInv, Avb!TypeOK
  <2>2. TalkersFit'
    BY <2>1, DataPlaneAborted DEF TalkersFit
  <2> QED BY <1>1, <2>1, <2>2, DataPlaneAborted, DataPlaneStep DEF AvbInv, Avb!TypeOK
<1> QED BY <1>2, <1>3

LEMMA AvbStep == AvbInv /\ Avb!Next => AvbInv'
BY AvbOpens, AvbConnects, AvbDisconnects, AvbCloses, AvbPrepares, AvbStarts, AvbSubmits, AvbStops DEF Avb!Next

LEMMA AvbKept == AvbInv /\ UNCHANGED avbVars => AvbInv'
BY DEF AvbInv, avbVars, Avb!TypeOK, Avb!GateCounts, SessionCached, TalkersFit

LEMMA AvbImplied == AvbInv => Avb!AvbSafe
BY DEF AvbInv, Avb!AvbSafe, Avb!TypeOK, Avb!TalksOnConnected, Avb!OnConnected, TalkersFit

-----------------------------------------------------------------------------
(* The GenAVB shim.                                                        *)

\* Where a handle is in a call, and whether it holds the library there.
HandlePlaced(x) ==
  /\ task[x].at = "acquire" => x \notin acquired
  /\ task[x].at = "open" => x \in acquired /\ task[x].lib = genavb
  /\ task[x].at = "register" => x \in acquired

\* A stream is of the library its handle holds, a prepared one shares the
\* clock, a started one the latency and what it has sent the anchor.
TalkerPlaced(s) ==
  /\ stream[s] # 0 => s \in acquired /\ stream[s] = genavb
  /\ task[s].at = "release" => stream[s] = 0 /\ s \notin started
  /\ task[s].at \in {"open", "register"} => s \notin prepared
  /\ task[s].at = "register" => streamClock[s] \in Clocks
  /\ s \in prepared => s \in acquired /\ streamClock[s] = avtpClock /\ avtpClock \in Clocks
  /\ s \in started => s \in prepared /\ target[s] = latency
  /\ sent[s] # Absent => /\ s \in started /\ anchor # Absent
                         /\ sent[s].at - sent[s].frame = anchor.at - anchor.frame

ControlPlaced ==
  /\ opened # 0 => Ctl \in acquired /\ opened = genavb
  /\ task[Ctl].at \in {"acquire", "open", "release"} => opened = 0

\* The two counters count, and no anchor is left behind.
ShimCounted ==
  /\ users = Cardinality(acquired) /\ (genavb = 0 <=> acquired = {})
  /\ startedUsers = Cardinality(started) /\ (started = {} => anchor = Absent)

ShimInv ==
  /\ Shim!TypeOK /\ ShimCounted /\ ControlPlaced
  /\ \A x \in Shim!Handles : HandlePlaced(x)
  /\ \A s \in Transmitters : TalkerPlaced(s)

LEMMA ShimConstants ==
  /\ IsFiniteSet(Transmitters) /\ Ctl \notin Transmitters
  /\ Latencies \subseteq Nat \ {0} /\ Offset \in Nat
  /\ Absent \notin Clocks /\ Absent \notin Shim!Points
BY LinkAssumption, ShimFinite DEF Shim!GenAvbShimAssumption, Shim!Points

\* Only finitely many handles hold the library, only finitely many are started.
LEMMA HeldFinite == Shim!TypeOK => IsFiniteSet(acquired) /\ IsFiniteSet(started)
<1> SUFFICES ASSUME Shim!TypeOK PROVE IsFiniteSet(acquired) /\ IsFiniteSet(started)
  OBVIOUS
<1>1. IsFiniteSet(Transmitters \cup {Ctl})
  BY ShimConstants, FS_AddElement
<1>2. acquired \in SUBSET (Transmitters \cup {Ctl}) /\ started \in SUBSET Transmitters
  BY DEF Shim!TypeOK, Shim!Handles
<1> QED BY <1>1, <1>2, ShimConstants, FS_Subset

LEMMA ShimInit == MCInit => ShimInv
<1> SUFFICES ASSUME MCInit PROVE ShimInv
  OBVIOUS
<1> USE DEF MCInit, Shim!Init
<1>1. Shim!TypeOK
  BY DEF Shim!TypeOK, Shim!Tasks, Shim!Idle
<1>2. ShimCounted
  BY FS_EmptySet DEF ShimCounted
<1>3. \A x \in Shim!Handles : task[x].at = "idle"
  BY DEF Shim!Idle
<1>4. ControlPlaced
  BY <1>3 DEF ControlPlaced, Shim!Handles
<1>5. \A x \in Shim!Handles : HandlePlaced(x)
  BY <1>3 DEF HandlePlaced
<1>6. \A s \in Transmitters : TalkerPlaced(s)
  BY <1>3 DEF TalkerPlaced, Shim!Handles
<1> QED BY <1>1, <1>2, <1>4, <1>5, <1>6 DEF ShimInv

\* A step of handle x that only moves it on in its call, to where nothing is
\* required of it that it has not got.
LEMMA ShimMove ==
  ASSUME ShimInv, NEW x \in Shim!Handles, NEW k \in Shim!Tasks, task' = [task EXCEPT ![x] = k],
         UNCHANGED <<genavb, inits, users, avtpClock, startedUsers, anchor, latency, avtpNow,
                     acquired, prepared, started, stream, streamClock, target, opened, sent>>,
         k.at \in {"idle", "halt"} \/ (k.at = "release" /\ x = Ctl /\ opened = 0)
                \/ (k.at = "acquire" /\ x = Ctl /\ Ctl \notin acquired /\ opened = 0)
  PROVE  ShimInv'
<1>1. /\ task' \in [Shim!Handles -> Shim!Tasks] /\ task'[x] = k
      /\ \A y \in Shim!Handles : y # x => task'[y] = task[y]
  BY DEF ShimInv, Shim!TypeOK
<1>2. Shim!TypeOK'
  BY <1>1 DEF ShimInv, Shim!TypeOK
<1>3. ShimCounted'
  BY DEF ShimInv, ShimCounted
<1>4. ControlPlaced'
  BY <1>1 DEF ShimInv, ControlPlaced, Shim!Handles
<1>5. ASSUME NEW y \in Shim!Handles PROVE HandlePlaced(y)'
  BY <1>1 DEF ShimInv, HandlePlaced
<1>6. ASSUME NEW s \in Transmitters PROVE TalkerPlaced(s)'
  BY <1>1, ShimConstants DEF ShimInv, TalkerPlaced, Shim!Handles
<1> QED BY <1>2, <1>3, <1>4, <1>5, <1>6 DEF ShimInv

LEMMA ShimCalls ==
  ASSUME ShimInv,
         (\E s \in Transmitters : Shim!Prepare(s) \/ Shim!Destroy(s)) \/ Shim!Open \/ Shim!Tick
  PROVE  ShimInv'
<1> USE DEF Shim!runtime, Shim!anchored, Shim!talkers
<1>1. ASSUME NEW s \in Transmitters, Shim!Prepare(s) \/ Shim!Destroy(s) PROVE ShimInv'
  <2>1. PICK th \in {"idle", "acquire"} : task' = [task EXCEPT ![s] = [at |-> "halt", then |-> th, lib |-> 0]]
    BY <1>1 DEF Shim!Prepare, Shim!Destroy, Shim!Cleanup
  <2>2. [at |-> "halt", then |-> th, lib |-> 0] \in Shim!Tasks
    BY DEF Shim!Tasks
  <2>3. UNCHANGED <<genavb, inits, users, avtpClock, startedUsers, anchor, latency, avtpNow,
                     acquired, prepared, started, stream, streamClock, target, opened, sent>>
    BY <1>1 DEF Shim!Prepare, Shim!Destroy
  <2> QED BY <2>1, <2>2, <2>3, ShimMove DEF Shim!Handles
<1>2. CASE Shim!Open
  <2> DEFINE k == [Shim!Idle EXCEPT !.at = "acquire"]
  <2>1. /\ task' = [task EXCEPT ![Ctl] = k] /\ k \in Shim!Tasks /\ k.at = "acquire" /\ opened = 0
        /\ Ctl \notin acquired /\ Ctl \in Shim!Handles
    BY <1>2 DEF Shim!Open, Shim!Goto, Shim!Tasks, Shim!Idle, Shim!Handles
  <2>2. UNCHANGED <<genavb, inits, users, avtpClock, startedUsers, anchor, latency, avtpNow,
                     acquired, prepared, started, stream, streamClock, target, opened, sent>>
    BY <1>2 DEF Shim!Open
  <2> HIDE DEF k
  <2> QED BY <2>1, <2>2, ShimMove
<1>3. CASE Shim!Tick
  <2>1. avtpNow' \in Nat
    BY <1>3 DEF Shim!Tick, ShimInv, Shim!TypeOK
  <2>2. UNCHANGED <<genavb, inits, users, avtpClock, startedUsers, anchor, latency, task,
                     acquired, prepared, started, stream, streamClock, target, opened, sent>>
    BY <1>3 DEF Shim!Tick
  <2> QED BY <2>1, <2>2 DEF ShimInv, Shim!TypeOK, ShimCounted, ControlPlaced, HandlePlaced, TalkerPlaced
<1> QED BY <1>1, <1>2, <1>3

\* runtime_acquire: whoever else holds the library finds it as it was.
LEMMA ShimAcquires == ASSUME ShimInv, NEW x \in Shim!Handles, Shim!Acquire(x) PROVE ShimInv'
<1> USE DEF Shim!runtime, Shim!anchored, Shim!talkers
<1>1. task[x].at = "acquire" /\ x \notin acquired
  BY DEF Shim!Acquire, Shim!At, ShimInv, HandlePlaced
<1>2. UNCHANGED <<startedUsers, anchor, latency, avtpNow, prepared, started, stream, streamClock,
                  target, opened, sent>>
  BY DEF Shim!Acquire
<1>3. CASE Shim!Goto(x, "idle") /\ UNCHANGED <<Shim!runtime, acquired>>
  <2>1. [Shim!Idle EXCEPT !.at = "idle"] \in Shim!Tasks /\ [Shim!Idle EXCEPT !.at = "idle"].at = "idle"
    BY DEF Shim!Idle, Shim!Tasks
  <2> QED BY <1>2, <1>3, <2>1, ShimMove DEF Shim!Goto
<1>4. CASE /\ \/ genavb = 0 /\ inits < MaxInits /\ inits' = inits + 1 /\ genavb' = inits'
              \/ genavb # 0 /\ UNCHANGED <<genavb, inits>>
           /\ users' = users + 1 /\ acquired' = acquired \cup {x} /\ UNCHANGED avtpClock
           /\ task' = [task EXCEPT ![x] = [at |-> "open", then |-> "idle", lib |-> genavb']]
  <2>1. /\ genavb' \in Nat /\ inits' \in Nat /\ genavb' # 0 /\ (acquired # {} => genavb' = genavb)
    BY <1>4 DEF ShimInv, Shim!TypeOK, ShimCounted
  <2>2. /\ task' \in [Shim!Handles -> Shim!Tasks]
        /\ task'[x].at = "open" /\ task'[x].lib = genavb'
        /\ \A y \in Shim!Handles : y # x => task'[y] = task[y]
    BY <1>4, <2>1 DEF ShimInv, Shim!TypeOK, Shim!Tasks
  <2>3. Shim!TypeOK'
    BY <1>2, <1>4, <2>1, <2>2 DEF ShimInv, Shim!TypeOK
  <2>4. ShimCounted'
    <3>1. Cardinality(acquired') = Cardinality(acquired) + 1
      BY <1>1, <1>4, HeldFinite, FS_AddElement DEF ShimInv
    <3> QED BY <1>2, <1>4, <2>1, <3>1 DEF ShimInv, ShimCounted
  <2>5. ControlPlaced'
    BY <1>1, <1>2, <1>4, <2>1, <2>2 DEF ShimInv, ControlPlaced, Shim!Handles
  <2>6. ASSUME NEW y \in Shim!Handles PROVE HandlePlaced(y)'
    BY <1>4, <2>1, <2>2 DEF ShimInv, HandlePlaced
  <2>7. ASSUME NEW s \in Transmitters PROVE TalkerPlaced(s)'
    BY <1>1, <1>2, <1>4, <2>1, <2>2 DEF ShimInv, TalkerPlaced, Shim!Handles
  <2> QED BY <2>3, <2>4, <2>5, <2>6, <2>7 DEF ShimInv
<1> QED BY <1>3, <1>4 DEF Shim!Acquire

\* runtime_release: the last user takes library and clock with it, and nobody
\* else then has a stream, a control handle or a prepared stream.
LEMMA ShimReleases == ASSUME ShimInv, NEW x \in Shim!Handles, Shim!Release(x) PROVE ShimInv'
<1> USE DEF Shim!runtime, Shim!anchored, Shim!talkers
<1> DEFINE k == [Shim!Idle EXCEPT !.at = task[x].then]
<1>1. /\ task[x].at = "release" /\ task' = [task EXCEPT ![x] = k]
      /\ acquired' = acquired \ {x} /\ prepared' = prepared \ {x}
      /\ UNCHANGED <<startedUsers, anchor, latency, avtpNow, started, stream, streamClock, target,
                     sent, opened>>
  BY DEF Shim!Release, Shim!At, Shim!Goto
<1>2. /\ k \in Shim!Tasks /\ k.at \in {"idle", "acquire"}
      /\ task' \in [Shim!Handles -> Shim!Tasks] /\ task'[x] = k
      /\ \A y \in Shim!Handles : y # x => task'[y] = task[y]
  BY <1>1 DEF ShimInv, Shim!TypeOK, Shim!Tasks, Shim!Idle
<1> HIDE DEF k
<1>3. /\ genavb' \in Nat /\ inits' \in Nat /\ users' \in Nat /\ avtpClock' \in Clocks \cup {Absent}
      /\ users' = Cardinality(acquired') /\ (genavb' = 0 <=> acquired' = {})
      /\ acquired' # {} => genavb' = genavb /\ avtpClock' = avtpClock
  <2>0. /\ genavb \in Nat /\ inits \in Nat /\ users \in Nat /\ avtpClock \in Clocks \cup {Absent}
        /\ users = Cardinality(acquired) /\ (genavb = 0 <=> acquired = {}) /\ IsFiniteSet(acquired)
    BY HeldFinite DEF ShimInv, Shim!TypeOK, ShimCounted
  <2>1. CASE x \in acquired
    <3>1. Cardinality(acquired') = Cardinality(acquired) - 1 /\ IsFiniteSet(acquired')
      BY <1>1, <2>0, <2>1, FS_RemoveElement
    <3>2. Cardinality(acquired') \in Nat /\ (Cardinality(acquired') = 0 <=> acquired' = {})
      BY <3>1, FS_CardinalityType, FS_EmptySet
    <3>3. users' = users - 1 /\ inits' = inits
      BY <2>1 DEF Shim!Release
    <3>4. IF users = 1 THEN genavb' = 0 /\ avtpClock' = Absent ELSE UNCHANGED <<genavb, avtpClock>>
      BY <2>1 DEF Shim!Release
    <3> QED BY <2>0, <2>1, <3>1, <3>2, <3>3, <3>4
  <2>2. CASE x \notin acquired
    <3>1. UNCHANGED <<genavb, inits, users, avtpClock>> /\ acquired' = acquired
      BY <1>1, <2>2 DEF Shim!Release
    <3> QED BY <2>0, <3>1
  <2> QED BY <2>1, <2>2
<1>4. Shim!TypeOK'
  BY <1>1, <1>2, <1>3 DEF ShimInv, Shim!TypeOK
<1>5. ShimCounted'
  BY <1>1, <1>3 DEF ShimInv, ShimCounted
<1>6. ControlPlaced'
  BY <1>1, <1>2, <1>3 DEF ShimInv, ControlPlaced, Shim!Handles
<1>7. ASSUME NEW y \in Shim!Handles PROVE HandlePlaced(y)'
  BY <1>1, <1>2, <1>3 DEF ShimInv, HandlePlaced
<1>8. ASSUME NEW s \in Transmitters PROVE TalkerPlaced(s)'
  <2>1. CASE s = x
    BY <1>1, <1>2, <2>1 DEF ShimInv, TalkerPlaced
  <2>2. CASE s # x
    BY <1>1, <1>2, <1>3, <2>2 DEF ShimInv, TalkerPlaced, Shim!Handles
  <2> QED BY <2>1, <2>2
<1> QED BY <1>4, <1>5, <1>6, <1>7, <1>8 DEF ShimInv

\* Where Goto and the cleanup of a stream lead.
LEMMA ShimGoto ==
  ASSUME ShimInv, NEW x \in Shim!Handles,
         NEW step \in {"idle", "acquire", "open", "register", "halt", "release"}, Shim!Goto(x, step)
  PROVE  /\ task' \in [Shim!Handles -> Shim!Tasks] /\ task'[x].at = step
         /\ \A y \in Shim!Handles : y # x => task'[y] = task[y]
BY DEF ShimInv, Shim!TypeOK, Shim!Goto, Shim!Idle, Shim!Tasks

LEMMA ShimCleanup ==
  ASSUME ShimInv, NEW x \in Shim!Handles, Shim!Cleanup(x, "idle")
  PROVE  /\ task' \in [Shim!Handles -> Shim!Tasks] /\ task'[x].at = "halt"
         /\ \A y \in Shim!Handles : y # x => task'[y] = task[y]
BY DEF ShimInv, Shim!TypeOK, Shim!Cleanup, Shim!Tasks

\* genavb_stream_create uses the library its handle holds.
LEMMA ShimCreates == ASSUME ShimInv, NEW s \in Transmitters, Shim!CreateStream(s) PROVE ShimInv'
<1> USE DEF Shim!runtime, Shim!anchored
<1>0. s \in Shim!Handles
  BY DEF Shim!Handles
<1>1. /\ task[s].at = "open" /\ s \in acquired /\ task[s].lib = genavb /\ s \notin prepared
      /\ s \notin started /\ sent[s] = Absent
  BY <1>0 DEF Shim!CreateStream, Shim!At, ShimInv, HandlePlaced, TalkerPlaced
<1>2. UNCHANGED <<genavb, inits, users, avtpClock, startedUsers, anchor, latency, avtpNow, acquired,
                  prepared, started, sent, opened>>
  BY DEF Shim!CreateStream
<1>3. /\ task' \in [Shim!Handles -> Shim!Tasks] /\ task'[s].at \in {"register", "halt"}
      /\ \A y \in Shim!Handles : y # s => task'[y] = task[y]
  BY <1>0, ShimGoto, ShimCleanup DEF Shim!CreateStream
<1>4. /\ stream' \in [Transmitters -> Nat] /\ streamClock' \in [Transmitters -> Clocks \cup {Absent}]
      /\ target' \in [Transmitters -> Nat]
      /\ stream'[s] \in {stream[s], genavb} /\ (task'[s].at = "register" => streamClock'[s] \in Clocks)
      /\ \A r \in Transmitters : r # s =>
           stream'[r] = stream[r] /\ streamClock'[r] = streamClock[r] /\ target'[r] = target[r]
  <2>1. CASE stream' = [stream EXCEPT ![s] = task[s].lib] /\ Shim!Goto(s, "register")
    <3>1. PICK c \in Clocks, l \in Latencies :
            streamClock' = [streamClock EXCEPT ![s] = c] /\ target' = [target EXCEPT ![s] = l]
      <4>1. task'[s].at = "register"
        BY <2>1, <1>0, ShimGoto
      <4>2. ~Shim!Cleanup(s, "idle")
        BY <1>0, <4>1, ShimCleanup
      <4> QED BY <4>2 DEF Shim!CreateStream
    <3>2. l \in Nat
      BY ShimConstants
    <3> QED BY <1>1, <2>1, <3>1, <3>2 DEF ShimInv, Shim!TypeOK
  <2>2. CASE Shim!Cleanup(s, "idle") /\ UNCHANGED <<stream, streamClock, target>>
    BY <1>0, <2>2, ShimCleanup DEF ShimInv, Shim!TypeOK
  <2> QED BY <2>1, <2>2 DEF Shim!CreateStream
<1>5. Shim!TypeOK'
  BY <1>2, <1>3, <1>4 DEF ShimInv, Shim!TypeOK
<1>6. ShimCounted'
  BY <1>2 DEF ShimInv, ShimCounted
<1>7. ControlPlaced'
  BY <1>2, <1>3, ShimConstants DEF ShimInv, ControlPlaced, Shim!Handles
<1>8. ASSUME NEW y \in Shim!Handles PROVE HandlePlaced(y)'
  BY <1>1, <1>2, <1>3 DEF ShimInv, HandlePlaced
<1>9. ASSUME NEW r \in Transmitters PROVE TalkerPlaced(r)'
  <2>1. CASE r = s
    BY <1>1, <1>2, <1>3, <1>4, <2>1 DEF ShimInv, TalkerPlaced
  <2>2. CASE r # s
    BY <1>2, <1>3, <1>4, <2>2 DEF ShimInv, TalkerPlaced, Shim!Handles
  <2> QED BY <2>1, <2>2
<1> QED BY <1>5, <1>6, <1>7, <1>8, <1>9 DEF ShimInv

\* runtime_register_clock: the first prepared stream chooses the clock.
LEMMA ShimRegisters == ASSUME ShimInv, NEW s \in Transmitters, Shim!RegisterClock(s) PROVE ShimInv'
<1> USE DEF Shim!runtime, Shim!anchored
<1>0. s \in Shim!Handles
  BY DEF Shim!Handles
<1>1. /\ task[s].at = "register" /\ s \in acquired /\ s \notin prepared /\ streamClock[s] \in Clocks
      /\ avtpClock' = IF avtpClock = Absent THEN streamClock[s] ELSE avtpClock
      /\ UNCHANGED <<genavb, inits, users, startedUsers, anchor, latency, avtpNow, acquired, started,
                     stream, streamClock, target, sent, opened>>
  BY <1>0 DEF Shim!RegisterClock, Shim!At, ShimInv, HandlePlaced, TalkerPlaced
<1>2. /\ task' \in [Shim!Handles -> Shim!Tasks] /\ task'[s].at \in {"idle", "halt"}
      /\ \A y \in Shim!Handles : y # s => task'[y] = task[y]
  BY <1>0, ShimGoto, ShimCleanup DEF Shim!RegisterClock
<1>3. \/ prepared' = prepared \cup {s} /\ avtpClock' = streamClock[s]
      \/ prepared' = prepared
  BY DEF Shim!RegisterClock
<1>4. avtpClock' \in Clocks /\ (avtpClock \in Clocks => avtpClock' = avtpClock)
  BY <1>1, ShimConstants DEF ShimInv, Shim!TypeOK
<1>5. Shim!TypeOK'
  BY <1>1, <1>2, <1>3, <1>4 DEF ShimInv, Shim!TypeOK
<1>6. ShimCounted'
  BY <1>1 DEF ShimInv, ShimCounted
<1>7. ControlPlaced'
  BY <1>1, <1>2, ShimConstants DEF ShimInv, ControlPlaced, Shim!Handles
<1>8. ASSUME NEW y \in Shim!Handles PROVE HandlePlaced(y)'
  BY <1>1, <1>2 DEF ShimInv, HandlePlaced
<1>9. ASSUME NEW r \in Transmitters PROVE TalkerPlaced(r)'
  <2>1. CASE r = s
    BY <1>1, <1>2, <1>3, <1>4, <2>1 DEF ShimInv, TalkerPlaced
  <2>2. CASE r # s
    BY <1>1, <1>2, <1>3, <1>4, <2>2 DEF ShimInv, TalkerPlaced, Shim!Handles
  <2> QED BY <2>1, <2>2
<1> QED BY <1>5, <1>6, <1>7, <1>8, <1>9 DEF ShimInv

\* The control handle opens in the library it holds and closes before it is
\* given back.
LEMMA ShimControls == ASSUME ShimInv, Shim!ControlOpen \/ Shim!Close PROVE ShimInv'
<1> USE DEF Shim!runtime, Shim!anchored, Shim!talkers
<1>0. Ctl \in Shim!Handles
  BY DEF Shim!Handles
<1>1. UNCHANGED <<genavb, inits, users, avtpClock, startedUsers, anchor, latency, avtpNow, acquired,
                  prepared, started, stream, streamClock, target, sent>>
  BY DEF Shim!ControlOpen, Shim!Close
<1>2. /\ task' \in [Shim!Handles -> Shim!Tasks] /\ task'[Ctl].at \in {"idle", "release"}
      /\ \A y \in Shim!Handles : y # Ctl => task'[y] = task[y]
  BY <1>0, ShimGoto DEF Shim!ControlOpen, Shim!Close
<1>3. /\ opened' \in Nat
      /\ \/ opened' = 0
         \/ opened' = genavb /\ Ctl \in acquired /\ task'[Ctl].at = "idle"
  <2>1. CASE Shim!Close
    BY <2>1 DEF Shim!Close
  <2>2. CASE Shim!ControlOpen
    <3>1. task[Ctl].at = "open" /\ opened = 0 /\ Ctl \in acquired /\ task[Ctl].lib = genavb
      BY <1>0, <2>2 DEF Shim!ControlOpen, Shim!At, ShimInv, HandlePlaced, ControlPlaced
    <3> QED BY <1>0, <2>2, <3>1, ShimGoto DEF Shim!ControlOpen, ShimInv, Shim!TypeOK
  <2> QED BY <2>1, <2>2
<1>4. Shim!TypeOK'
  BY <1>1, <1>2, <1>3 DEF ShimInv, Shim!TypeOK
<1>5. ShimCounted'
  BY <1>1 DEF ShimInv, ShimCounted
<1>6. ControlPlaced'
  BY <1>1, <1>2, <1>3 DEF ControlPlaced
<1>7. ASSUME NEW y \in Shim!Handles PROVE HandlePlaced(y)'
  BY <1>1, <1>2 DEF ShimInv, HandlePlaced
<1>8. ASSUME NEW r \in Transmitters PROVE TalkerPlaced(r)'
  BY <1>1, <1>2, ShimConstants DEF ShimInv, TalkerPlaced, Shim!Handles
<1> QED BY <1>4, <1>5, <1>6, <1>7, <1>8 DEF ShimInv

\* anchor_stop: the anchor goes with the last started stream, not before.
LEMMA AnchorStopped ==
  ASSUME ShimInv, NEW s \in Transmitters, Shim!AnchorStop(s), started' = started \ {s}
  PROVE  /\ startedUsers' \in Nat /\ startedUsers' = Cardinality(started')
         /\ anchor' \in Shim!Points \cup {Absent} /\ latency' \in Nat
         /\ started' = {} => anchor' = Absent
         /\ started' # {} => anchor' = anchor /\ latency' = latency
<1>1. /\ startedUsers \in Nat /\ startedUsers = Cardinality(started) /\ IsFiniteSet(started)
      /\ anchor \in Shim!Points \cup {Absent} /\ latency \in Nat
      /\ started = {} => anchor = Absent
  BY HeldFinite DEF ShimInv, Shim!TypeOK, ShimCounted
<1>2. CASE s \in started
  <2>1. Cardinality(started') = Cardinality(started) - 1 /\ IsFiniteSet(started')
    BY <1>1, <1>2, FS_RemoveElement
  <2>2. Cardinality(started') \in Nat /\ (Cardinality(started') = 0 <=> started' = {})
    BY <2>1, FS_CardinalityType, FS_EmptySet
  <2>3. /\ startedUsers' = startedUsers - 1
        /\ IF startedUsers = 1 THEN anchor' = Absent /\ latency' = 0 ELSE UNCHANGED <<anchor, latency>>
    BY <1>2 DEF Shim!AnchorStop
  <2> QED BY <1>1, <2>1, <2>2, <2>3
<1>3. CASE s \notin started
  <2>1. UNCHANGED <<startedUsers, anchor, latency>> /\ started' = started
    BY <1>3 DEF Shim!AnchorStop, Shim!anchored
  <2> QED BY <1>1, <2>1
<1> QED BY <1>2, <1>3

\* A stream that stops, or is cleaned up, leaves the others on their timeline.
LEMMA ShimStops == ASSUME ShimInv, NEW s \in Transmitters, Shim!Halt(s) \/ Shim!Stop(s) PROVE ShimInv'
<1> USE DEF Shim!runtime
<1>0. s \in Shim!Handles
  BY DEF Shim!Handles
<1>1. /\ started' = started \ {s} /\ Shim!AnchorStop(s)
      /\ sent' = [sent EXCEPT ![s] = Absent]
      /\ UNCHANGED <<genavb, inits, users, avtpClock, avtpNow, acquired, prepared, streamClock, target,
                     opened>>
  BY DEF Shim!Halt, Shim!Stop
<1>2. /\ task' \in [Shim!Handles -> Shim!Tasks]
      /\ \/ task'[s].at = "release" /\ stream' = [stream EXCEPT ![s] = 0]
         \/ task'[s] = task[s] /\ stream' = stream
      /\ \A y \in Shim!Handles : y # s => task'[y] = task[y]
  <2>1. CASE Shim!Halt(s)
    BY <1>0, <2>1 DEF Shim!Halt, ShimInv, Shim!TypeOK, Shim!Tasks
  <2>2. CASE Shim!Stop(s)
    BY <1>0, <2>2 DEF Shim!Stop, ShimInv, Shim!TypeOK
  <2> QED BY <2>1, <2>2
<1>3. /\ stream' \in [Transmitters -> Nat] /\ sent' \in [Transmitters -> Shim!Points \cup {Absent}]
      /\ stream'[s] \in {0, stream[s]} /\ (task'[s].at = "release" => stream'[s] = 0) /\ sent'[s] = Absent
      /\ \A r \in Transmitters : r # s => stream'[r] = stream[r] /\ sent'[r] = sent[r]
  BY <1>0, <1>1, <1>2 DEF ShimInv, Shim!TypeOK, TalkerPlaced
<1>4. Shim!TypeOK'
  BY <1>1, <1>2, <1>3, AnchorStopped DEF ShimInv, Shim!TypeOK
<1>5. ShimCounted'
  BY <1>1, AnchorStopped DEF ShimInv, ShimCounted
<1>6. ControlPlaced'
  BY <1>1, <1>2, ShimConstants DEF ShimInv, ControlPlaced, Shim!Handles
<1>7. ASSUME NEW y \in Shim!Handles PROVE HandlePlaced(y)'
  BY <1>1, <1>2 DEF ShimInv, HandlePlaced
<1>8. ASSUME NEW r \in Transmitters PROVE TalkerPlaced(r)'
  <2>1. CASE r = s
    BY <1>1, <1>2, <1>3, <2>1 DEF ShimInv, TalkerPlaced
  <2>2. CASE r # s
    <3>1. r \in started => r \in started' /\ anchor' = anchor /\ latency' = latency
      BY <1>1, <2>2, AnchorStopped
    <3> QED BY <1>1, <1>2, <1>3, <2>2, <3>1 DEF ShimInv, TalkerPlaced, Shim!Handles
  <2> QED BY <2>1, <2>2
<1> QED BY <1>4, <1>5, <1>6, <1>7, <1>8 DEF ShimInv

\* anchor_start: the first stream finds no anchor, a later one shares latency
\* and anchor with those that run.
LEMMA ShimStarts == ASSUME ShimInv, NEW s \in Transmitters, Shim!Start(s) PROVE ShimInv'
<1> USE DEF Shim!runtime
<1>0. s \in Shim!Handles
  BY DEF Shim!Handles
<1>1. /\ task[s].at = "idle" /\ s \in prepared /\ s \notin started /\ started' = started \cup {s}
      /\ startedUsers' = startedUsers + 1
      /\ UNCHANGED <<genavb, inits, users, avtpClock, avtpNow, task, acquired, prepared, stream,
                     streamClock, target, sent, opened>>
  BY DEF Shim!Start, Shim!At
<1>2. /\ startedUsers \in Nat /\ Cardinality(started') = startedUsers + 1
      /\ startedUsers = 0 <=> started = {}
  BY <1>1, HeldFinite, FS_AddElement, FS_EmptySet DEF ShimInv, Shim!TypeOK, ShimCounted
<1>3. /\ latency' = target[s] /\ anchor' = anchor
      /\ started # {} => latency' = latency
  BY <1>2 DEF Shim!Start, ShimInv, ShimCounted
<1>4. Shim!TypeOK'
  BY <1>1, <1>2, <1>3 DEF ShimInv, Shim!TypeOK
<1>5. ShimCounted'
  BY <1>1, <1>2, <1>3 DEF ShimInv, ShimCounted
<1>6. ControlPlaced'
  BY <1>1 DEF ShimInv, ControlPlaced
<1>7. ASSUME NEW y \in Shim!Handles PROVE HandlePlaced(y)'
  BY <1>1 DEF ShimInv, HandlePlaced
<1>8. ASSUME NEW r \in Transmitters PROVE TalkerPlaced(r)'
  BY <1>1, <1>3 DEF ShimInv, TalkerPlaced
<1> QED BY <1>4, <1>5, <1>6, <1>7, <1>8 DEF ShimInv

\* anchor_presentation_time: a block that is sent is as far from the anchor in
\* AVTP time as in media time.
LEMMA ShimSubmits ==
  ASSUME ShimInv, NEW s \in Transmitters, NEW frame \in 0 .. LastFrame, Shim!Submit(s, frame)
  PROVE  ShimInv'
<1> USE DEF Shim!runtime
<1>1. /\ s \in started /\ anchor' = Shim!Anchored(s, frame)
      /\ UNCHANGED <<genavb, inits, users, avtpClock, startedUsers, latency, avtpNow, task, acquired,
                     prepared, started, stream, streamClock, target, opened>>
  BY DEF Shim!Submit
<1>2. /\ frame \in Nat /\ target[s] \in Nat /\ avtpNow \in Nat /\ anchor \in Shim!Points \cup {Absent}
      /\ sent \in [Transmitters -> Shim!Points \cup {Absent}]
  BY LinkAssumption DEF ShimInv, Shim!TypeOK, Shim!GenAvbShimAssumption
<1>3. /\ anchor' \in Shim!Points /\ anchor' # Absent
      /\ anchor # Absent => anchor' = anchor
  BY <1>1, <1>2, ShimConstants DEF Shim!Anchored, Shim!Points
<1>4. anchor'.frame \in Nat /\ anchor'.at \in Nat
  BY <1>3 DEF Shim!Points
<1>5. /\ sent' \in [Transmitters -> Shim!Points \cup {Absent}]
      /\ \/ sent'[s] = sent[s]
         \/ sent'[s].at - sent'[s].frame = anchor'.at - anchor'.frame
      /\ \A r \in Transmitters : r # s => sent'[r] = sent[r]
  <2>1. CASE UNCHANGED sent
    BY <1>2, <2>1
  <2>2. CASE frame >= anchor'.frame /\ sent' = [sent EXCEPT ![s] =
                      [frame |-> frame, at |-> anchor'.at + (frame - anchor'.frame)]]
    <3> DEFINE p == [frame |-> frame, at |-> anchor'.at + (frame - anchor'.frame)]
    <3>1. p \in Shim!Points /\ p.at - p.frame = anchor'.at - anchor'.frame
      BY <1>2, <1>4, <2>2 DEF Shim!Points
    <3>2. sent' = [sent EXCEPT ![s] = p]
      BY <2>2
    <3> HIDE DEF p
    <3> QED BY <1>2, <3>1, <3>2
  <2> QED BY <2>1, <2>2 DEF Shim!Submit
<1>6. Shim!TypeOK'
  BY <1>1, <1>3, <1>5 DEF ShimInv, Shim!TypeOK
<1>7. ShimCounted'
  BY <1>1 DEF ShimInv, ShimCounted
<1>8. ControlPlaced'
  BY <1>1 DEF ShimInv, ControlPlaced
<1>9. ASSUME NEW y \in Shim!Handles PROVE HandlePlaced(y)'
  BY <1>1 DEF ShimInv, HandlePlaced
<1>10. ASSUME NEW r \in Transmitters PROVE TalkerPlaced(r)'
  <2>1. CASE r = s
    BY <1>1, <1>3, <1>5, <2>1 DEF ShimInv, TalkerPlaced
  <2>2. CASE r # s
    BY <1>1, <1>3, <1>5, <2>2 DEF ShimInv, TalkerPlaced
  <2> QED BY <2>1, <2>2
<1> QED BY <1>6, <1>7, <1>8, <1>9, <1>10 DEF ShimInv

LEMMA ShimStep == ShimInv /\ Shim!Next => ShimInv'
BY ShimCalls, ShimAcquires, ShimReleases, ShimCreates, ShimRegisters, ShimControls, ShimStops,
   ShimStarts, ShimSubmits DEF Shim!Next, Shim!Talker

LEMMA ShimKept == ShimInv /\ UNCHANGED shimVars => ShimInv'
BY DEF ShimInv, shimVars, Shim!TypeOK, ShimCounted, ControlPlaced, HandlePlaced, TalkerPlaced

LEMMA ShimImplied == ShimInv => Shim!ShimSafe
<1> SUFFICES ASSUME ShimInv PROVE Shim!ShimSafe
  OBVIOUS
<1>1. Shim!TypeOK /\ Shim!RuntimeCounted
  BY SameCardinality DEF ShimInv, ShimCounted, Shim!RuntimeCounted
<1>2. Shim!NativeAlive
  BY DEF ShimInv, HandlePlaced, TalkerPlaced, ControlPlaced, Shim!NativeAlive, Shim!At
<1>3. Shim!OneClock
  BY DEF ShimInv, TalkerPlaced, Shim!OneClock, Shim!TypeOK
<1>4. Shim!OneTimeline
  BY DEF ShimInv, ShimCounted, TalkerPlaced, Shim!OneTimeline, Shim!TypeOK
<1> QED BY <1>1, <1>2, <1>3, <1>4 DEF Shim!ShimSafe

\* The AVDECC-driven runtime and the native shim: the start gate counts the
\* connected slots, a talker uses connected parameters; the library is there
\* exactly while a handle holds it, and the streams that have started share
\* clock, latency and timeline.
THEOREM AvbSafety == MCSpec => []AvbSound
<1> DEFINE Inv == AvbInv /\ ShimInv
<1>1. MCInit => Inv
  BY AvbInit, ShimInit
<1>2. ASSUME Inv, [MCNext]_<<focus, vars, avbVars, shimVars, aooVars, espVars>> PROVE Inv'
  <2>1. CASE AvbMoves
    BY <1>2, <2>1, AvbStep, ShimKept DEF AvbMoves
  <2>2. CASE ShimMoves
    BY <1>2, <2>2, ShimStep, AvbKept DEF ShimMoves
  <2>3. CASE UNCHANGED <<avbVars, shimVars>>
    BY <1>2, <2>3, AvbKept, ShimKept
  <2> QED BY <1>2, <2>1, <2>2, <2>3 DEF MCNext, SetMoves, AooMoves, EspMoves
<1>3. Inv => AvbSound
  BY AvbImplied, ShimImplied DEF AvbSound
<1> QED BY <1>1, <1>2, <1>3, PTL DEF MCSpec
=============================================================================
