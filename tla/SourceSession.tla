---------------------------- MODULE SourceSession ----------------------------
(***************************************************************************)
(* SourceManager of aurora-plugin-api and SourceMediaRuntime of            *)
(* aurora-source-runtime, which decodes a validation chunk of a candidate  *)
(* and releases it once its session is active.  Commands name a session, a *)
(* source with a generation; a command of a replaced generation may arrive *)
(* at any time.  A refused command changes nothing and is a stutter.       *)
(*                                                                         *)
(* Abstraction: a media reference is well formed or not; of the            *)
(* capabilities only can_pause decides about a state change (seek, next    *)
(* and previous change nothing); identifiers are model values.             *)
(***************************************************************************)
EXTENDS Naturals

CONSTANTS Sources, MaxGeneration, None

States == {"Available", "Active", "Paused", "Draining", "Failed", "Stopped"}
Sessions == [source : Sources, generation : 1 .. MaxGeneration]

VARIABLES sources,   \* SourceManager::sources
          active,    \* SourceManager::active
          chunks,    \* sessions of the PreparedSourceChunks the caller holds
          released   \* sessions whose chunk crossed the activation boundary last

smVars == <<sources, active, chunks, released>>

\* SourceRecord; generation 0 is a source that is not registered.
Unregistered == [generation |-> 0, permitted |-> FALSE, state |-> "Stopped", prepared |-> None]
Prepared == [generation : 1 .. MaxGeneration, canPause : BOOLEAN]
Records == [generation : 0 .. MaxGeneration, permitted : BOOLEAN, state : States,
            prepared : Prepared \union {None}]

TypeOK ==
  /\ sources \in [Sources -> Records]
  /\ active \in Sessions \union {None}
  /\ chunks \subseteq Sessions
  /\ released \in Sessions \union {None}

Init ==
  /\ sources = [s \in Sources |-> Unregistered]
  /\ active = None
  /\ chunks = {}
  /\ released = None

-----------------------------------------------------------------------------

\* register and replace_registration; `permitted' is permits_playback_control of
\* the new authorization.  A definition that validate_registration refuses is a
\* stutter, as is a generation that would overflow.
Define(s, permitted) ==
  sources' = [sources EXCEPT ![s] = [generation |-> @.generation + 1,
                                     permitted |-> permitted,
                                     state |-> "Available",
                                     prepared |-> None]]

Register(s, permitted) ==
  /\ sources[s].generation = 0
  /\ Define(s, permitted)
  /\ UNCHANGED <<active, chunks, released>>

ReplaceKeepsActive(s, permitted) ==    \* Mutant: the active session is not cleared.
  /\ sources[s].generation \in 1 .. MaxGeneration - 1
  /\ Define(s, permitted)
  /\ UNCHANGED <<active, chunks, released>>

ReplaceRegistration(s, permitted) ==
  /\ sources[s].generation \in 1 .. MaxGeneration - 1
  /\ Define(s, permitted)
  /\ active' = IF active # None /\ active.source = s THEN None ELSE active
  /\ UNCHANGED <<chunks, released>>

\* record_for_session and ensure_generation.
Current(session) == sources[session.source].generation = session.generation

\* prepare: the state passes through Preparing within the call.
Prepare(session, canPause) ==
  /\ Current(session)
  /\ sources[session.source].permitted
  /\ sources' = [sources EXCEPT
       ![session.source].state = "Available",
       ![session.source].prepared = [generation |-> session.generation, canPause |-> canPause]]
  /\ UNCHANGED <<active, chunks, released>>

\* fail_prepare.
FailPrepare(session) ==
  /\ Current(session)
  /\ sources' = [sources EXCEPT ![session.source].state = "Failed",
                                ![session.source].prepared = None]
  /\ UNCHANGED <<active, chunks, released>>

\* Mutant: the previous source keeps its state.
NotDrained(session) == sources

\* activate: the source that was active drains.
Drained(session) ==
  IF active # None /\ active # session /\ Current(active)
  THEN [sources EXCEPT ![active.source].state = "Draining"]
  ELSE sources

Activate(session) ==
  /\ Current(session)
  /\ sources[session.source].prepared # None
  /\ sources' = [Drained(session) EXCEPT ![session.source].state = "Active"]
  /\ active' = session
  /\ UNCHANGED <<chunks, released>>

\* transport: the intents that change a state.
Transport(session, intent) ==
  LET record == sources[session.source] IN
  /\ active = session
  /\ Current(session)
  /\ record.permitted
  /\ record.prepared # None
  /\ intent = "Pause" => record.prepared.canPause
  /\ sources' = [sources EXCEPT ![session.source].state =
                   CASE intent = "Play" -> "Active"
                     [] intent = "Pause" -> "Paused"
                     [] intent = "Stop" -> "Stopped"]
  /\ active' = IF intent = "Stop" THEN None ELSE active
  /\ UNCHANGED <<chunks, released>>

\* prepare_source_chunk: load, decode, check and render the first chunk of a
\* prepared candidate.  Any of these may fail, which changes nothing here.
PrepareChunk(session) ==
  /\ Current(session)
  /\ sources[session.source].prepared # None
  /\ sources[session.source].prepared.generation = session.generation
  /\ chunks' = chunks \union {session}
  /\ UNCHANGED <<sources, active, released>>

CommitPrepared(session) ==    \* Mutant: being prepared is enough.
  /\ session \in chunks
  /\ chunks' = chunks \ {session}
  /\ released' = IF Current(session) THEN session ELSE released
  /\ UNCHANGED <<sources, active>>

\* commit_active consumes the chunk whether it releases it or not.
CommitActive(session) ==
  /\ session \in chunks
  /\ chunks' = chunks \ {session}
  /\ released' = IF active = session /\ Current(session) THEN session ELSE released
  /\ UNCHANGED <<sources, active>>

Next ==
  \/ \E s \in Sources, permitted \in BOOLEAN :
       Register(s, permitted) \/ ReplaceRegistration(s, permitted)
  \/ \E session \in Sessions :
       \/ \E canPause \in BOOLEAN : Prepare(session, canPause)
       \/ FailPrepare(session)
       \/ Activate(session)
       \/ \E intent \in {"Play", "Pause", "Stop"} : Transport(session, intent)
       \/ PrepareChunk(session)
       \/ CommitActive(session)

Spec == Init /\ [][Next]_smVars

-----------------------------------------------------------------------------

(* At most one source plays or is paused, it is the active session, and the   *)
(* active session is of the current generation of its source: replacing a     *)
(* registration invalidates "every command or prepared candidate from the     *)
(* previous generation".                                                      *)
OnlyActivePlays ==
  /\ active # None => Current(active)
  /\ \A s \in Sources :
       sources[s].state \in {"Active", "Paused"} =>
         active = [source |-> s, generation |-> sources[s].generation]

(* "stale or merely prepared candidates cannot enter the downstream playback  *)
(* path": a chunk is released only while its session is active and current,   *)
(* however long the caller held it and whatever was registered since.         *)
ReleasedOnlyActive ==
  [][released' # released => active = released' /\ Current(released')]_smVars

=============================================================================
