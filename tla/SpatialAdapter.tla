--------------------------- MODULE SpatialAdapter ---------------------------
(***************************************************************************)
(* The opt-in libspatialaudio renderer: selection from a configuration, a  *)
(* prepared plan or a selection document, the scene bound to the plan, the *)
(* shim library loaded at run time, the adapter around its native handle,  *)
(* and the engine materialised with it.                                    *)
(*                                                                         *)
(* Abstraction: a configuration, plan or intent is the set of the checked  *)
(* aspects in which it is the proven one, so every refusal is one outcome. *)
(* A speaker is its role, a direction and a radius.  The twelve channels   *)
(* are the roles of Canonical.  Object audio is the block it came with.    *)
(* The library and its shim are external: each call may fail.              *)
(***************************************************************************)
EXTENDS Integers, Sequences, FiniteSets, SequencesExt

CONSTANTS Canonical,       \* the canonical roles in order
          Configurations,  \* [proven: SUBSET ConfigAspects, speakers: seq of [role, active, dir]]
          Scenes,          \* [standard, valid, speakers: seq of [role, enabled, dir, radius]]
          Intents,         \* selection documents: SUBSET IntentAspects
          ObjectLimits,    \* numbers of objects the adapter is configured for
          MaxBlocks        \* bound: blocks rendered in one deployment

VARIABLES pc,              \* where the deployment stands
          plan,            \* the prepared plan, or NoPlan
          engine,          \* what the engine is built from; given and planned are history
          adapter,         \* LibspatialaudioRenderer: configured, max, pointers
          shim,            \* external: library open, handle, its object limit
          block,           \* blocks rendered
          heard            \* blocks the native renderer took samples from in its last call

spVars == <<pc, plan, engine, adapter, shim, block, heard>>

ConfigAspects == {"layout", "media", "component", "kind", "contract", "pin", "payload"}

IntentAspects == {"enabled", "schema", "component", "version", "contract", "path", "media"}

NoPlan == [kind |-> "none", speakers |-> <<>>]

NotLoaded == [configured |-> FALSE, max |-> 0, pointers |-> <<>>]

Closed == [open |-> FALSE, handle |-> FALSE, conforms |-> FALSE, max |-> 0, misused |-> FALSE]

NoEngine == [via |-> "none", scene |-> <<>>, given |-> <<>>, planned |-> <<>>]

Init == /\ pc = "idle" /\ plan = NoPlan /\ engine = NoEngine
        /\ adapter = NotLoaded /\ shim = Closed /\ block = 0 /\ heard = {}

-----------------------------------------------------------------------------
(* Selection                                                               *)

ValidConfiguration(c) == c.proven = ConfigAspects

\* validate_runtime_registration: every channel has an active speaker.
RegistrationAccepts(c) ==
  Cardinality({i \in DOMAIN c.speakers : c.speakers[i].active}) = Len(Canonical)

PrepareRuntimePlan(c) ==
  /\ pc = "idle" /\ ValidConfiguration(c) /\ RegistrationAccepts(c)
  /\ plan' = [kind |-> "ExternalObjectPcm", speakers |-> c.speakers]
  /\ UNCHANGED <<pc, engine, adapter, shim, block, heard>>

\* A plan for a renderer of the builtin registry.
PrepareBuiltinPlan(c) ==
  /\ pc = "idle"
  /\ plan' = [kind |-> "Gain", speakers |-> c.speakers]
  /\ UNCHANGED <<pc, engine, adapter, shim, block, heard>>

ValidPreparedPlan ==
  /\ plan.kind = "ExternalObjectPcm"
  /\ [i \in DOMAIN plan.speakers |-> plan.speakers[i].role] = Canonical
  /\ \A i \in DOMAIN plan.speakers : plan.speakers[i].active

WithRole(speakers, role) == SelectInSeq(speakers, LAMBDA s : s.role = role)

Bindable(scene) ==
  /\ scene.standard /\ Len(scene.speakers) = Len(Canonical)
  /\ \A i \in DOMAIN plan.speakers :
       /\ Cardinality({k \in DOMAIN scene.speakers : scene.speakers[k].role = plan.speakers[i].role}) = 1
       /\ LET s == scene.speakers[WithRole(scene.speakers, plan.speakers[i].role)]
          IN s.enabled = plan.speakers[i].active /\ s.radius > 0

\* Mutant: plan and scene are taken to list the speakers in one order.
BindByIndex(scene) ==
  [scene EXCEPT !.speakers = [k \in DOMAIN @ |-> [@[k] EXCEPT !.dir = plan.speakers[k].dir]]]

\* bind_scene_to_prepared_plan: the plan's direction at the scene's distance.
BindScene(scene) ==
  [scene EXCEPT !.speakers =
     [k \in DOMAIN @ |->
        [@[k] EXCEPT !.dir = plan.speakers[WithRole(plan.speakers, scene.speakers[k].role)].dir]]]

\* ordered_speakers: the first of every canonical role; scene.standard is layout 7.1.4.
Complete(scene) == \A k \in DOMAIN Canonical : WithRole(scene.speakers, Canonical[k]) # 0

OrderedSpeakers(scene) ==
  [k \in DOMAIN Canonical |-> scene.speakers[WithRole(scene.speakers, Canonical[k])]]

ValidateFor(intent, mediaMatches, scene) ==
  /\ intent = IntentAspects /\ mediaMatches
  /\ scene.standard /\ Complete(scene)
  /\ \A k \in DOMAIN Canonical : OrderedSpeakers(scene)[k].enabled

V1(absolute) == IF absolute THEN IntentAspects ELSE IntentAspects \ {"path"}

Selected(via, scene, given) ==
  /\ pc' = "selected"
  /\ engine' = [via |-> via, scene |-> scene, given |-> given, planned |-> plan.speakers]
  /\ UNCHANGED <<plan, adapter, shim, block, heard>>

\* materialize_libspatialaudio_engine_from_prepared_plan
SelectFromPlan(scene, absolute, mediaMatches) ==
  /\ pc = "idle" /\ ValidPreparedPlan /\ Bindable(scene)
  /\ ValidateFor(V1(absolute), mediaMatches, BindScene(scene))
  /\ Selected("plan", BindScene(scene), scene)

\* selection_from_configuration_v4: the scene stays as it is.
SelectFromConfiguration(c, scene, absolute, mediaMatches) ==
  /\ pc = "idle" /\ ValidConfiguration(c) /\ absolute
  /\ ValidateFor(V1(absolute), mediaMatches, scene)
  /\ Selected("configuration", scene, scene)

SelectFromDocument(intent, scene, mediaMatches) ==
  /\ pc = "idle" /\ ValidateFor(intent, mediaMatches, scene)
  /\ Selected("document", scene, scene)

-----------------------------------------------------------------------------
(* The native library                                                      *)

\* External: a call into the library or with the handle.
Misuse == shim.misused \/ ~shim.open \/ ~shim.handle

\* LibspatialaudioRenderer::load: the loader, the version, a symbol or create fails, and
\* the library is closed again.
LoadFails == /\ pc = "selected"
             /\ pc' = "idle" /\ engine' = NoEngine
             /\ UNCHANGED <<plan, adapter, shim, block, heard>>

\* A library of this version may still have other channels or another latency.
Load(conforms) ==
  /\ pc = "selected"
  /\ shim' = [shim EXCEPT !.open = TRUE, !.handle = TRUE, !.conforms = conforms, !.max = 0]
  /\ adapter' = NotLoaded
  /\ pc' = "loaded"
  /\ UNCHANGED <<plan, engine, block, heard>>

\* External: aurora_spaudio_configure keeps what it had when it fails.
NativeConfigured(max, works) ==
  [shim EXCEPT !.max = IF works THEN max ELSE @, !.misused = Misuse]

\* Mutant: the adapter takes the new limit before the native call.
ConfigureEarly(max, works) ==
  /\ shim' = NativeConfigured(max, works)
  /\ adapter' = [configured |-> adapter.configured \/ works, max |-> max,
                 pointers |-> [i \in 1 .. max |-> 0]]

\* ObjectPcmRenderer::configure after its checks of rate, block, limit and layout: the
\* native call, then channels and latency, then the adapter's own buffers.
ConfigureNative(max, works) ==
  /\ shim' = NativeConfigured(max, works)
  /\ adapter' = IF works /\ shim.conforms THEN
                  [configured |-> TRUE, max |-> max, pointers |-> [i \in 1 .. max |-> 0]]
                ELSE adapter

CanonicalLayout(scene) ==
  \A k \in DOMAIN OrderedSpeakers(scene) : OrderedSpeakers(scene)[k].role = Canonical[k]

\* materialize_realtime_engine_with_pcm_renderer configures, sizes the delays and builds.
Materialize(works) ==
  /\ pc = "loaded" /\ CanonicalLayout(engine.scene)
  /\ ConfigureNative(1, works)
  /\ pc' = IF adapter'.configured /\ works /\ engine.scene.valid THEN "running" ELSE "dropping"
  /\ UNCHANGED <<plan, engine, block, heard>>

\* The adapter used without an engine, and configured again.
Reconfigure(max, works) ==
  /\ pc \in {"loaded", "direct"} /\ max > 0
  /\ ConfigureNative(max, works)
  /\ pc' = "direct"
  /\ UNCHANGED <<plan, engine, block, heard>>

\* External: the native renderer reads the samples of the objects it is told of.
NativeRender(count, pointers) == {pointers[i] : i \in 1 .. count}

\* Mutant: the native renderer is told of every slot.
RenderAllSlots(objects) ==
  LET now == block + 1
      filled == [i \in DOMAIN adapter.pointers |->
                   IF i <= Len(objects) THEN now ELSE adapter.pointers[i]]
  IN /\ adapter' = [adapter EXCEPT !.pointers = filled]
     /\ heard' = NativeRender(adapter.max, filled)

\* fill_listener_relative_metadata writes slot by slot up to the first object that is not
\* finite; the call ends there.
RenderObjects(objects) ==
  LET now == block + 1
      bad == {i \in DOMAIN objects : ~objects[i]}
      until == IF bad = {} THEN Len(objects) ELSE (CHOOSE i \in bad : \A j \in bad : i <= j) - 1
      filled == [i \in DOMAIN adapter.pointers |-> IF i <= until THEN now ELSE adapter.pointers[i]]
  IN /\ adapter' = [adapter EXCEPT !.pointers = filled]
     /\ heard' = IF bad = {} THEN NativeRender(Len(objects), filled) ELSE {}

\* render_pcm: objects as whether each is finite; a listener that is not finite or looks
\* up or down ends the call before the first object.
RenderPcm(objects, level) ==
  /\ pc \in {"running", "direct"} /\ adapter.configured
  /\ Len(objects) <= adapter.max /\ block < MaxBlocks
  /\ block' = block + 1
  /\ IF level THEN RenderObjects(objects) /\ shim' = [shim EXCEPT !.misused = Misuse]
     ELSE heard' = {} /\ UNCHANGED <<adapter, shim>>
  /\ UNCHANGED <<pc, plan, engine>>

\* reset reaches the native renderer once the adapter is configured.
Reset == /\ pc \in {"running", "direct"} /\ adapter.configured
         /\ shim' = [shim EXCEPT !.misused = Misuse]
         /\ heard' = {}
         /\ UNCHANGED <<pc, plan, engine, adapter, block>>

-----------------------------------------------------------------------------
(* The end of a deployment                                                 *)

StartDrop == /\ pc \in {"loaded", "running", "direct"}
             /\ pc' = "dropping"
             /\ UNCHANGED <<plan, engine, adapter, shim, block, heard>>

\* Mutant: the library goes first.
CloseFirst ==
  /\ pc = "dropping"
  /\ shim' = [shim EXCEPT !.open = FALSE]
  /\ pc' = "closing"
  /\ UNCHANGED <<plan, engine, adapter, block, heard>>

\* Drop destroys the handle; the fields, the library among them, go after it.
DestroyHandle ==
  /\ pc = "dropping"
  /\ shim' = [shim EXCEPT !.handle = FALSE, !.misused = Misuse]
  /\ pc' = "closing"
  /\ UNCHANGED <<plan, engine, adapter, block, heard>>

CloseLibrary ==
  /\ pc = "closing"
  /\ shim' = [shim EXCEPT !.open = FALSE]
  /\ pc' = "idle" /\ engine' = NoEngine /\ adapter' = NotLoaded
  /\ block' = 0 /\ heard' = {}
  /\ UNCHANGED plan

Next ==
  \/ \E c \in Configurations :
       PrepareRuntimePlan(c) \/ PrepareBuiltinPlan(c)
  \/ \E scene \in Scenes, media \in BOOLEAN :
       \/ \E absolute \in BOOLEAN :
            SelectFromPlan(scene, absolute, media)
              \/ \E c \in Configurations : SelectFromConfiguration(c, scene, absolute, media)
       \/ \E intent \in Intents : SelectFromDocument(intent, scene, media)
  \/ LoadFails \/ \E conforms \in BOOLEAN : Load(conforms)
  \/ \E works \in BOOLEAN :
       Materialize(works) \/ \E max \in ObjectLimits : Reconfigure(max, works)
  \/ \E objects \in SeqOf(BOOLEAN, 2), level \in BOOLEAN : RenderPcm(objects, level)
  \/ Reset \/ StartDrop \/ DestroyHandle \/ CloseLibrary

Spec == Init /\ [][Next]_spVars

-----------------------------------------------------------------------------
(* Properties                                                              *)

\* SceneFollowsPlan: an engine deployed from a plan plays every role in the direction the
\* plan has for it and at the distance the scene had, whatever the order of the scene.
\* (bind_scene_to_prepared_plan, ordered_speakers)
SceneFollowsPlan ==
  engine.via = "plan" =>
    \A k \in DOMAIN Canonical :
      /\ OrderedSpeakers(engine.scene)[k].dir
           = engine.planned[WithRole(engine.planned, Canonical[k])].dir
      /\ OrderedSpeakers(engine.scene)[k].radius = OrderedSpeakers(engine.given)[k].radius

\* LimitsAgree: also after a configuration that failed half way the native renderer has
\* room for every object the adapter accepts.  (LibspatialaudioRenderer::configure)
LimitsAgree == adapter.configured => adapter.max = shim.max

\* InputsOfThisBlock: the native renderer reads samples of the current call only, although
\* the pointers of earlier calls stay in their slots when fewer objects come or a call ends
\* at an object that is not finite.  (input_ptrs)
InputsOfThisBlock == heard \subseteq {block}

\* NativeAlive: no native function runs after its handle is destroyed or its library
\* closed, however a deployment fails or ends, and nothing stays open when it has ended.
\* ("Keep the shared object loaded until after native destruction")
NativeAlive == ~shim.misused /\ (pc = "idle" => ~shim.open /\ ~shim.handle)
=============================================================================
