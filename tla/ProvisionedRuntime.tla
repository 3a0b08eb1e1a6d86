--------------------------- MODULE ProvisionedRuntime ---------------------------
(***************************************************************************)
(* ANEProvisionedRuntime: one runtime object, the single caller that       *)
(* drives it, and the system's ANE client it sends messages to.            *)
(*                                                                         *)
(* Every message to the client is one step, because the client decides     *)
(* what happens: it may answer YES, answer NO or raise, at every message.  *)
(* What a method does between two messages belongs to the earlier step.    *)
(* A model object is named by the artifact it was made for and the load    *)
(* attempt that made it; `resident` is what the client holds.              *)
(*                                                                         *)
(* Surfaces hold stamps: the caller writes the number of the evaluation    *)
(* into its inputs, a program that reads only that number writes it too,   *)
(* and anything else is 0.                                                 *)
(***************************************************************************)
EXTENDS DispatchBundle

CONSTANTS
  Bundles,         \* bundles the runtime may be created with
  Buffers,         \* the buffers a surface may be bound to
  OwnBuffer,       \* the one ensureSurfaceBuffers allocates
  NoBuffer,        \* a surface without buffer
  MaxLoads,        \* bound on load attempts
  MaxEvaluations   \* bound on evaluations

ASSUME RuntimeAssumption ==
  /\ Bundles \subseteq Bundle
  /\ OwnBuffer \in Buffers /\ NoBuffer \notin Buffers
  /\ MaxLoads \in Nat /\ MaxEvaluations \in Nat

VARIABLES
  bundle,      \* _bundle
  loaded,      \* _loaded
  models,      \* _models
  surfaces,    \* _surfaceBuffers
  profile,     \* the caller's profile: the artifacts of its entries
  pc,          \* where the running method is
  pos,         \* loop position of the running method
  args,        \* buffers passed to the running evaluation
  profiled,    \* whether it was passed a profile
  answer,      \* what the last method returned, or the failing one will
  attempt,     \* load attempts so far
  evaluation,  \* evaluations so far
  resident,    \* model objects the client holds
  refused,     \* those a cleanup asked it in vain to unload
  content,     \* stamp in every buffer of every surface
  slips        \* what has gone wrong in the client beyond repair

object == <<bundle, loaded, models, surfaces>>
call == <<args, profiled>>
bounded == <<attempt, evaluation>>
client == <<resident, refused, content, slips>>
vars == <<bundle, loaded, models, surfaces, profile, pc, pos, args, profiled,
          answer, attempt, evaluation, resident, refused, content, slips>>

Idle == "idle"
Model == [artifact : Nat, attempt : Nat]

(* YES, NO with an error, or an exception that leaves the method. *)
Answers == {"ok", "failed", "escaped"}

Slips == {"unload", "unregistered", "escaped"}

Size == Len(bundle.artifacts)
GraphSurfaces == GraphInputs(bundle) \cup GraphOutputs(bundle)

(* Outside evaluations these are unused. *)
NoArguments == [x \in GraphSurfaces |-> OwnBuffer]

Init ==
  /\ bundle \in Bundles
  /\ loaded = FALSE /\ models = <<>>
  /\ surfaces = [x \in SurfaceIds(bundle) |-> NoBuffer]
  /\ profile = <<>>
  /\ pc = IF BundleValid(bundle) THEN Idle ELSE "rejected"
  /\ pos = 0 /\ args = NoArguments /\ profiled = FALSE
  /\ answer = IF BundleValid(bundle) THEN "ok" ELSE "failed"
  /\ attempt = 0 /\ evaluation = 0
  /\ resident = {} /\ refused = {}
  /\ content = [x \in SurfaceIds(bundle) \X Buffers |-> 0]
  /\ slips = {}

Return(result) == pc' = Idle /\ answer' = result

--------------------------------------------------------------------------------
(* Surfaces: ensureSurfaceBuffers and the methods that only call it. *)

Missing == {x \in SurfaceIds(bundle) : surfaces[x] = NoBuffer}

WithBuffers(allocated) ==
  [x \in SurfaceIds(bundle) |-> IF x \in allocated THEN OwnBuffer ELSE surfaces[x]]

(* createInputBuffers, createOutputBuffers, surfaceBuffersForArtifactAtIndex: *)
(* allocation may fail after some of the missing buffers.                  *)
CreateBuffers ==
  /\ pc = Idle
  /\ \E allocated \in SUBSET Missing :
       /\ surfaces' = WithBuffers(allocated)
       /\ Return(IF allocated = Missing THEN "ok" ELSE "failed")
  /\ UNCHANGED <<bundle, loaded, models, profile, pos, call, bounded, client>>

--------------------------------------------------------------------------------
(* loadWithError *)

LoadWhenLoaded ==
  /\ pc = Idle /\ loaded
  /\ Return("ok")
  /\ UNCHANGED <<object, profile, pos, call, bounded, client>>

LoadWithoutFramework ==
  /\ pc = Idle /\ ~ loaded
  /\ Return("failed")
  /\ UNCHANGED <<object, profile, pos, call, bounded, client>>

BeginLoad ==
  /\ pc = Idle /\ ~ loaded /\ attempt < MaxLoads
  /\ pc' = "lookup" /\ pos' = 1
  /\ attempt' = attempt + 1
  /\ UNCHANGED <<object, profile, call, answer, evaluation, client>>

(* unloadPartiallyLoadedModels is entered on an error, or from the handler *)
(* of an exception.                                                        *)
BeginCleanup(where) ==
  pc' = where /\ pos' = Len(models') /\ answer' = "failed"

(* compiledModelExistsMatchingHash: *)
LookupFound ==
  /\ pc = "lookup"
  /\ pc' = "loading"
  /\ UNCHANGED <<object, profile, pos, call, answer, bounded, client>>

LookupMissed ==
  /\ pc = "lookup"
  /\ UNCHANGED object
  /\ BeginCleanup("cleanup")
  /\ UNCHANGED <<profile, call, bounded, client>>

LookupRaised ==
  /\ pc = "lookup"
  /\ UNCHANGED object
  /\ BeginCleanup("rescue")
  /\ UNCHANGED <<profile, call, bounded, client>>

NewModel == [artifact |-> pos, attempt |-> attempt]

ModelLoaded ==
  /\ pc = "loading"
  /\ resident' = resident \cup {NewModel}
  /\ models' = Append(models, NewModel)
  /\ IF pos = Size
       THEN loaded' = TRUE /\ Return("ok") /\ pos' = 0
       ELSE pc' = "lookup" /\ pos' = pos + 1 /\ UNCHANGED <<loaded, answer>>
  /\ UNCHANGED <<bundle, surfaces, profile, call, bounded, refused, content, slips>>

ModelRefused ==
  /\ pc = "loading"
  /\ UNCHANGED object
  /\ BeginCleanup("cleanup")
  /\ UNCHANGED <<profile, call, bounded, client>>

(* Mutant: a model without handle is not registered before the cleanup.    *)
MutantModelWithoutHandle ==
  /\ pc = "loading"
  /\ resident' = resident \cup {NewModel}
  /\ UNCHANGED object
  /\ BeginCleanup("cleanup")
  /\ UNCHANGED <<profile, call, bounded, refused, content, slips>>

(* The client loads the model but its programHandle is 0. *)
ModelWithoutHandle ==
  /\ pc = "loading"
  /\ resident' = resident \cup {NewModel}
  /\ models' = Append(models, NewModel)
  /\ UNCHANGED <<bundle, loaded, surfaces>>
  /\ BeginCleanup("cleanup")
  /\ UNCHANGED <<profile, call, bounded, refused, content, slips>>

ModelRaised ==
  /\ pc = "loading"
  /\ UNCHANGED object
  /\ BeginCleanup("rescue")
  /\ UNCHANGED <<profile, call, bounded, client>>

(* programHandle raises: the client holds a model the runtime has not       *)
(* registered.                                                             *)
HandleRaised ==
  /\ pc = "loading"
  /\ resident' = resident \cup {NewModel}
  /\ slips' = slips \cup {"unregistered"}
  /\ UNCHANGED object
  /\ BeginCleanup("rescue")
  /\ UNCHANGED <<profile, call, bounded, refused, content>>

--------------------------------------------------------------------------------
(* unloadPartiallyLoadedModels; its answers are ignored. *)

Cleaning == pc \in {"cleanup", "rescue"}

(* The model whose turn it is stays in the client.                         *)
InVain == refused' = refused \cup {models[pos]}

CleanupUnloaded ==
  /\ Cleaning /\ pos > 0
  /\ resident' = resident \ {models[pos]}
  /\ pos' = pos - 1
  /\ UNCHANGED <<object, profile, pc, call, answer, bounded, refused, content,
                 slips>>

(* Mutant: an answer NO ends the cleanup.                                  *)
MutantCleanupRefused ==
  /\ Cleaning /\ pos > 0
  /\ InVain
  /\ pos' = 0
  /\ UNCHANGED <<object, profile, pc, call, answer, bounded, resident, content,
                 slips>>

CleanupRefused ==
  /\ Cleaning /\ pos > 0
  /\ InVain
  /\ pos' = pos - 1
  /\ UNCHANGED <<object, profile, pc, call, answer, bounded, resident, content,
                 slips>>

(* Inside the @try the handler cleans up again, from the start.            *)
CleanupRaised ==
  /\ pc = "cleanup" /\ pos > 0
  /\ InVain
  /\ UNCHANGED object
  /\ BeginCleanup("rescue")
  /\ UNCHANGED <<profile, call, bounded, resident, content, slips>>

(* Mutant: the handler cleans up again as well.                            *)
MutantCleanupEscaped ==
  /\ pc = "rescue" /\ pos > 0
  /\ InVain /\ slips' = slips \cup {"escaped"}
  /\ UNCHANGED object
  /\ BeginCleanup("rescue")
  /\ UNCHANGED <<profile, call, bounded, resident, content>>

(* Inside the handler it leaves loadWithError, with the models in the list. *)
CleanupEscaped ==
  /\ pc = "rescue" /\ pos > 0
  /\ InVain /\ slips' = slips \cup {"escaped"}
  /\ Return("escaped") /\ pos' = 0
  /\ UNCHANGED <<object, profile, call, bounded, resident, content>>

CleanupDone ==
  /\ Cleaning /\ pos = 0
  /\ models' = <<>>
  /\ Return(answer)
  /\ UNCHANGED <<bundle, loaded, surfaces, profile, pos, call, bounded, client>>

--------------------------------------------------------------------------------
(* evaluateInputs:outputs:profile: *)

ResetProfile(withProfile) ==
  profile' = IF withProfile THEN <<>> ELSE profile

EvaluateUnloaded ==
  /\ pc = Idle /\ ~ loaded
  /\ \E withProfile \in BOOLEAN : ResetProfile(withProfile)
  /\ Return("failed")
  /\ UNCHANGED <<object, pos, call, bounded, client>>

(* A buffer is missing, or does not match its binding. *)
EvaluateMismatch ==
  /\ pc = Idle /\ loaded
  /\ \E withProfile \in BOOLEAN : ResetProfile(withProfile)
  /\ Return("failed")
  /\ UNCHANGED <<object, pos, call, bounded, client>>

EvaluateUnallocated ==
  /\ pc = Idle /\ loaded
  /\ \E withProfile \in BOOLEAN : ResetProfile(withProfile)
  /\ \E allocated \in SUBSET Missing :
       allocated # Missing /\ surfaces' = WithBuffers(allocated)
  /\ Return("failed")
  /\ UNCHANGED <<bundle, loaded, models, pos, call, bounded, client>>

(* The caller's buffers, and those allocated for the other surfaces.       *)
Bound(given) ==
  [x \in SurfaceIds(bundle) |->
     IF x \in GraphSurfaces THEN given[x] ELSE WithBuffers(Missing)[x]]

EvaluateWithoutClasses ==
  /\ pc = Idle /\ loaded
  /\ \E withProfile \in BOOLEAN : ResetProfile(withProfile)
  /\ \E given \in [GraphSurfaces -> Buffers] : surfaces' = Bound(given)
  /\ Return("failed")
  /\ UNCHANGED <<bundle, loaded, models, pos, call, bounded, client>>

(* Mutant: a profiled evaluation starts on the entries of the previous one. *)
MutantBeginEvaluation ==
  /\ pc = Idle /\ loaded /\ evaluation < MaxEvaluations
  /\ \E given \in [GraphSurfaces -> Buffers] :
       /\ surfaces' = Bound(given) /\ args' = given
       /\ content' = [c \in DOMAIN content |->
                        IF c[1] \in GraphInputs(bundle) /\ c[2] = given[c[1]]
                          THEN evaluation + 1 ELSE content[c]]
  /\ profiled' \in BOOLEAN /\ profile' = profile
  /\ evaluation' = evaluation + 1
  /\ pc' = "dispatching" /\ pos' = 1
  /\ UNCHANGED <<bundle, loaded, models, answer, attempt, resident, refused,
                 slips>>

BeginEvaluation ==
  /\ pc = Idle /\ loaded /\ evaluation < MaxEvaluations
  /\ \E given \in [GraphSurfaces -> Buffers] :
       /\ surfaces' = Bound(given) /\ args' = given
       /\ content' = [c \in DOMAIN content |->
                        IF c[1] \in GraphInputs(bundle) /\ c[2] = given[c[1]]
                          THEN evaluation + 1 ELSE content[c]]
  /\ profiled' \in BOOLEAN /\ ResetProfile(profiled')
  /\ evaluation' = evaluation + 1
  /\ pc' = "dispatching" /\ pos' = 1
  /\ UNCHANGED <<bundle, loaded, models, answer, attempt, resident, refused,
                 slips>>

Submitted == bundle.plan[pos]
Program == bundle.artifacts[Submitted]

(* The client runs the program the model was loaded from. *)
Computes ==
  /\ models[Submitted].artifact = Submitted /\ models[Submitted] \in resident
  /\ \A x \in InputIds(Program) : content[<<x, surfaces[x]>>] = evaluation

ReturnEvaluation(result) ==
  Return(result) /\ pos' = 0 /\ args' = NoArguments /\ profiled' = FALSE

(* The results the client writes, of its own making when it cannot compute. *)
Written ==
  [c \in DOMAIN content |->
     IF c[1] \in OutputIds(Program) /\ c[2] = surfaces[c[1]]
       THEN (IF Computes THEN evaluation ELSE 0) ELSE content[c]]

Dispatched ==
  /\ pc = "dispatching"
  /\ content' = Written
  /\ IF pos = Size
       THEN /\ ReturnEvaluation("ok")
            /\ profile' = IF profiled THEN bundle.plan ELSE profile
       ELSE pos' = pos + 1 /\ UNCHANGED <<pc, answer, profile, call>>
  /\ UNCHANGED <<object, bounded, resident, refused, slips>>

(* The evaluation answers NO, or raises, perhaps after the program ran:     *)
(* each ends the method.                                                   *)
DispatchFailed ==
  /\ pc = "dispatching"
  /\ content' \in {content, Written}
  /\ ReturnEvaluation("failed")
  /\ UNCHANGED <<object, profile, bounded, resident, refused, slips>>

--------------------------------------------------------------------------------
(* unloadWithError, called by the caller or by dealloc. *)

Unloading == pc \in {"unloading", "releasing"}

(* dealloc drops the answer and the object. *)
Leave(result) ==
  IF pc = "releasing" THEN pc' = "released" /\ answer' = answer ELSE Return(result)

UnloadWhenUnloaded ==
  /\ pc = Idle /\ ~ loaded
  /\ Return("ok")
  /\ UNCHANGED <<object, profile, pos, call, bounded, client>>

BeginUnload ==
  /\ pc = Idle /\ loaded
  /\ pc' = "unloading" /\ pos' = Len(models)
  /\ UNCHANGED <<object, profile, call, answer, bounded, client>>

Dealloc ==
  /\ pc = Idle
  /\ IF loaded THEN pc' = "releasing" /\ pos' = Len(models)
     ELSE pc' = "released" /\ pos' = pos
  /\ UNCHANGED <<object, profile, call, answer, bounded, client>>

(* Mutant: the loop begins again when it should end.                        *)
MutantModelUnloaded ==
  /\ Unloading /\ pos > 0
  /\ resident' = resident \ {models[pos]}
  /\ pos' = IF pos > 1 THEN pos - 1 ELSE Len(models)
  /\ UNCHANGED <<object, profile, pc, call, answer, bounded, refused, content,
                 slips>>

ModelUnloaded ==
  /\ Unloading /\ pos > 0
  /\ resident' = resident \ {models[pos]}
  /\ pos' = pos - 1
  /\ UNCHANGED <<object, profile, pc, call, answer, bounded, refused, content,
                 slips>>

(* An answer NO, or an exception, leaves the rest loaded, and the object    *)
(* too: _loaded and _models keep their values.                             *)
UnloadStopped ==
  /\ Unloading /\ pos > 0
  /\ Leave("failed")
  /\ slips' = slips \cup {"unload"} /\ pos' = 0
  /\ UNCHANGED <<object, profile, call, bounded, resident, refused, content>>

UnloadDone ==
  /\ Unloading /\ pos = 0
  /\ loaded' = FALSE /\ models' = <<>>
  /\ Leave("ok")
  /\ UNCHANGED <<bundle, surfaces, profile, pos, call, bounded, client>>

Ended == pc \in {"rejected", "released"} /\ UNCHANGED vars

--------------------------------------------------------------------------------

Load ==
  \/ LookupFound \/ LookupMissed \/ LookupRaised
  \/ ModelLoaded \/ ModelRefused \/ ModelWithoutHandle \/ ModelRaised
  \/ HandleRaised

Cleanup ==
  CleanupUnloaded \/ CleanupRefused \/ CleanupRaised \/ CleanupEscaped
    \/ CleanupDone

Dispatch == Dispatched \/ DispatchFailed

Unload == ModelUnloaded \/ UnloadStopped \/ UnloadDone

(* The steps of a method that has been called. *)
Run == Load \/ Cleanup \/ Dispatch \/ Unload

(* The caller calls a method. *)
Call ==
  \/ CreateBuffers \/ LoadWhenLoaded \/ LoadWithoutFramework \/ BeginLoad
  \/ EvaluateUnloaded \/ EvaluateMismatch \/ EvaluateUnallocated
  \/ EvaluateWithoutClasses \/ BeginEvaluation
  \/ UnloadWhenUnloaded \/ BeginUnload \/ Dealloc

Next == Run \/ Call \/ Ended

(* Every message to the client is answered, with YES, NO or an exception,   *)
(* so a called method keeps running; the caller owes nothing.              *)
Spec == Init /\ [][Next]_vars /\ WF_vars(Run)

--------------------------------------------------------------------------------
(* Properties. *)

TypeOK ==
  /\ bundle \in Bundle
  /\ loaded \in BOOLEAN
  /\ models \in Seq(Model)
  /\ surfaces \in [SurfaceIds(bundle) -> Buffers \cup {NoBuffer}]
  /\ profile \in {<<>>, bundle.plan}
  /\ pc \in {"rejected", Idle, "lookup", "loading", "cleanup", "rescue",
             "dispatching", "unloading", "releasing", "released"}
  /\ pos \in Nat
  /\ pc \in {"lookup", "loading", "dispatching"} => pos \in 1 .. Size
  /\ Cleaning \/ Unloading => pos <= Len(models)
  /\ args \in [GraphSurfaces -> Buffers]
  /\ profiled \in BOOLEAN
  /\ answer \in Answers
  /\ attempt \in 0 .. MaxLoads /\ evaluation \in 0 .. MaxEvaluations
  /\ resident \subseteq Model /\ refused \subseteq Model
  /\ content \in [SurfaceIds(bundle) \X Buffers -> 0 .. MaxEvaluations]
  /\ slips \subseteq Slips

(* While the object is loaded, the model at a position of the list was      *)
(* loaded from the program at that position, by the latest load: what is    *)
(* submitted for a program is its own model.  Only an exception that       *)
(* escapes the handler of a failed load breaks it (lines 384-458, 566).    *)
ModelsAligned ==
  loaded /\ "escaped" \notin slips =>
    /\ Len(models) = Size
    /\ \A i \in 1 .. Size : models[i] = [artifact |-> i, attempt |-> attempt]

(* The list of models is the object's own word on what it holds, as long as *)
(* no unloadWithError: stopped halfway and no exception left a cleanup.    *)
Intact == "unload" \notin slips /\ "escaped" \notin slips

(* The handler of an exception cleans up what a cleanup has begun with.    *)
CleansAgain ==
  pc = "rescue" /\ \E i \in 1 .. Len(models) : models[i] \in refused

(* The client holds every model of a loaded object, and a model that is    *)
(* about to be unloaded: whatever sequence of loads, loads whose cleanup    *)
(* failed and unloads came before, none is unloaded twice, but in the      *)
(* second cleanup of one load (lines 384-393, 445, 453, 633-646).          *)
ModelsResident ==
  Intact =>
    /\ loaded /\ ~ Unloading => \A i \in 1 .. Len(models) : models[i] \in resident
    /\ (Cleaning \/ Unloading) /\ pos > 0 => models[pos] \in resident \/ CleansAgain

(* A runtime that is not loaded, or no longer exists, has left no model    *)
(* behind in the client but those the client would not unload: a cleanup   *)
(* comes to every model, whatever stopped the load and whatever became of  *)
(* the other unloads (lines 384-393, 416, 445, 453).  The exceptions are    *)
(* an unloadWithError: that stopped, an exception in the handler's own     *)
(* cleanup, and a model loaded by a message the next of which raised.      *)
NoLeak ==
  pc \in {Idle, "released"} /\ ~ loaded /\ slips = {} => resident \subseteq refused

(* An evaluation that answers YES has left its own results in the caller's *)
(* output buffers: every program read what this evaluation put in its      *)
(* inputs, never a surface of an earlier one, and the caller's inputs are   *)
(* intact (lines 505-616 and the order validateDispatchBundle enforces).    *)
EvaluationExact ==
  [][pc = "dispatching" /\ pc' = Idle /\ answer' = "ok" /\ Intact =>
       \A x \in GraphSurfaces : content'[<<x, args[x]>>] = evaluation]_vars

(* The profile of an evaluation lists every program in dispatch order, or  *)
(* nothing when the evaluation failed (lines 494-497 and 617-621).         *)
ProfileAllOrNothing ==
  [][pc = "dispatching" /\ pc' = Idle /\ profiled =>
       profile' = IF answer' = "ok" THEN bundle.plan ELSE <<>>]_vars

(* Every call returns.                                                     *)
CallsReturn == []<>(pc \in {Idle, "rejected", "released"})

(* docs/VERIFICATION.md:182-187: the runtime "owns ordered load, evaluate,  *)
(* and unload" and "fails closed": it never submits a model it unloaded.   *)
SubmitsHeldModels ==
  pc = "dispatching" => models[Submitted] \in resident

================================================================================
