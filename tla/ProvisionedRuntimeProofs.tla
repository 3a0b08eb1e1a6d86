------------------------ MODULE ProvisionedRuntimeProofs ------------------------
(* Proofs about ProvisionedRuntime for every set of bundles, of any length   *)
(* and with any surfaces, and every bound on loads and evaluations.          *)
EXTENDS ProvisionedRuntime, FiniteSetTheorems, TLAPS

--------------------------------------------------------------------------------
(* The inductive invariant.                                                  *)

(* The phases in which the object exists, is loaded, or is not.              *)
Phases ==
  /\ pc # "rejected" => BundleValid(bundle)
  /\ pc \in {"lookup", "loading", "cleanup", "rescue"} => ~ loaded
  /\ pc \in {"dispatching", "unloading", "releasing"} => loaded

(* The list holds the models of a prefix of the programs.                    *)
Aligned ==
  "escaped" \notin slips =>
    /\ \A i \in 1 .. Len(models) :
         models[i] = [artifact |-> i, attempt |-> attempt]
    /\ loaded => Len(models) = Size
    /\ pc \in {"lookup", "loading"} => Len(models) = pos - 1
    /\ pc \in {"rejected", "idle", "released"} /\ ~ loaded => models = <<>>

(* The models the running method has not given back.                         *)
Kept == IF Cleaning \/ Unloading THEN pos ELSE Len(models)

(* They are what the client holds, beside those it would not give up.        *)
Held ==
  /\ Intact /\ ~ CleansAgain => \A i \in 1 .. Kept : models[i] \in resident
  /\ slips = {} =>
       \A m \in resident : m \in refused \/ \E i \in 1 .. Kept : models[i] = m

(* What a surface that the running evaluation has written holds.             *)
Fresh(x) == content[<<x, surfaces[x]>>] = evaluation

(* The evaluation reads the caller's buffers, and has written the outputs of *)
(* the programs it has dispatched.                                           *)
Fed ==
  pc = "dispatching" =>
    /\ \A x \in SurfaceIds(bundle) : surfaces[x] \in Buffers
    /\ \A x \in GraphSurfaces : surfaces[x] = args[x]
    /\ profiled => profile = <<>>
    /\ Intact =>
         /\ \A x \in GraphInputs(bundle) : Fresh(x)
         /\ \A k \in 1 .. pos - 1 :
              \A x \in OutputIds(bundle.artifacts[bundle.plan[k]]) : Fresh(x)

IInv == TypeOK /\ Phases /\ Aligned /\ Held /\ Fed

--------------------------------------------------------------------------------
(* Bundles.                                                                  *)

(* A bundle's artifacts are a sequence.                                      *)
LEMMA SizeType == bundle \in Bundle => Size \in Nat
BY DEF Bundle, Size

(* The surfaces of the graph are surfaces of the bundle.                     *)
LEMMA GraphSurfacesOwned ==
  ASSUME NEW b \in Bundle
  PROVE  /\ GraphInputs(b) \subseteq SurfaceIds(b)
         /\ GraphOutputs(b) \subseteq SurfaceIds(b)
         /\ \A i \in Artifacts(b) :
              /\ InputIds(b.artifacts[i]) \subseteq SurfaceIds(b)
              /\ OutputIds(b.artifacts[i]) \subseteq SurfaceIds(b)
<1>1. ASSUME NEW i \in Artifacts(b)
      PROVE  /\ InputIds(b.artifacts[i]) \subseteq SurfaceIds(b)
             /\ OutputIds(b.artifacts[i]) \subseteq SurfaceIds(b)
  <2>1. /\ Inputs(b.artifacts[i]) \subseteq Surfaces(b.artifacts[i])
        /\ Outputs(b.artifacts[i]) \subseteq Surfaces(b.artifacts[i])
    BY DEF Inputs, Outputs, Surfaces
  <2>2. {x.id : x \in Surfaces(b.artifacts[i])} \subseteq SurfaceIds(b)
    BY DEF SurfaceIds
  <2> QED
    BY <2>1, <2>2 DEF InputIds, OutputIds
<1>2. Consumed(b) \subseteq SurfaceIds(b) /\ Produced(b) \subseteq SurfaceIds(b)
  BY <1>1 DEF Consumed, Produced
<1> QED
  BY <1>1, <1>2 DEF GraphInputs, GraphOutputs

(* A valid bundle's plan is a permutation of its artifacts.                  *)
LEMMA PlanPermutes ==
  ASSUME NEW b \in Bundle, BundleValid(b)
  PROVE  /\ Len(b.artifacts) \in Nat \ {0} /\ Len(b.plan) = Len(b.artifacts)
         /\ \A k \in 1 .. Len(b.artifacts) : b.plan[k] \in Artifacts(b)
         /\ \A i \in Artifacts(b) :
              \E k \in 1 .. Len(b.artifacts) : b.plan[k] = i
<1> DEFINE N == Len(b.artifacts)
           S == 1 .. N
           f == [k \in S |-> b.plan[k]]
<1>1. /\ N \in Nat \ {0} /\ Len(b.plan) = N /\ Artifacts(b) = S
      /\ \A k \in S : b.plan[k] \in S
      /\ \A k, l \in S : b.plan[k] = b.plan[l] => k = l
  BY DEF BundleValid, PlanCoversArtifacts, Bundle, Artifacts
<1>2. IsFiniteSet(S)
  BY <1>1, FS_Interval
<1>3. f \in Injection(S, S)
  BY <1>1 DEF Injection, IsInjective
<1>4. f \in Surjection(S, S)
  BY <1>2, <1>3, FS_Injection
<1>5. \A i \in S : \E k \in S : f[k] = i
  BY <1>4 DEF Surjection
<1> QED
  BY <1>1, <1>5

--------------------------------------------------------------------------------
(* The type invariant, in two parts.                                         *)

(* The parts of TypeOK that concern only the bundle and its surfaces.        *)
SurfaceTypes ==
  /\ surfaces \in [SurfaceIds(bundle) -> Buffers \cup {NoBuffer}]
  /\ args \in [GraphSurfaces -> Buffers]
  /\ content \in [SurfaceIds(bundle) \X Buffers -> 0 .. MaxEvaluations]

(* The others.                                                               *)
ControlTypes ==
  /\ bundle \in Bundle
  /\ loaded \in BOOLEAN
  /\ models \in Seq(Model)
  /\ profile \in {<<>>, bundle.plan}
  /\ pc \in {"rejected", "idle", "lookup", "loading", "cleanup", "rescue",
             "dispatching", "unloading", "releasing", "released"}
  /\ pos \in Nat
  /\ pc \in {"lookup", "loading", "dispatching"} => pos \in 1 .. Size
  /\ Cleaning \/ Unloading => pos <= Len(models)
  /\ profiled \in BOOLEAN
  /\ answer \in {"ok", "failed", "escaped"}
  /\ attempt \in 0 .. MaxLoads /\ evaluation \in 0 .. MaxEvaluations
  /\ resident \subseteq Model /\ refused \subseteq Model
  /\ slips \subseteq {"unload", "unregistered", "escaped"}

LEMMA TypeParts == TypeOK <=> SurfaceTypes /\ ControlTypes
BY DEF TypeOK, SurfaceTypes, ControlTypes, Idle, Answers, Slips

--------------------------------------------------------------------------------
(* Initially.                                                                *)

LEMMA InitInv == Init => IInv
<1> SUFFICES ASSUME Init PROVE IInv
  OBVIOUS
<1>1. bundle \in Bundle
  BY RuntimeAssumption DEF Init
<1>2. SurfaceTypes
  BY RuntimeAssumption DEF Init, SurfaceTypes, NoArguments
<1>3. ControlTypes
  <2>1. pc \in {"rejected", "idle"} /\ answer \in {"ok", "failed"}
    BY DEF Init, Idle
  <2>2. /\ models = <<>> /\ models \in Seq(Model)
        /\ loaded = FALSE /\ pos = 0 /\ profiled = FALSE
        /\ profile = <<>> /\ resident = {} /\ refused = {} /\ slips = {}
    BY DEF Init
  <2>3. attempt \in 0 .. MaxLoads /\ evaluation \in 0 .. MaxEvaluations
    BY RuntimeAssumption DEF Init
  <2>4. ~ Cleaning /\ ~ Unloading /\ pc \notin {"lookup", "loading", "dispatching"}
    BY <2>1 DEF Cleaning, Unloading
  <2> QED
    BY <1>1, <2>1, <2>2, <2>3, <2>4 DEF ControlTypes
<1>4. Phases /\ Aligned /\ Held /\ Fed
  BY DEF Init, Phases, Aligned, Held, Kept, CleansAgain, Fed, Idle, Cleaning,
         Unloading
<1> QED
  BY <1>2, <1>3, <1>4, TypeParts DEF IInv

--------------------------------------------------------------------------------
(* Steps keep the type invariant.                                            *)

(* The bundle never changes.                                                 *)
LEMMA BundleKept == [Next]_vars => bundle' = bundle
BY DEF Next, Run, Call, Ended, vars, object, Load, Cleanup, Dispatch, Unload,
       CreateBuffers, LoadWhenLoaded, LoadWithoutFramework, BeginLoad,
       LookupFound, LookupMissed, LookupRaised, ModelLoaded, ModelRefused,
       ModelWithoutHandle, ModelRaised, HandleRaised, CleanupUnloaded,
       CleanupRefused, CleanupRaised, CleanupEscaped, CleanupDone,
       EvaluateUnloaded, EvaluateMismatch, EvaluateUnallocated,
       EvaluateWithoutClasses, BeginEvaluation, Dispatched, DispatchFailed,
       UnloadWhenUnloaded, BeginUnload, Dealloc, ModelUnloaded, UnloadStopped,
       UnloadDone

(* Buffers bound to the surfaces are buffers.                                *)
LEMMA SurfacesTyped ==
  ASSUME TypeOK, BundleValid(bundle)
  PROVE  /\ \A allocated \in SUBSET Missing :
              WithBuffers(allocated)
                \in [SurfaceIds(bundle) -> Buffers \cup {NoBuffer}]
         /\ \A given \in [GraphSurfaces -> Buffers] :
              Bound(given) \in [SurfaceIds(bundle) -> Buffers]
         /\ NoArguments \in [GraphSurfaces -> Buffers]
<1>1. \A x \in SurfaceIds(bundle) : surfaces[x] \in Buffers \cup {NoBuffer}
  BY DEF TypeOK
<1>2. \A x \in SurfaceIds(bundle) : WithBuffers(Missing)[x] \in Buffers
  BY <1>1, RuntimeAssumption DEF Missing, WithBuffers
<1> QED
  BY <1>1, <1>2, RuntimeAssumption DEF WithBuffers, Bound, NoArguments

(* What an evaluation writes are stamps.                                     *)
LEMMA ContentTyped ==
  ASSUME TypeOK
  PROVE  Written \in [SurfaceIds(bundle) \X Buffers -> 0 .. MaxEvaluations]
BY RuntimeAssumption DEF TypeOK, Written

(* Every step keeps the types of surfaces, arguments and contents.           *)
LEMMA SurfaceTypesStep ==
  ASSUME TypeOK, Phases, Next
  PROVE  SurfaceTypes'
<1>0. /\ SurfaceTypes /\ bundle' = bundle
      /\ SurfaceIds(bundle)' = SurfaceIds(bundle)
      /\ GraphSurfaces' = GraphSurfaces
  BY TypeParts, BundleKept DEF GraphSurfaces
<1>1. ASSUME UNCHANGED <<surfaces, args, content>>
      PROVE  SurfaceTypes'
  BY <1>0, <1>1 DEF SurfaceTypes
<1>2. ASSUME pc # "rejected", NEW allocated \in SUBSET Missing,
             surfaces' = WithBuffers(allocated), UNCHANGED <<args, content>>
      PROVE  SurfaceTypes'
  BY <1>0, <1>2, SurfacesTyped DEF SurfaceTypes, Phases
<1>3. ASSUME pc # "rejected", NEW given \in [GraphSurfaces -> Buffers],
             surfaces' = Bound(given)
      PROVE  surfaces' \in [SurfaceIds(bundle) -> Buffers \cup {NoBuffer}]
  BY <1>3, SurfacesTyped DEF Phases
<1>4. CASE CreateBuffers \/ EvaluateUnallocated
  BY <1>4, <1>2 DEF CreateBuffers, EvaluateUnallocated, Idle, call, client
<1>5. CASE EvaluateWithoutClasses
  BY <1>5, <1>3, <1>0
     DEF EvaluateWithoutClasses, SurfaceTypes, Idle, call, client
<1>6. CASE BeginEvaluation
  <2> PICK given \in [GraphSurfaces -> Buffers] :
        /\ surfaces' = Bound(given) /\ args' = given
        /\ content' = [c \in DOMAIN content |->
                         IF c[1] \in GraphInputs(bundle) /\ c[2] = given[c[1]]
                           THEN evaluation + 1 ELSE content[c]]
    BY <1>6 DEF BeginEvaluation
  <2>1. evaluation + 1 \in 0 .. MaxEvaluations
    BY <1>6, RuntimeAssumption DEF BeginEvaluation, TypeOK
  <2>2. content' \in [SurfaceIds(bundle) \X Buffers -> 0 .. MaxEvaluations]
    BY <2>1, <1>0 DEF SurfaceTypes
  <2>3. surfaces' \in [SurfaceIds(bundle) -> Buffers \cup {NoBuffer}]
    BY <1>6, <1>3 DEF BeginEvaluation, Idle
  <2> QED
    BY <2>2, <2>3, <1>0 DEF SurfaceTypes
<1>7. CASE Dispatched
  BY <1>7, <1>0, ContentTyped, SurfacesTyped
     DEF Dispatched, ReturnEvaluation, SurfaceTypes, object, call, Phases
<1>8. CASE DispatchFailed
  BY <1>8, <1>0, ContentTyped, SurfacesTyped
     DEF DispatchFailed, ReturnEvaluation, SurfaceTypes, object, Phases
<1>9. CASE Load
  BY <1>9, <1>1
     DEF Load, LookupFound, LookupMissed, LookupRaised, ModelLoaded,
         ModelRefused, ModelWithoutHandle, ModelRaised, HandleRaised, object,
         call, client
<1>10. CASE Cleanup
  BY <1>10, <1>1
     DEF Cleanup, CleanupUnloaded, CleanupRefused, CleanupRaised,
         CleanupEscaped, CleanupDone, object, call, client
<1>11. CASE Unload
  BY <1>11, <1>1
     DEF Unload, ModelUnloaded, UnloadStopped, UnloadDone, object, call, client
<1>12. CASE LoadWhenLoaded \/ LoadWithoutFramework \/ BeginLoad
              \/ EvaluateUnloaded \/ EvaluateMismatch \/ UnloadWhenUnloaded
              \/ BeginUnload \/ Dealloc \/ Ended
  BY <1>12, <1>1
     DEF LoadWhenLoaded, LoadWithoutFramework, BeginLoad, EvaluateUnloaded,
         EvaluateMismatch, UnloadWhenUnloaded, BeginUnload, Dealloc, Ended,
         object, call, client, vars
<1> QED
  BY <1>4, <1>5, <1>6, <1>7, <1>8, <1>9, <1>10, <1>11, <1>12
     DEF Next, Run, Call, Dispatch

(* The calls that come back at once, having at most bound buffers and reset  *)
(* the profile.                                                              *)
Quiet ==
  \/ CreateBuffers \/ LoadWhenLoaded \/ LoadWithoutFramework
  \/ EvaluateUnloaded \/ EvaluateMismatch \/ EvaluateUnallocated
  \/ EvaluateWithoutClasses \/ UnloadWhenUnloaded

LEMMA QuietEffect ==
  ASSUME Quiet
  PROVE  /\ pc = "idle" /\ pc' = "idle" /\ answer' \in {"ok", "failed"}
         /\ profile' \in {<<>>, profile}
         /\ UNCHANGED <<bundle, loaded, models, pos, profiled, attempt,
                        evaluation, resident, refused, slips>>
BY DEF Quiet, CreateBuffers, LoadWhenLoaded, LoadWithoutFramework,
       EvaluateUnloaded, EvaluateMismatch, EvaluateUnallocated,
       EvaluateWithoutClasses, UnloadWhenUnloaded, Idle, Return, ResetProfile,
       object, call, bounded, client

(* The steps on which a load gives up and turns to what it has loaded.       *)
GivesUp ==
  \/ LookupMissed \/ LookupRaised \/ ModelRefused \/ ModelRaised
  \/ HandleRaised \/ CleanupRaised

LEMMA GivesUpEffect ==
  ASSUME GivesUp
  PROVE  /\ pc \in {"lookup", "loading", "cleanup"}
         /\ pc' \in {"cleanup", "rescue"}
         /\ pos' = Len(models) /\ answer' = "failed"
         /\ UNCHANGED <<bundle, loaded, models, surfaces, args, content, profile,
                        profiled, attempt, evaluation>>
         /\ \/ UNCHANGED <<resident, refused, slips>> /\ pc # "cleanup"
            \/ /\ pc = "cleanup" /\ pos > 0 /\ pc' = "rescue"
               /\ UNCHANGED <<resident, slips>> /\ InVain
            \/ /\ pc = "loading" /\ resident' = resident \cup {NewModel}
               /\ slips' = slips \cup {"unregistered"} /\ UNCHANGED refused
BY DEF GivesUp, LookupMissed, LookupRaised, ModelRefused, ModelRaised,
       HandleRaised, CleanupRaised, BeginCleanup, object, call, bounded, client

(* The steps of the runtime, the quiet and the giving up put together.       *)
LEMMA ActionSplit ==
  Next =>
    \/ Quiet \/ GivesUp \/ BeginLoad \/ LookupFound \/ ModelLoaded
    \/ ModelWithoutHandle \/ CleanupUnloaded \/ CleanupRefused
    \/ CleanupEscaped \/ CleanupDone \/ BeginEvaluation \/ Dispatched
    \/ DispatchFailed \/ BeginUnload \/ Dealloc \/ ModelUnloaded
    \/ UnloadStopped \/ UnloadDone \/ Ended
BY DEF Next, Run, Call, Load, Cleanup, Dispatch, Unload, Quiet, GivesUp

(* The model a load is about to make.                                        *)
LEMMA NewModelType ==
  ASSUME TypeOK, pc \in {"lookup", "loading"}
  PROVE  NewModel \in Model
BY RuntimeAssumption DEF TypeOK, NewModel, Model

(* Every step keeps the other types.                                         *)
LEMMA ControlTypesStep ==
  ASSUME TypeOK, Phases, Next
  PROVE  ControlTypes'
<1>0. /\ ControlTypes /\ bundle' = bundle /\ Size' = Size /\ Size \in Nat
      /\ Len(models) \in Nat
  BY TypeParts, BundleKept, SizeType DEF Size, ControlTypes
<1>a. MaxLoads \in Nat /\ MaxEvaluations \in Nat
  BY RuntimeAssumption
<1>b. Cleaning /\ pos > 0 /\ InVain => refused' \subseteq Model
  BY <1>0 DEF InVain, ControlTypes
<1> USE DEF ControlTypes, Cleaning, Unloading
<1>1. CASE Quiet
  BY <1>0, <1>1, QuietEffect
<1>2. CASE GivesUp
  <2>1. resident' \subseteq Model
    BY <1>0, <1>2, GivesUpEffect, NewModelType
  <2>2. slips' \subseteq {"unload", "unregistered", "escaped"}
    BY <1>0, <1>2, GivesUpEffect
  <2>3. refused' \subseteq Model
    BY <1>0, <1>b, <1>2, GivesUpEffect
  <2> QED
    BY <1>0, <1>2, <2>1, <2>2, <2>3, GivesUpEffect
<1>3. CASE BeginLoad
  <2>1. Size >= 1
    BY <1>3, <1>0, PlanPermutes DEF BeginLoad, Phases, Idle, Size
  <2> QED
    BY <1>0, <1>3, <1>a, <2>1
       DEF BeginLoad, Idle, object, call, client
<1>4. CASE LookupFound
  BY <1>0, <1>4 DEF LookupFound, object, call, bounded, client
<1>5. CASE ModelLoaded
  <2>1. Append(models, NewModel) \in Seq(Model)
        /\ resident \cup {NewModel} \subseteq Model
    BY <1>0, <1>5, NewModelType DEF ModelLoaded
  <2>2. CASE pos = Size
    BY <1>0, <1>5, <2>1, <2>2
       DEF ModelLoaded, Idle, Return, call, bounded
  <2>3. CASE pos # Size
    BY <1>0, <1>5, <2>1, <2>3 DEF ModelLoaded, call, bounded
  <2> QED
    BY <2>2, <2>3
<1>6. CASE ModelWithoutHandle
  <2>1. Append(models, NewModel) \in Seq(Model)
        /\ resident \cup {NewModel} \subseteq Model
    BY <1>0, <1>6, NewModelType DEF ModelWithoutHandle
  <2>2. models' \in Seq(Model) /\ pos' = Len(models') /\ pos' \in Nat
    BY <1>6, <2>1 DEF ModelWithoutHandle, BeginCleanup
  <2> QED
    BY <1>0, <1>6, <2>1, <2>2
       DEF ModelWithoutHandle, BeginCleanup, call, bounded
<1>7. CASE CleanupUnloaded
  BY <1>0, <1>7 DEF CleanupUnloaded, object, call, bounded
<1>8. CASE CleanupRefused
  BY <1>0, <1>b, <1>8 DEF CleanupRefused, object, call, bounded
<1>9. CASE CleanupEscaped
  BY <1>0, <1>b, <1>9 DEF CleanupEscaped, Return, Idle, object, call, bounded
<1>10. CASE CleanupDone
  BY <1>0, <1>10 DEF CleanupDone, Return, Idle, call, bounded, client
<1>11. CASE BeginEvaluation
  <2>1. Size >= 1
    BY <1>11, <1>0, PlanPermutes DEF BeginEvaluation, Phases, Idle, Size
  <2> QED
    BY <1>0, <1>11, <1>a, <2>1 DEF BeginEvaluation, ResetProfile
<1>12. CASE Dispatched
  <2>1. CASE pos = Size
    <3>1. /\ pc' = "idle" /\ answer' = "ok" /\ pos' = 0 /\ profiled' = FALSE
          /\ profile' \in {profile, bundle.plan}
      BY <1>12, <2>1 DEF Dispatched, ReturnEvaluation, Return, Idle
    <3> QED
      BY <1>0, <1>12, <3>1 DEF Dispatched, object, bounded
  <2>2. CASE pos # Size
    BY <1>0, <1>12, <2>2 DEF Dispatched, object, bounded, call
  <2> QED
    BY <2>1, <2>2
<1>13. CASE DispatchFailed
  BY <1>0, <1>13
     DEF DispatchFailed, ReturnEvaluation, Return, Idle, object, bounded
<1>14. CASE BeginUnload
  BY <1>0, <1>14 DEF BeginUnload, object, call, bounded, client
<1>15. CASE Dealloc
  BY <1>0, <1>15 DEF Dealloc, object, call, bounded, client
<1>16. CASE ModelUnloaded
  BY <1>0, <1>16 DEF ModelUnloaded, object, call, bounded
<1>17. CASE UnloadStopped
  BY <1>0, <1>17 DEF UnloadStopped, Leave, Return, Idle, object, call, bounded
<1>18. CASE UnloadDone
  <2>1. /\ pc' \in {"idle", "released"} /\ answer' \in {answer, "ok"}
        /\ models' = <<>> /\ <<>> \in Seq(Model) /\ loaded' = FALSE
    BY <1>18 DEF UnloadDone, Leave, Return, Idle
  <2> QED
    BY <1>0, <1>18, <2>1 DEF UnloadDone, call, bounded, client
<1>19. CASE Ended
  BY <1>0, <1>19 DEF Ended, vars
<1> QED
  BY <1>1, <1>2, <1>3, <1>4, <1>5, <1>6, <1>7, <1>8, <1>9, <1>10, <1>11, <1>12,
     <1>13, <1>14, <1>15, <1>16, <1>17, <1>18, <1>19, ActionSplit

LEMMA TypeStep == ASSUME TypeOK, Phases, Next PROVE TypeOK'
BY SurfaceTypesStep, ControlTypesStep
   DEF TypeOK, SurfaceTypes, ControlTypes, Idle, Answers, Slips

--------------------------------------------------------------------------------
(* Steps keep the phases.                                                    *)

LEMMA PhasesStep == ASSUME TypeOK, Phases, Next PROVE Phases'
<1>0. bundle' = bundle
  BY BundleKept
<1>1. Phases /\ (BundleValid(bundle)' <=> BundleValid(bundle))
  BY <1>0
<1> USE DEF Phases
<1>2. CASE Quiet
  BY <1>1, <1>2, QuietEffect
<1>3. CASE GivesUp
  BY <1>1, <1>3, GivesUpEffect
<1>4. CASE BeginLoad \/ LookupFound
  BY <1>1, <1>4 DEF BeginLoad, LookupFound, Idle, object, client
<1>5. CASE ModelLoaded
  BY <1>1, <1>5 DEF ModelLoaded, Return, Idle
<1>6. CASE ModelWithoutHandle
  BY <1>1, <1>6 DEF ModelWithoutHandle, BeginCleanup
<1>7. CASE CleanupUnloaded \/ CleanupRefused
  BY <1>1, <1>7 DEF CleanupUnloaded, CleanupRefused, Cleaning, object
<1>8. CASE CleanupEscaped \/ CleanupDone
  BY <1>1, <1>8
     DEF CleanupEscaped, CleanupDone, Cleaning, Return, Idle, object, client
<1>9. CASE BeginEvaluation
  BY <1>1, <1>9 DEF BeginEvaluation, Idle
<1>10. CASE Dispatched \/ DispatchFailed
  BY <1>1, <1>10
     DEF Dispatched, DispatchFailed, ReturnEvaluation, Return, Idle, object
<1>11. CASE BeginUnload \/ Dealloc
  BY <1>1, <1>11 DEF BeginUnload, Dealloc, Idle, object, client
<1>12. CASE ModelUnloaded \/ UnloadStopped
  BY <1>1, <1>12
     DEF ModelUnloaded, UnloadStopped, Unloading, Leave, Return, Idle, object
<1>13. CASE UnloadDone
  BY <1>1, <1>13 DEF UnloadDone, Unloading, Leave, Return, Idle, client
<1>14. CASE Ended
  BY <1>1, <1>14 DEF Ended, vars
<1> QED
  BY <1>2, <1>3, <1>4, <1>5, <1>6, <1>7, <1>8, <1>9, <1>10, <1>11, <1>12, <1>13,
     <1>14, ActionSplit

--------------------------------------------------------------------------------
(* Steps keep the list aligned.                                              *)

LEMMA AlignedStep == ASSUME TypeOK, Phases, Aligned, Next PROVE Aligned'
<1>0. /\ bundle' = bundle /\ Size' = Size /\ Size \in Nat
      /\ models \in Seq(Model) /\ Len(models) \in Nat /\ pos \in Nat
  BY BundleKept, SizeType DEF Size, TypeOK
<1> SUFFICES ASSUME "escaped" \notin slips'
             PROVE  /\ \A i \in 1 .. Len(models') :
                         models'[i] = [artifact |-> i, attempt |-> attempt']
                    /\ loaded' => Len(models') = Size
                    /\ pc' \in {"lookup", "loading"} => Len(models') = pos' - 1
                    /\ pc' \in {"rejected", "idle", "released"} /\ ~ loaded' =>
                         models' = <<>>
  BY <1>0 DEF Aligned
<1>1. CASE Quiet
  BY <1>0, <1>1, QuietEffect DEF Aligned
<1>2. CASE GivesUp
  BY <1>0, <1>2, GivesUpEffect DEF Aligned, Phases
<1>3. CASE BeginLoad
  BY <1>0, <1>3 DEF BeginLoad, Aligned, Idle, object, client
<1>4. CASE LookupFound
  BY <1>0, <1>4 DEF LookupFound, Aligned, object, bounded, client
<1>5. ASSUME ModelLoaded \/ ModelWithoutHandle
      PROVE  /\ models' = Append(models, NewModel) /\ Len(models') = pos
             /\ \A i \in 1 .. Len(models') :
                  models'[i] = [artifact |-> i, attempt |-> attempt']
  <2>1. /\ pc = "loading" /\ models' = Append(models, NewModel)
        /\ slips' = slips /\ attempt' = attempt
    BY <1>5 DEF ModelLoaded, ModelWithoutHandle, bounded
  <2>2. /\ Len(models) = pos - 1
        /\ \A i \in 1 .. Len(models) :
             models[i] = [artifact |-> i, attempt |-> attempt]
    BY <2>1 DEF Aligned
  <2>3. Len(models') = pos
    BY <1>0, <2>1, <2>2
  <2>4. models'[pos] = [artifact |-> pos, attempt |-> attempt']
    BY <1>0, <2>1, <2>2 DEF NewModel
  <2>5. ASSUME NEW i \in 1 .. Len(models'), i # pos
        PROVE  models'[i] = [artifact |-> i, attempt |-> attempt']
    <3>1. i \in 1 .. Len(models)
      BY <1>0, <2>2, <2>3, <2>5
    <3>2. models'[i] = models[i]
      BY <1>0, <2>1, <3>1
    <3> QED
      BY <2>1, <2>2, <3>1, <3>2
  <2> QED
    BY <2>1, <2>3, <2>4, <2>5
<1>6. CASE ModelLoaded
  <2>1. CASE pos = Size
    <3>1. loaded' = TRUE /\ pc' = "idle"
      BY <1>6, <2>1 DEF ModelLoaded, Return, Idle
    <3> QED
      BY <1>0, <1>5, <1>6, <2>1, <3>1
  <2>2. CASE pos # Size
    <3>1. loaded' = FALSE /\ pc' = "lookup" /\ pos' = pos + 1
      BY <1>6, <2>2 DEF ModelLoaded, Phases, TypeOK
    <3> QED
      BY <1>0, <1>5, <1>6, <3>1
  <2> QED
    BY <2>1, <2>2
<1>7. CASE ModelWithoutHandle
  BY <1>0, <1>5, <1>7 DEF ModelWithoutHandle, BeginCleanup, Phases
<1>8. CASE CleanupUnloaded \/ CleanupRefused
  BY <1>0, <1>8
     DEF CleanupUnloaded, CleanupRefused, Cleaning, Aligned, object, bounded
<1>9. CASE CleanupEscaped
  BY <1>9 DEF CleanupEscaped
<1>10. CASE CleanupDone
  <2>1. models' = <<>> /\ ~ loaded' /\ pc' = "idle"
    BY <1>10 DEF CleanupDone, Cleaning, Phases, Return, Idle
  <2> QED
    BY <2>1
<1>11. CASE BeginEvaluation
  BY <1>0, <1>11 DEF BeginEvaluation, Aligned
<1>12. CASE Dispatched \/ DispatchFailed
  <2>1. /\ UNCHANGED <<models, loaded, attempt, slips>> /\ loaded
        /\ pc' \in {"idle", "dispatching"}
    BY <1>12 DEF Dispatched, DispatchFailed, ReturnEvaluation, Return, Idle,
                 object, bounded, Phases
  <2> QED
    BY <1>0, <2>1 DEF Aligned
<1>13. CASE BeginUnload \/ Dealloc
  BY <1>0, <1>13
     DEF BeginUnload, Dealloc, Aligned, Idle, object, bounded, client
<1>14. CASE ModelUnloaded \/ UnloadStopped
  <2>1. /\ UNCHANGED <<models, loaded, attempt>> /\ loaded
        /\ pc' \in {"idle", "released", "unloading", "releasing"}
        /\ "escaped" \notin slips
    BY <1>14 DEF ModelUnloaded, UnloadStopped, Unloading, Leave, Return, Idle,
                 object, bounded, Phases
  <2> QED
    BY <1>0, <2>1 DEF Aligned
<1>15. CASE UnloadDone
  <2>1. models' = <<>> /\ ~ loaded' /\ pc' \in {"idle", "released"}
    BY <1>15 DEF UnloadDone, Leave, Return, Idle
  <2> QED
    BY <2>1
<1>16. CASE Ended
  BY <1>0, <1>16 DEF Ended, vars, Aligned
<1> QED
  BY <1>1, <1>2, <1>3, <1>4, <1>6, <1>7, <1>8, <1>9, <1>10, <1>11, <1>12, <1>13,
     <1>14, <1>15, <1>16, ActionSplit

--------------------------------------------------------------------------------
(* Steps keep the client's models accounted for.                             *)

(* A step that takes what is handed back from the end of the list.           *)
LEMMA GiveBack ==
  ASSUME TypeOK, Phases, Aligned, Held, CleanupUnloaded \/ ModelUnloaded
  PROVE  Held'
<1>1. /\ Cleaning \/ Unloading
      /\ pos > 0 /\ pos \in Nat /\ pos <= Len(models)
      /\ Len(models) \in Nat
      /\ resident' = resident \ {models[pos]} /\ pos' = pos - 1
      /\ pc' = pc /\ models' = models /\ slips' = slips /\ refused' = refused
  BY DEF CleanupUnloaded, ModelUnloaded, TypeOK, object, Cleaning, Unloading
<1>2. Kept = pos /\ Kept' = pos - 1
  BY <1>1 DEF Kept, Cleaning, Unloading
<1>3. ASSUME Intact, ~ CleansAgain, NEW i \in 1 .. pos - 1
      PROVE  models[i] \in resident /\ models[i] # models[pos]
  <2>1. i \in 1 .. pos /\ i \in 1 .. Len(models) /\ pos \in 1 .. Len(models)
        /\ i # pos
    BY <1>1
  <2>2. models[i].artifact = i /\ models[pos].artifact = pos
    <3>1. "escaped" \notin slips
      BY <1>3 DEF Intact
    <3>2. /\ models[i] = [artifact |-> i, attempt |-> attempt]
          /\ models[pos] = [artifact |-> pos, attempt |-> attempt]
      BY <2>1, <3>1 DEF Aligned
    <3> QED
      BY <3>2
  <2>3. models[i] \in resident
    BY <1>2, <1>3, <2>1 DEF Held
  <2> QED
    BY <2>1, <2>2, <2>3
<1>4. ASSUME slips = {}, NEW m \in resident, m # models[pos], m \notin refused
      PROVE  \E i \in 1 .. pos - 1 : models[i] = m
  <2>1. PICK i \in 1 .. pos : models[i] = m
    BY <1>2, <1>4 DEF Held
  <2> QED
    BY <1>1, <1>4, <2>1
<1>5. (Intact' <=> Intact) /\ (CleansAgain' <=> CleansAgain)
  BY <1>1 DEF Intact, CleansAgain
<1>6. ASSUME Intact', ~ CleansAgain', NEW i \in 1 .. Kept'
      PROVE  models'[i] \in resident'
  BY <1>1, <1>2, <1>3, <1>5, <1>6
<1>7. ASSUME slips' = {}, NEW m \in resident', m \notin refused'
      PROVE  \E i \in 1 .. Kept' : models'[i] = m
  BY <1>1, <1>2, <1>4, <1>7
<1> QED
  BY <1>6, <1>7 DEF Held

(* A step that registers the model it loads.                                 *)
LEMMA TakeOn ==
  ASSUME TypeOK, Held, pc \notin {"cleanup", "rescue", "unloading", "releasing"},
         models' = Append(models, NewModel), pc' # "rescue",
         resident' = resident \cup {NewModel},
         UNCHANGED <<refused, slips>>, Kept' = Len(models')
  PROVE  Held'
<1>1. /\ Kept = Len(models) /\ Len(models) \in Nat
      /\ Kept' = Len(models) + 1 /\ models'[Len(models) + 1] = NewModel
      /\ \A i \in 1 .. Len(models) : models'[i] = models[i]
  BY DEF TypeOK, Kept, Cleaning, Unloading
<1>2. ASSUME Intact', NEW i \in 1 .. Kept'
      PROVE  models'[i] \in resident'
  <2>1. i \in 1 .. Len(models) \/ i = Len(models) + 1
    BY <1>1
  <2>2. Intact /\ ~ CleansAgain
    BY <1>2 DEF Intact, CleansAgain
  <2> QED
    BY <1>1, <2>1, <2>2 DEF Held
<1>3. ASSUME slips' = {}, NEW m \in resident', m \notin refused'
      PROVE  \E i \in 1 .. Kept' : models'[i] = m
  <2>1. CASE m = NewModel
    BY <1>1, <2>1
  <2>2. CASE m \in resident
    <3>1. PICK i \in 1 .. Len(models) : models[i] = m
      BY <1>1, <1>3, <2>2 DEF Held
    <3>2. i \in 1 .. Kept' /\ models'[i] = m
      BY <1>1, <3>1
    <3> QED
      BY <3>2
  <2> QED
    BY <2>1, <2>2
<1> QED
  BY <1>2, <1>3 DEF Held

LEMMA HeldStep ==
  ASSUME TypeOK, Phases, Aligned, Held, Next
  PROVE  Held'
<1>0. models \in Seq(Model) /\ Len(models) \in Nat /\ pos \in Nat
  BY DEF TypeOK
<1>1. ASSUME UNCHANGED <<models, resident, refused, slips>>, Kept' = Kept,
             pc # "rescue", pc' # "rescue"
      PROVE  Held'
  BY <1>1 DEF Held, Intact, CleansAgain
<1>2. ASSUME ~ Intact'
      PROVE  Held'
  BY <1>2 DEF Held, Intact
<1>3. CASE Quiet
  BY <1>1, <1>3, QuietEffect DEF Kept, Cleaning, Unloading
<1>4. CASE GivesUp
  <2>1. CASE pc = "cleanup"
    <3>1. /\ pos \in 1 .. Len(models) /\ Kept = pos /\ Kept' = Len(models)
          /\ pc' = "rescue" /\ models' = models /\ UNCHANGED <<resident, slips>>
          /\ refused' = refused \cup {models[pos]}
      BY <1>0, <1>4, <2>1, GivesUpEffect
         DEF InVain, Kept, Cleaning, Unloading, TypeOK
    <3>2. CleansAgain'
      BY <3>1 DEF CleansAgain
    <3>3. ASSUME slips' = {}, NEW m \in resident', m \notin refused'
          PROVE  \E k \in 1 .. Kept' : models'[k] = m
      <4>1. PICK k \in 1 .. pos : models[k] = m
        BY <3>1, <3>3 DEF Held
      <4> QED
        BY <1>0, <3>1, <4>1
    <3> QED
      BY <3>2, <3>3 DEF Held
  <2>2. CASE pc # "cleanup"
    <3>1. /\ Kept = Len(models) /\ Kept' = Len(models) /\ models' = models
          /\ refused' = refused /\ pc # "rescue"
      BY <1>4, <2>2, GivesUpEffect DEF Kept, Cleaning, Unloading
    <3>2. resident \subseteq resident' /\ slips \subseteq slips'
      BY <1>4, GivesUpEffect
    <3>3. slips' = {} => resident' = resident
      BY <1>4, GivesUpEffect
    <3>4. (Intact' => Intact) /\ ~ CleansAgain
      BY <3>1, <3>2 DEF Intact, CleansAgain
    <3> QED
      BY <3>1, <3>2, <3>3, <3>4 DEF Held
  <2> QED
    BY <2>1, <2>2
<1>5. CASE BeginLoad \/ LookupFound
  BY <1>1, <1>5
     DEF BeginLoad, LookupFound, Kept, Cleaning, Unloading, Idle, object, client
<1>6. CASE ModelLoaded
  <2>1. pc' \in {"idle", "lookup"}
    BY <1>6 DEF ModelLoaded, Return, Idle
  <2> QED
    BY <1>6, <2>1, TakeOn DEF ModelLoaded, Kept, Cleaning, Unloading
<1>7. CASE ModelWithoutHandle
  BY <1>7, TakeOn DEF ModelWithoutHandle, BeginCleanup, Kept, Cleaning, Unloading
<1>8. CASE CleanupUnloaded \/ ModelUnloaded
  BY <1>8, GiveBack
<1>9. CASE CleanupEscaped \/ UnloadStopped
  BY <1>2, <1>9 DEF CleanupEscaped, UnloadStopped, Intact
<1>10. CASE CleanupDone \/ UnloadDone
  <2>1. /\ Kept = 0 /\ models' = <<>> /\ UNCHANGED <<resident, refused, slips>>
        /\ pc' \in {"idle", "released"}
    BY <1>10 DEF CleanupDone, UnloadDone, Kept, Leave, Return, Idle, client
  <2>2. Kept' = 0
    BY <2>1 DEF Kept, Cleaning, Unloading
  <2> QED
    BY <2>1, <2>2 DEF Held
<1>11. CASE BeginEvaluation
  BY <1>1, <1>11 DEF BeginEvaluation, Kept, Cleaning, Unloading, Idle
<1>12. CASE Dispatched \/ DispatchFailed
  <2>1. /\ UNCHANGED <<models, resident, refused, slips>>
        /\ pc = "dispatching" /\ pc' \in {"dispatching", "idle"}
    BY <1>12 DEF Dispatched, DispatchFailed, ReturnEvaluation, Return, Idle,
                 object
  <2> QED
    BY <1>1, <2>1 DEF Kept, Cleaning, Unloading
<1>13. CASE BeginUnload \/ Dealloc
  <2>1. /\ UNCHANGED <<models, resident, refused, slips>> /\ pc = "idle"
        /\ \/ pc' \in {"unloading", "releasing"} /\ pos' = Len(models)
           \/ pc' = "released"
    BY <1>13 DEF BeginUnload, Dealloc, Idle, object, client
  <2> QED
    BY <1>1, <2>1 DEF Kept, Cleaning, Unloading
<1>14. CASE Ended
  BY <1>1, <1>14 DEF Ended, vars, Kept, Cleaning, Unloading
<1>15. CASE CleanupRefused
  <2>1. /\ pos \in 1 .. Len(models) /\ Kept = pos /\ Kept' = pos - 1
        /\ UNCHANGED <<pc, models, resident, slips>>
        /\ refused' = refused \cup {models[pos]}
    BY <1>0, <1>15
       DEF CleanupRefused, InVain, Kept, Cleaning, Unloading, TypeOK, object
  <2>2. (Intact' => Intact) /\ (CleansAgain => CleansAgain')
    BY <2>1 DEF Intact, CleansAgain
  <2>3. ASSUME Intact', ~ CleansAgain', NEW i \in 1 .. Kept'
        PROVE  models'[i] \in resident'
    <3>1. i \in 1 .. Kept
      BY <2>1
    <3> QED
      BY <2>1, <2>2, <2>3, <3>1 DEF Held
  <2>4. ASSUME slips' = {}, NEW m \in resident', m \notin refused'
        PROVE  \E i \in 1 .. Kept' : models'[i] = m
    <3>1. PICK i \in 1 .. pos : models[i] = m
      BY <2>1, <2>4 DEF Held
    <3>2. i # pos
      BY <2>1, <2>4, <3>1
    <3> QED
      BY <2>1, <3>1, <3>2
  <2> QED
    BY <2>3, <2>4 DEF Held
<1> QED
  BY <1>3, <1>4, <1>5, <1>6, <1>7, <1>8, <1>9, <1>10, <1>11, <1>12, <1>13, <1>14,
     <1>15, ActionSplit

--------------------------------------------------------------------------------
(* Steps keep the running evaluation fed.                                    *)

(* The program about to be dispatched computes.                              *)
LEMMA ProgramComputes ==
  ASSUME TypeOK, Phases, Aligned, Held, Fed, pc = "dispatching",
         Intact
  PROVE  Computes
<1>1. /\ BundleValid(bundle) /\ loaded /\ "escaped" \notin slips
      /\ pos \in 1 .. Size /\ Size = Len(bundle.artifacts)
      /\ bundle \in Bundle
  BY DEF TypeOK, Phases, Size, Intact
<1>2. /\ Submitted \in 1 .. Size /\ Size = Len(models)
      /\ models[Submitted] = [artifact |-> Submitted, attempt |-> attempt]
  BY <1>1, PlanPermutes DEF Submitted, Aligned, Artifacts
<1>3. models[Submitted] \in resident
  BY <1>1, <1>2 DEF Held, CleansAgain, Kept, Cleaning, Unloading
<1>4. ASSUME NEW x \in InputIds(Program)
      PROVE  content[<<x, surfaces[x]>>] = evaluation
  <2>1. \/ x \in GraphInputs(bundle)
        \/ \E l \in 1 .. pos - 1 :
             x \in OutputIds(bundle.artifacts[bundle.plan[l]])
    BY <1>1, <1>4, PlanPermutes
       DEF BundleValid, PlanFeedsArtifacts, Program, Submitted
  <2> QED
    BY <2>1 DEF Fed, Fresh
<1> QED
  BY <1>2, <1>3, <1>4 DEF Computes

(* What a dispatch leaves in the surfaces.                                   *)
LEMMA DispatchFreshens ==
  ASSUME TypeOK, Phases, Aligned, Held, Fed, pc = "dispatching",
         Intact,
         NEW x \in SurfaceIds(bundle), x \in OutputIds(Program) \/ Fresh(x)
  PROVE  Written[<<x, surfaces[x]>>] = evaluation
<1>1. <<x, surfaces[x]>> \in DOMAIN content
  BY DEF TypeOK, Fed
<1>2. Computes
  BY ProgramComputes
<1> QED
  BY <1>1, <1>2 DEF Written, Fresh

LEMMA FedStep ==
  ASSUME TypeOK, Phases, Aligned, Held, Fed, Next
  PROVE  Fed'
<1>0. /\ bundle' = bundle /\ SurfaceIds(bundle)' = SurfaceIds(bundle)
      /\ GraphInputs(bundle)' = GraphInputs(bundle)
      /\ GraphSurfaces' = GraphSurfaces
  BY BundleKept DEF GraphSurfaces
<1>1. ASSUME pc' # "dispatching"
      PROVE  Fed'
  BY <1>1 DEF Fed
<1>2. CASE Quiet \/ GivesUp
  BY <1>1, <1>2, QuietEffect, GivesUpEffect
<1>3. CASE BeginLoad \/ LookupFound \/ ModelLoaded \/ ModelWithoutHandle
  BY <1>1, <1>3
     DEF BeginLoad, LookupFound, ModelLoaded, ModelWithoutHandle, BeginCleanup,
         Return, Idle
<1>4. CASE CleanupUnloaded \/ CleanupRefused \/ CleanupEscaped \/ CleanupDone
  BY <1>1, <1>4
     DEF CleanupUnloaded, CleanupRefused, CleanupEscaped, CleanupDone, Cleaning,
         Return, Idle
<1>5. CASE BeginEvaluation
  <2> PICK given \in [GraphSurfaces -> Buffers] :
        /\ surfaces' = Bound(given) /\ args' = given
        /\ content' = [c \in DOMAIN content |->
                         IF c[1] \in GraphInputs(bundle) /\ c[2] = given[c[1]]
                           THEN evaluation + 1 ELSE content[c]]
    BY <1>5 DEF BeginEvaluation
  <2>1. Bound(given) \in [SurfaceIds(bundle) -> Buffers]
    BY <1>5, SurfacesTyped DEF BeginEvaluation, Phases, Idle
  <2>2. GraphSurfaces \subseteq SurfaceIds(bundle)
        /\ GraphInputs(bundle) \subseteq GraphSurfaces
    BY GraphSurfacesOwned DEF GraphSurfaces, TypeOK
  <2>3. \A x \in GraphSurfaces : surfaces'[x] = args'[x]
    BY <2>2 DEF Bound
  <2>4. ASSUME NEW x \in GraphInputs(bundle)
        PROVE  content'[<<x, surfaces'[x]>>] = evaluation'
    <3>1. surfaces'[x] = given[x] /\ <<x, given[x]>> \in DOMAIN content
      BY <2>2, <2>3 DEF TypeOK
    <3> QED
      BY <1>5, <3>1 DEF BeginEvaluation
  <2>5. profiled' => profile' = <<>>
    BY <1>5 DEF BeginEvaluation, ResetProfile
  <2>6. pos' = 1
    BY <1>5 DEF BeginEvaluation
  <2> QED
    BY <1>0, <2>1, <2>3, <2>4, <2>5, <2>6 DEF Fed, Fresh
<1>6. CASE Dispatched
  <2>1. CASE pos = Size
    BY <1>1, <1>6, <2>1 DEF Dispatched, ReturnEvaluation, Return, Idle
  <2>2. CASE pos # Size
    <3>1. /\ pc = "dispatching" /\ pos' = pos + 1 /\ content' = Written
          /\ UNCHANGED <<profile, args, profiled, surfaces, evaluation, slips>>
          /\ BundleValid(bundle) /\ bundle \in Bundle /\ pos \in 1 .. Size
      BY <1>6, <2>2 DEF Dispatched, object, call, bounded, Phases, TypeOK
    <3>2. ASSUME Intact, NEW x \in GraphInputs(bundle)
          PROVE  content'[<<x, surfaces'[x]>>] = evaluation'
      <4>1. x \in SurfaceIds(bundle) /\ Fresh(x)
        BY <3>1, <3>2, GraphSurfacesOwned DEF Fed
      <4> QED
        BY <3>1, <3>2, <4>1, DispatchFreshens
    <3>3. ASSUME Intact, NEW k \in 1 .. pos,
                 NEW x \in OutputIds(bundle.artifacts[bundle.plan[k]])
          PROVE  content'[<<x, surfaces'[x]>>] = evaluation'
      <4>1. bundle.plan[k] \in Artifacts(bundle)
        BY <3>1, PlanPermutes DEF Size
      <4>2. x \in SurfaceIds(bundle)
        BY <3>1, <4>1, GraphSurfacesOwned
      <4>3. x \in OutputIds(Program) \/ Fresh(x)
        <5>1. k \in 1 .. pos - 1 \/ k = pos
          BY <3>1 DEF TypeOK
        <5> QED
          BY <3>1, <3>3, <5>1 DEF Fed, Program, Submitted
      <4> QED
        BY <3>1, <3>3, <4>2, <4>3, DispatchFreshens
    <3>4. pos' - 1 = pos
      BY <3>1 DEF TypeOK
    <3> QED
      BY <1>0, <3>1, <3>2, <3>3, <3>4 DEF Fed, Fresh, Intact
  <2> QED
    BY <2>1, <2>2
<1>7. CASE DispatchFailed
  BY <1>1, <1>7 DEF DispatchFailed, ReturnEvaluation, Return, Idle
<1>8. CASE BeginUnload \/ Dealloc \/ ModelUnloaded \/ UnloadStopped \/ UnloadDone
  BY <1>1, <1>8
     DEF BeginUnload, Dealloc, ModelUnloaded, UnloadStopped, UnloadDone,
         Unloading, Leave, Return, Idle
<1>9. CASE Ended
  BY <1>0, <1>9 DEF Ended, vars, Fed, Fresh, Intact
<1> QED
  BY <1>2, <1>3, <1>4, <1>5, <1>6, <1>7, <1>8, <1>9, ActionSplit

--------------------------------------------------------------------------------
(* The theorems.                                                             *)

LEMMA StepInv == IInv /\ [Next]_vars => IInv'
<1> SUFFICES ASSUME IInv, [Next]_vars PROVE IInv'
  OBVIOUS
<1>1. CASE Next
  BY <1>1, TypeStep, PhasesStep, AlignedStep, HeldStep, FedStep DEF IInv
<1>2. CASE UNCHANGED vars
  BY <1>2
     DEF vars, IInv, TypeOK, Phases, Aligned, Held, Fed, Kept, Fresh, Cleaning,
         Unloading, Size, GraphSurfaces, Intact, CleansAgain
<1> QED
  BY <1>1, <1>2

(* The invariant holds in every reachable state.                             *)
THEOREM Inductive == Spec => []IInv
BY InitInv, StepInv, PTL DEF Spec

(* The types.                                                                *)
THEOREM TypeCorrect == Spec => []TypeOK
<1>1. IInv => TypeOK
  BY DEF IInv
<1> QED
  BY <1>1, Inductive, PTL

(* The model at a position of a loaded object's list is the one loaded from  *)
(* the program at that position (loadWithError:, line 566).                  *)
THEOREM ModelsAlignedHolds == Spec => []ModelsAligned
<1>1. IInv => ModelsAligned
  BY DEF IInv, Aligned, ModelsAligned
<1> QED
  BY <1>1, Inductive, PTL

(* A loaded object's models are held by the client, and no model is unloaded *)
(* twice, but in the second cleanup of a load, until unloadWithError: stops  *)
(* halfway or an exception leaves a cleanup (lines 384-393, 437-458, 633-646). *)
THEOREM ModelsResidentHolds == Spec => []ModelsResident
<1>1. ASSUME IInv, Intact, loaded, ~ Unloading
      PROVE  \A i \in 1 .. Len(models) : models[i] \in resident
  BY <1>1 DEF IInv, Held, Kept, CleansAgain, Phases, Cleaning, Unloading
<1>2. ASSUME IInv, Intact, ~ CleansAgain, Cleaning \/ Unloading, pos > 0
      PROVE  models[pos] \in resident
  <2>1. Kept = pos /\ pos \in 1 .. pos
    BY <1>2 DEF Kept, IInv, TypeOK
  <2> QED
    BY <1>2, <2>1 DEF IInv, Held
<1>3. IInv => ModelsResident
  BY <1>1, <1>2 DEF ModelsResident
<1> QED
  BY <1>3, Inductive, PTL

(* An object that is not loaded, or no longer exists, leaves no model behind *)
(* but those a cleanup asked the client in vain to unload                    *)
(* (unloadPartiallyLoadedModels, unloadWithError:).                          *)
THEOREM NoLeakHolds == Spec => []NoLeak
<1>1. IInv => NoLeak
  <2> SUFFICES ASSUME IInv, pc \in {"idle", "released"}, ~ loaded, slips = {}
               PROVE  resident \subseteq refused
    BY DEF NoLeak, Idle
  <2>1. models = <<>>
    BY DEF IInv, Aligned
  <2>2. Kept = 0
    BY <2>1 DEF Kept, Cleaning, Unloading
  <2> QED
    BY <2>2 DEF IInv, Held
<1> QED
  BY <1>1, Inductive, PTL

(* An evaluation that answers YES leaves its own results in the caller's     *)
(* buffers: the inputs it was given, and every graph output computed from    *)
(* them, whatever earlier evaluations left in the surfaces.                  *)
THEOREM EvaluationExactHolds == Spec => EvaluationExact
<1>1. ASSUME IInv, [Next]_vars, pc = "dispatching", pc' = Idle, answer' = "ok",
             Intact, NEW x \in GraphSurfaces
      PROVE  content'[<<x, args[x]>>] = evaluation
  <2>0. /\ TypeOK /\ Phases /\ Aligned /\ Held /\ Fed
        /\ bundle \in Bundle /\ BundleValid(bundle)
    BY <1>1 DEF IInv, TypeOK, Phases
  <2>1. Dispatched /\ pos = Size /\ content' = Written
    <3>1. Next
      BY <1>1 DEF vars, Idle
    <3>2. Dispatched
      <4>1. ~ GivesUp /\ ~ Quiet
        BY <1>1, GivesUpEffect, QuietEffect
      <4> QED
        BY <1>1, <3>1, <4>1, ActionSplit
           DEF BeginLoad, LookupFound, ModelLoaded, ModelWithoutHandle,
               CleanupUnloaded, CleanupRefused, CleanupEscaped, CleanupDone,
               BeginEvaluation, DispatchFailed, BeginUnload, Dealloc,
               ModelUnloaded, UnloadStopped, UnloadDone, Ended, Cleaning,
               Unloading, ReturnEvaluation, Return, Idle
    <3> QED
      BY <1>1, <3>2 DEF Dispatched, Idle
  <2>2. surfaces[x] = args[x]
    BY <1>1, <2>0 DEF Fed
  <2>3. CASE x \in GraphInputs(bundle)
    <3>1. Fresh(x) /\ x \in SurfaceIds(bundle)
      BY <1>1, <2>0, <2>3, GraphSurfacesOwned DEF Fed
    <3> QED
      BY <1>1, <2>0, <2>1, <2>2, <3>1, DispatchFreshens
  <2>4. CASE x \in GraphOutputs(bundle)
    <3>1. PICK i \in Artifacts(bundle) : x \in OutputIds(bundle.artifacts[i])
      BY <2>4 DEF GraphOutputs, Produced
    <3>2. PICK k \in 1 .. Size : bundle.plan[k] = i
      BY <2>0, PlanPermutes DEF Size
    <3>3. x \in OutputIds(Program) \/ Fresh(x)
      <4>1. k \in 1 .. pos - 1 \/ k = pos
        BY <2>0, <2>1 DEF TypeOK
      <4> QED
        BY <1>1, <2>0, <3>1, <3>2, <4>1 DEF Fed, Program, Submitted
    <3>4. x \in SurfaceIds(bundle)
      BY <2>0, <2>4, GraphSurfacesOwned
    <3> QED
      BY <1>1, <2>0, <2>1, <2>2, <3>3, <3>4, DispatchFreshens
  <2> QED
    BY <1>1, <2>3, <2>4 DEF GraphSurfaces
<1>2. IInv /\ [Next]_vars =>
        [pc = "dispatching" /\ pc' = Idle /\ answer' = "ok"
            /\ Intact =>
           \A x \in GraphSurfaces : content'[<<x, args[x]>>] = evaluation]_vars
  BY <1>1
<1> QED
  BY <1>2, Inductive, PTL DEF Spec, EvaluationExact

(* The profile of an evaluation is complete, or empty when it failed.        *)
THEOREM ProfileAllOrNothingHolds == Spec => ProfileAllOrNothing
<1>1. ASSUME IInv, [Next]_vars, pc = "dispatching", pc' = Idle, profiled
      PROVE  profile' = IF answer' = "ok" THEN bundle.plan ELSE <<>>
  <2>1. Next
    BY <1>1 DEF vars, Idle
  <2>2. Dispatched \/ DispatchFailed
    <3>1. ~ GivesUp /\ ~ Quiet
      BY <1>1, GivesUpEffect, QuietEffect
    <3> QED
      BY <1>1, <2>1, <3>1, ActionSplit
         DEF BeginLoad, LookupFound, ModelLoaded, ModelWithoutHandle,
             CleanupUnloaded, CleanupRefused, CleanupEscaped, CleanupDone,
             BeginEvaluation, BeginUnload, Dealloc, ModelUnloaded,
             UnloadStopped, UnloadDone, Ended, Cleaning, Unloading, Idle
  <2>3. profile = <<>>
    BY <1>1 DEF IInv, Fed
  <2>4. CASE Dispatched
    BY <1>1, <2>4 DEF Dispatched, ReturnEvaluation, Return, Idle
  <2>5. CASE DispatchFailed
    BY <1>1, <2>3, <2>5 DEF DispatchFailed, ReturnEvaluation, Return
  <2> QED
    BY <2>2, <2>4, <2>5
<1>2. IInv /\ [Next]_vars =>
        [pc = "dispatching" /\ pc' = Idle /\ profiled =>
           profile' = IF answer' = "ok" THEN bundle.plan ELSE <<>>]_vars
  BY <1>1
<1> QED
  BY <1>2, Inductive, PTL DEF Spec, ProfileAllOrNothing

================================================================================
