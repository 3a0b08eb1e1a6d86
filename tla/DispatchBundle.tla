----------------------------- MODULE DispatchBundle -----------------------------
(***************************************************************************)
(* What validateBindingManifest and validateDispatchBundle                 *)
(* (ANEProvisionedRuntime.mm:73-237) accept, and the graph inputs and      *)
(* outputs they derive.                                                    *)
(*                                                                         *)
(* An artifact is the set of its bindings.  A layout stands for the byte   *)
(* lengths and strides of a surface; SoundLayouts are those that pass the  *)
(* size and stride tests.  Artifacts are numbered from 1, as is the plan.  *)
(***************************************************************************)
EXTENDS Integers, Sequences, FiniteSets

CONSTANTS
  Ids,          \* surface identifiers
  Layouts,      \* surface layouts
  SoundLayouts  \* layouts with a covered, monotonic and nonempty extent

(* ANESurfaceRole. *)
Roles == {"Input", "Weight", "Intermediate", "Output"}

Binding == [id : Ids, role : Roles, layout : Layouts, index : Int]

Bundle ==
  [target : STRING, artifacts : Seq(SUBSET Binding), plan : Seq(Int),
   hashes : Nat]

ASSUME LayoutAssumption == SoundLayouts \subseteq Layouts

--------------------------------------------------------------------------------

Surfaces(a) == {b \in a : b.role # "Weight"}
Exchanged(a) == {b \in a : b.role \in {"Input", "Output"}}
Inputs(a) == {b \in a : b.role = "Input"}
Outputs(a) == {b \in a : b.role = "Output"}

InputIds(a) == {b.id : b \in Inputs(a)}
OutputIds(a) == {b.id : b \in Outputs(a)}
Indices(s) == {b.index : b \in s}

(* H13 fixes the channels; the other target numbers its surfaces from 0.   *)
ChannelsMatch(target, a) ==
  IF target = "H13"
    THEN Indices(Outputs(a)) = {4} /\ Indices(Inputs(a)) \in {{5}, {5, 6}}
    ELSE /\ Exchanged(a) # {}
         /\ Indices(Exchanged(a)) = 0 .. Cardinality(Exchanged(a)) - 1

ManifestValid(target, a) ==
  /\ \A b, c \in a : b.id = c.id => b = c
  /\ \A b \in a : b.layout \in SoundLayouts
  /\ \A b \in a \ Exchanged(a) : b.index = -1
  /\ \A b \in Exchanged(a) : b.index >= 0
  /\ \A b, c \in Exchanged(a) : b.index = c.index => b = c
  /\ ChannelsMatch(target, a)

Artifacts(b) == 1 .. Len(b.artifacts)

Produced(b) == UNION {OutputIds(b.artifacts[i]) : i \in Artifacts(b)}
Consumed(b) == UNION {InputIds(b.artifacts[i]) : i \in Artifacts(b)}

GraphInputs(b) == Consumed(b) \ Produced(b)
GraphOutputs(b) == Produced(b) \ Consumed(b)

(* canonicalBindings: one surface per identifier. *)
SurfaceIds(b) ==
  UNION {{x.id : x \in Surfaces(b.artifacts[i])} : i \in Artifacts(b)}

SharedLayoutsMatch(b) ==
  \A i, j \in Artifacts(b) :
    \A x \in Surfaces(b.artifacts[i]), y \in Surfaces(b.artifacts[j]) :
      x.id = y.id => x.layout = y.layout

OneProducer(b) ==
  \A i, j \in Artifacts(b) :
    OutputIds(b.artifacts[i]) \cap OutputIds(b.artifacts[j]) # {} => i = j

PlanCoversArtifacts(b) ==
  /\ Len(b.artifacts) > 0 /\ Len(b.plan) = Len(b.artifacts)
  /\ \A k \in 1 .. Len(b.plan) : b.plan[k] \in Artifacts(b)
  /\ \A k, l \in 1 .. Len(b.plan) : b.plan[k] = b.plan[l] => k = l

(* Mutant: a surface counts as available when any artifact produces it.    *)
MutantPlanFeedsArtifacts(b) ==
  \A k \in 1 .. Len(b.plan) : \A x \in InputIds(b.artifacts[b.plan[k]]) :
    x \in GraphInputs(b) \cup Produced(b)

(* No artifact is dispatched before the producers of what it reads.        *)
PlanFeedsArtifacts(b) ==
  \A k \in 1 .. Len(b.plan) : \A x \in InputIds(b.artifacts[b.plan[k]]) :
    \/ x \in GraphInputs(b)
    \/ \E l \in 1 .. k - 1 : x \in OutputIds(b.artifacts[b.plan[l]])

BundleValid(b) ==
  /\ b.target \in {"H13", "H16G"}
  /\ b.hashes = Len(b.artifacts)
  /\ \A i \in Artifacts(b) : ManifestValid(b.target, b.artifacts[i])
  /\ SharedLayoutsMatch(b)
  /\ OneProducer(b)
  /\ PlanCoversArtifacts(b)
  /\ PlanFeedsArtifacts(b)
  /\ GraphInputs(b) # {} /\ GraphOutputs(b) # {}

================================================================================
