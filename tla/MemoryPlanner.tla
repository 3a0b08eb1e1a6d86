----------------------------- MODULE MemoryPlanner -----------------------------
(***************************************************************************)
(* The SRAM planner of the H16G backend: +[ANEMemoryPlanner                *)
(* allocateSurfaces:target:] and the working-set test its only caller,     *)
(* +[ANETaskScheduler scheduleGraph:...], applies to the peak it returns.  *)
(*                                                                         *)
(* Surfaces are placed one at a time, in list order, at the first offset   *)
(* the restart scan accepts.  One step of the specification is one pass    *)
(* of the scan over the surfaces already placed: it either finds the first *)
(* conflicting surface and moves the candidate past it (Bump), or finds    *)
(* none and places the surface (Place).                                    *)
(*                                                                         *)
(* NSUInteger arithmetic is modelled by natural numbers: byte lengths are  *)
(* those of tensors and stay far below 2^64.                               *)
(***************************************************************************)
EXTENDS Integers, Sequences

CONSTANTS
  SurfaceLists,    \* the lists of scheduled surfaces the planner may be given
  Granule,         \* target.sramGranuleBytes
  BankCount,       \* target.sramBankCount
  WorkingSetBytes  \* target.workingSetBytes

(* ANEScheduledSurfaceRole. *)
Roles == {"ExternalInput", "Constant", "Output", "Intermediate", "Carry"}

(* What the planner reads of an ANEScheduledSurface: its role, its closed  *)
(* lifetime in task indices and its byte length.                           *)
Surface == [role : Roles, first : Nat, last : Nat, bytes : Nat]

ASSUME TargetAssumption ==
  /\ Granule \in Nat \ {0}
  /\ BankCount \in Nat \ {0}
  /\ WorkingSetBytes \in Nat

ASSUME SurfacesAssumption == SurfaceLists \subseteq Seq(Surface)

VARIABLES
  surfaces,   \* the list being planned
  next,       \* index of the surface being placed
  trial,      \* candidate: the offset under trial for it
  offset,     \* sramOffset of every surface (0 until it is placed)
  bank,       \* the SRAM bank of every placed surface
  peak,       \* highest end of a placed surface
  status      \* "planning", then the scheduler's verdict

memoryVars == <<surfaces, next, trial, offset, bank, peak, status>>

--------------------------------------------------------------------------------

AlignUp(value, alignment) ==
  ((value + alignment - 1) \div alignment) * alignment

(* Size(i) is never 0: an empty surface still takes one granule. *)
Size(i) ==
  AlignUp(IF surfaces[i].bytes = 0 THEN 1 ELSE surfaces[i].bytes, Granule)

(* Mutant: lifetimes taken as half-open, so a hand-over task is ignored.   *)
MutantLifetimesOverlap(i, j) ==
  ~ (surfaces[i].last <= surfaces[j].first \/ surfaces[j].last <= surfaces[i].first)

LifetimesOverlap(i, j) ==
  ~ (surfaces[i].last < surfaces[j].first \/ surfaces[j].last < surfaces[i].first)

RangesOverlap(a, aSize, b, bSize) == a < b + bSize /\ b < a + aSize

InSRAM(i) == surfaces[i].role \in {"Intermediate", "Carry"}

(* The surfaces placed so far; the code's `allocated` lists them by index. *)
Allocated == {i \in 1 .. next - 1 : InSRAM(i)}

Conflicts(j) ==
  /\ LifetimesOverlap(next, j)
  /\ RangesOverlap(trial, Size(next), offset[j], Size(j))

--------------------------------------------------------------------------------

MemoryInit ==
  /\ surfaces \in SurfaceLists
  /\ next = 1
  /\ trial = 0
  /\ offset = [i \in 1 .. Len(surfaces) |-> 0]
  /\ bank = [i \in 1 .. Len(surfaces) |-> 0]
  /\ peak = 0
  /\ status = "planning"

Placing == status = "planning" /\ next \in 1 .. Len(surfaces)

(* Inputs, constants and outputs live outside SRAM. *)
Skip ==
  /\ Placing
  /\ ~ InSRAM(next)
  /\ next' = next + 1
  /\ UNCHANGED <<surfaces, trial, offset, bank, peak, status>>

(* Mutant: the restart goes to the start of the surface in the way.         *)
MutantBump ==
  /\ Placing
  /\ InSRAM(next)
  /\ \E other \in Allocated :
       Conflicts(other) /\ trial' = AlignUp(offset[other], Granule)
  /\ UNCHANGED <<surfaces, next, offset, bank, peak, status>>

(* The scan stops at the first placed surface in the way and restarts past it. *)
Bump ==
  /\ Placing
  /\ InSRAM(next)
  /\ \E other \in Allocated :
       /\ Conflicts(other)
       /\ \A earlier \in Allocated : earlier < other => ~ Conflicts(earlier)
       /\ trial' = AlignUp(offset[other] + Size(other), Granule)
  /\ UNCHANGED <<surfaces, next, offset, bank, peak, status>>

(* What every placement does: fix the offset and move to the next surface. *)
Fixing ==
  /\ Placing
  /\ InSRAM(next)
  /\ \A other \in Allocated : ~ Conflicts(other)
  /\ offset' = [offset EXCEPT ![next] = trial]
  /\ next' = next + 1
  /\ UNCHANGED <<surfaces, status>>

End == trial + Size(next)

(* Mutants: the next scan starts where this one ended; the peak is the end *)
(* of the last surface placed.                                             *)
MutantPlaceNextFit ==
  /\ Fixing
  /\ bank' = [bank EXCEPT ![next] = (trial \div Granule) % BankCount]
  /\ peak' = IF End > peak THEN End ELSE peak
  /\ trial' = trial

MutantPlacePeak ==
  /\ Fixing
  /\ bank' = [bank EXCEPT ![next] = (trial \div Granule) % BankCount]
  /\ peak' = End
  /\ trial' = 0

(* A full scan without a conflict fixes the offset, the bank and the peak. *)
Place ==
  /\ Fixing
  /\ bank' = [bank EXCEPT ![next] = (trial \div Granule) % BankCount]
  /\ peak' = IF End > peak THEN End ELSE peak
  /\ trial' = 0

(* The scheduler accepts the plan or reports h16g.schedule.sram-overflow. *)
Judge ==
  /\ status = "planning"
  /\ next > Len(surfaces)
  /\ status' = IF peak > WorkingSetBytes THEN "overflow" ELSE "scheduled"
  /\ UNCHANGED <<surfaces, next, trial, offset, bank, peak>>

Planned == status # "planning" /\ UNCHANGED memoryVars

MemoryNext == Skip \/ Bump \/ Place \/ Judge \/ Planned

(* A single thread runs the planner to its end. *)
MemorySpec == MemoryInit /\ [][MemoryNext]_memoryVars /\ WF_memoryVars(Skip \/ Bump \/ Place \/ Judge)

--------------------------------------------------------------------------------

(* Every variable has its type; nothing not yet placed has an offset. *)
MemoryTypeOK ==
  /\ surfaces \in Seq(Surface)
  /\ next \in 1 .. Len(surfaces) + 1
  /\ trial \in Nat
  /\ offset \in [1 .. Len(surfaces) -> Nat]
  /\ bank \in [1 .. Len(surfaces) -> 0 .. BankCount - 1]
  /\ peak \in Nat
  /\ status \in {"planning", "scheduled", "overflow"}

Lifetime(i) == surfaces[i].first .. surfaces[i].last
Footprint(i) == offset[i] .. offset[i] + surfaces[i].bytes - 1

(* No byte of SRAM holds two surfaces at a task where both are live, in     *)
(* every order of sizes and lifetimes the scan of allocateSurfaces meets.   *)
NoLiveOverlap ==
  \A i, j \in Allocated :
    i # j /\ Lifetime(i) \cap Lifetime(j) # {}
      => Footprint(i) \cap Footprint(j) = {}

(* The restart scan is first fit: below the chosen offset every byte       *)
(* position collides with a surface placed earlier and live at the same    *)
(* time, so no reusable hole was skipped over.                             *)
LowestFit ==
  \A i \in Allocated : \A lower \in 0 .. offset[i] - 1 :
    \E j \in Allocated :
      /\ j < i
      /\ LifetimesOverlap(i, j)
      /\ RangesOverlap(lower, Size(i), offset[j], Size(j))

(* The scheduler accepts exactly the plans in which every SRAM surface     *)
(* ends inside the working set: an overflow diagnostic is never spurious   *)
(* and an accepted plan never reaches past the budget.                     *)
VerdictExact ==
  status # "planning" =>
    (status = "scheduled" <=> \A i \in Allocated : offset[i] + Size(i) <= WorkingSetBytes)

(* The do-while restart loop terminates for every list of surfaces. *)
PlanningEnds == <>(status # "planning")

================================================================================
