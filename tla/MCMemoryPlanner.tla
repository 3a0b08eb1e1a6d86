---------------------------- MODULE MCMemoryPlanner ----------------------------
(* Bounded instance of MemoryPlanner: every list of SurfaceCount surfaces   *)
(* over a few tasks and byte lengths on both sides of a granule.  One       *)
(* output surface stands for all those the planner skips, so the lists also *)
(* cover every shorter list of SRAM surfaces.                               *)
EXTENDS MemoryPlanner

CONSTANTS SurfaceCount, LastTask, ByteLengths

MCSurface ==
  {s \in [role : {"Intermediate"}, first : 0 .. LastTask,
          last : 0 .. LastTask, bytes : ByteLengths] : s.first <= s.last}
  \cup {[role |-> "Output", first |-> 0, last |-> LastTask, bytes |-> 4]}

MCSurfaceLists == [1 .. SurfaceCount -> MCSurface]

================================================================================
