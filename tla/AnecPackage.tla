------------------------------ MODULE AnecPackage ------------------------------
(***************************************************************************)
(* research/inspect_anec.py: what load_package accepts of an H13 package,  *)
(* and the conversion between a dense tensor and the physical surface of   *)
(* one binding.                                                            *)
(*                                                                         *)
(* A package is [tensors, programs, dispatch, chain, physical, results].   *)
(* tensors maps a name to [role, elements, bool, aliasOf, chunked]; a      *)
(* binding is [tensor, slice, first, count, held, nchw, role, constant],   *)
(* held being the physical elements it declares.  Names are members of a   *)
(* small set, shapes are element counts, and the fields of the manifest    *)
(* that only repeat one another, as byte counts do, are left out.  The     *)
(* 64-element lane and the 64-byte row are the constants Lane and Row.     *)
(***************************************************************************)
EXTENDS Integers, Sequences, FiniteSets

CONSTANTS
  Lane,    \* elements in the lane a program reads in
  Row,     \* smallest stride of a row, in bytes
  NoName   \* a tensor that is no alias

ASSUME PackageAssumption ==
  /\ Lane \in Nat \ {0}
  /\ Row \in Nat \ {0}

RoundUp(n, unit) == ((n + unit - 1) \div unit) * unit

(***************************************************************************)
(* Tensors, bindings and layouts.                                          *)
(***************************************************************************)
ElementBytes(tensor) == IF tensor.bool THEN 1 ELSE 2

Aliases(p) == {name \in DOMAIN p.tensors : p.tensors[name].aliasOf # NoName}

TensorsValid(p) ==
  \A name \in DOMAIN p.tensors : LET t == p.tensors[name] IN
    /\ t.role \in {"input", "output", "intermediate", "constant"}
    /\ t.elements > 0
    /\ t.aliasOf # NoName =>
         /\ ~t.chunked
         /\ t.aliasOf \in DOMAIN p.tensors \ Aliases(p)
         /\ t.elements * ElementBytes(t) =
              p.tensors[t.aliasOf].elements * ElementBytes(p.tensors[t.aliasOf])

(* surface_layout: the stride of a row, of a plane, and the whole span.    *)
Stride(b, bytes) ==
  LET needed == RoundUp(b.nchw[4] * bytes, Row)
  IN IF needed > Row THEN needed ELSE Row
Plane(b, bytes) == Stride(b, bytes) * b.nchw[3]
Span(b, bytes) == b.nchw[1] * b.nchw[2] * Plane(b, bytes)
LayoutElements(b) == b.nchw[1] * b.nchw[2] * b.nchw[3] * b.nchw[4]

BindingInterval(p, b) ==
  [first |-> IF b.slice THEN b.first ELSE 0,
   count |-> IF b.slice THEN b.count ELSE p.tensors[b.tensor].elements,
   held  |-> IF b.slice THEN b.held ELSE p.tensors[b.tensor].elements]

(* A manifest with a field of another type is refused before anything is   *)
(* computed from it, so the packages of the model have the right types.    *)
IsBinding(b) ==
  /\ b.slice \in BOOLEAN
  /\ {b.first, b.count, b.held} \subseteq Int
  /\ b.nchw \in [1..4 -> Int]

IsPackage(p) ==
  /\ \A name \in DOMAIN p.tensors :
       p.tensors[name].elements \in Int /\ p.tensors[name].bool \in BOOLEAN
  /\ p.dispatch \in Seq(Int)
  /\ Len(p.programs) \in Nat /\ DOMAIN p.programs = 1..Len(p.programs)
  /\ \A n \in DOMAIN p.programs :
       /\ IsBinding(p.programs[n].output)
       /\ \A k \in DOMAIN p.programs[n].inputs : IsBinding(p.programs[n].inputs[k])

End(i) == i.first + i.count
HeldEnd(i) == i.first + i.held

IntervalValid(p, b) ==
  /\ b.tensor \in DOMAIN p.tensors \ Aliases(p)
  /\ IF b.slice
     THEN /\ b.first >= 0
          /\ b.count > 0
          /\ b.held >= b.count
          /\ b.first + b.count <= p.tensors[b.tensor].elements
     ELSE b.count = p.tensors[b.tensor].elements

CheckBinding(p, b) ==
  /\ \A d \in 1..4 : b.nchw[d] > 0
  /\ IntervalValid(p, b)
  /\ BindingInterval(p, b).count = b.count
  /\ BindingInterval(p, b).held = LayoutElements(b)
  /\ b.role \in {"none", "intermediate"}

(***************************************************************************)
(* One program: its channels, the routing of its tasks, its bindings.      *)
(*                                                                         *)
(* A task is [src1, src2, dst, clamp]; each DMA is [state, channel], its   *)
(* state "off" when the register is absent or disabled, "surface" when it  *)
(* moves an outer surface, "staged" when it stays in L2, "other" for any   *)
(* configuration a chain may not carry.                                    *)
(***************************************************************************)
Batched == {"batched-matmul", "batched-matvec"}
Sources == {"src1", "src2"}
Selectors == Sources \cup {"dst"}

ConstantChannel(program, task, s) ==
  /\ s \in Sources
  /\ program.constants
  /\ \/ program.encoder \in Batched \cup {"boolean"}
     \/ /\ program.encoder = "oracle"
        /\ program.operation \in {"add", "mul"}
        /\ Len(program.inputs) = 1
     \/ /\ program.encoder = "broadcast"
        /\ Len(program.inputs) = 1
        /\ task.dst = [state |-> "staged", channel |-> 0]

AllocatedChannels(program) ==
  IF program.encoder = "boolean" THEN {3, 4, 5, 6, 7} ELSE {3, 4, 5, 6}

TaskHeadersValid(program) ==
  \A k \in DOMAIN program.tasks : \A s \in Selectors :
    LET task == program.tasks[k]
        channel == task[s].channel
    IN \/ task[s].state = "off"
       \/ channel = 0
       \/ channel = 1 /\ ConstantChannel(program, task, s)
       \/ /\ channel \in AllocatedChannels(program)
          /\ channel \in program.tiles

ChainRoutingValid(program) ==
  LET final == Len(program.tasks)
      routed == {k \in 1..final : program.tasks[k].dst.state = "surface"}
      clamped == {k \in 1..final : program.tasks[k].clamp}
  IN /\ program.encoder = "composed-chain"
     /\ \A k \in 1..final : \A s \in Selectors : program.tasks[k][s].state # "other"
     /\ routed = {final}
     /\ clamped = {final}

(* tiles is the set of channels the header gives an allocation.            *)
Occupied(program) == {program.outputChannel} \cup (5..(4 + Len(program.inputs)))

InputLimit(program) == IF program.operation = "select" THEN 3 ELSE 2

(* Mutant: an allocation on a channel nothing is bound to is let through.  *)
MutantChannelsValid(program) ==
  /\ program.outputChannel \in {4, 5}
  /\ Occupied(program) \subseteq program.tiles
  /\ program.inputs # <<>> \/ program.operation = "floor"
  /\ Len(program.inputs) <= InputLimit(program)

ChannelsValid(program) ==
  /\ program.outputChannel \in {4, 5}
  /\ program.tiles \ {0, 3} \subseteq Occupied(program)
  /\ Occupied(program) \subseteq program.tiles
  /\ program.inputs # <<>> \/ program.operation = "floor"
  /\ Len(program.inputs) <= InputLimit(program)

ProgramValid(p, program) ==
  /\ ChannelsValid(program)
  /\ program.operation = "chain" => ChainRoutingValid(program)
  /\ TaskHeadersValid(program)
  /\ \A k \in DOMAIN program.inputs : CheckBinding(p, program.inputs[k])
  /\ CheckBinding(p, program.output)
  /\ \A k \in DOMAIN program.inputs : program.inputs[k].tensor # program.output.tensor
  /\ ~program.output.constant

(***************************************************************************)
(* The package: roles, and the storage its programs share.                 *)
(***************************************************************************)
Indices(p) == DOMAIN p.programs
Position(p, n) == CHOOSE k \in DOMAIN p.dispatch : p.dispatch[k] = n

DispatchComplete(p) ==
  /\ Indices(p) # {}
  /\ Len(p.dispatch) = Len(p.programs)
  /\ {p.dispatch[k] : k \in DOMAIN p.dispatch} = Indices(p)
  /\ p.chain => /\ Len(p.programs) = 1
                /\ p.programs[1].operation = "chain"

OutputRoleValid(p, b) ==
  IF p.tensors[b.tensor].role = "intermediate"
  THEN b.role = "intermediate"
  ELSE p.tensors[b.tensor].role = "output" /\ b.role = "none"

InputRoleValid(p, b) ==
  LET role == p.tensors[b.tensor].role
  IN /\ b.role = IF role = "intermediate" THEN "intermediate" ELSE "none"
     /\ b.constant = (role = "constant")

(* The intermediates of a chain live in its scratch: nothing binds them.   *)
RolesValid(p) ==
  \A n \in Indices(p) :
    /\ OutputRoleValid(p, p.programs[n].output)
    /\ \A k \in DOMAIN p.programs[n].inputs : InputRoleValid(p, p.programs[n].inputs[k])
    /\ p.chain => /\ p.programs[n].output.role = "none"
                  /\ \A k \in DOMAIN p.programs[n].inputs : p.programs[n].inputs[k].role = "none"

Bound(p) ==
  UNION {{p.programs[n].output.tensor} \cup
         {p.programs[n].inputs[k].tensor : k \in DOMAIN p.programs[n].inputs} : n \in Indices(p)}

EveryTensorUsed(p) ==
  \A name \in DOMAIN p.tensors \ Bound(p) :
    \/ p.tensors[name].role = "constant"
    \/ name \in Aliases(p)
    \/ p.chain /\ p.tensors[name].role = "intermediate"

StorageOutputs(p) ==
  {name \in DOMAIN p.tensors \ Aliases(p) : p.tensors[name].role = "output"}

ProducedStorage(p) ==
  StorageOutputs(p) \cup
  IF p.chain THEN {}
  ELSE {name \in DOMAIN p.tensors \ Aliases(p) : p.tensors[name].role = "intermediate"}

(* What writes and what reads one tensor, as [interval, program].          *)
Producers(p, name) ==
  {[at |-> BindingInterval(p, p.programs[n].output), program |-> n] :
     n \in {m \in Indices(p) : p.programs[m].output.tensor = name}}

Consumers(p, name) ==
  UNION {{[at |-> BindingInterval(p, p.programs[n].inputs[k]), program |-> n] :
            k \in {j \in DOMAIN p.programs[n].inputs : p.programs[n].inputs[j].tensor = name}} :
         n \in Indices(p)}

(* The users of a tensor in the order sorted() gives their intervals.      *)
Before(a, b) ==
  \/ a.at.first < b.at.first
  \/ a.at.first = b.at.first /\ a.at.held < b.at.held
  \/ a.at.first = b.at.first /\ a.at.held = b.at.held /\ a.program < b.program

Sorted(users) ==
  CHOOSE order \in [1..Cardinality(users) -> users] :
    \A i, j \in 1..Cardinality(users) : i < j => Before(order[i], order[j])

ProducersTile(p, name) ==
  LET order == Sorted(Producers(p, name))
      Starts(k) == IF k = 1 THEN 0 ELSE End(order[k - 1].at)
  IN /\ order # <<>>
     /\ \A k \in DOMAIN order : order[k].at.first = Starts(k)
     /\ End(order[Len(order)].at) = p.tensors[name].elements

ConsumersCover(p, name) ==
  UNION {i.at.first..(End(i.at) - 1) : i \in Consumers(p, name)} = 0..(p.tensors[name].elements - 1)

WritesApart(p, name) ==
  LET order == Sorted(Producers(p, name))
  IN \A k \in 1..(Len(order) - 1) : HeldEnd(order[k].at) <= order[k + 1].at.first

(* The walk of one reader over what was written: where it ends, and        *)
(* whether every write it passed is dispatched before the reader.          *)
Reach(order, read) ==
  LET reach[k \in 0..Len(order)] ==
        IF k = 0 THEN read.at.first
        ELSE LET before == reach[k - 1]
                 write == order[k].at
             IN IF /\ before < HeldEnd(read.at)
                   /\ HeldEnd(write) > before
                   /\ write.first <= before
                THEN HeldEnd(write) ELSE before
  IN reach

(* Mutant: the dispatch order of writer and reader is not compared.        *)
MutantReadAfterWrites(p, name, read) ==
  LET order == Sorted(Producers(p, name))
      last == Reach(order, read)[Len(order)]
  IN last >= HeldEnd(read.at) \/ HeldEnd(read.at) <= RoundUp(last, Lane)

ReadAfterWrites(p, name, read) ==
  LET order == Sorted(Producers(p, name))
      reach == Reach(order, read)
      last == reach[Len(order)]
  IN /\ \A k \in DOMAIN order :
          reach[k] # reach[k - 1] =>
            Position(p, order[k].program) < Position(p, read.program)
     /\ \/ last >= HeldEnd(read.at)
        \/ HeldEnd(read.at) <= RoundUp(last, Lane)

StorageValid(p, name) ==
  /\ ProducersTile(p, name)
  /\ Consumers(p, name) # {} =>
       /\ ConsumersCover(p, name)
       /\ WritesApart(p, name)
       /\ \A read \in Consumers(p, name) : ReadAfterWrites(p, name, read)

(* physical is the set of physical outputs, results the logical results,   *)
(* each [tensor, first, count].                                            *)
ResultsValid(p) ==
  /\ p.physical # {}
  /\ p.physical = StorageOutputs(p)
  /\ \A r \in p.results :
       /\ r.tensor \in p.physical
       /\ r.first >= 0
       /\ r.first + r.count <= p.tensors[r.tensor].elements
  /\ {r.tensor : r \in p.results} = p.physical

LoadPackage(p) ==
  /\ DispatchComplete(p)
  /\ TensorsValid(p)
  /\ \A n \in Indices(p) : ProgramValid(p, p.programs[n])
  /\ RolesValid(p)
  /\ EveryTensorUsed(p)
  /\ \A name \in ProducedStorage(p) : StorageValid(p, name)
  /\ ResultsValid(p)

(***************************************************************************)
(* convert_tensor: dense bytes to a surface and back, two bytes at a time. *)
(* A surface and a dense tensor are functions from a byte's offset.        *)
(***************************************************************************)
(* Mutant: the surface is taken for dense rows without a stride.           *)
MutantOffset(b, bytes, element) == element * 2

Offset(b, bytes, element) ==
  (element \div b.nchw[4]) * Stride(b, bytes) + (element % b.nchw[4]) * 2

(* A dense tensor that is not of the size of the binding is refused.       *)
Convertible(b, bytes, dense) == DOMAIN dense = 0..(b.count * bytes - 1)

Pack(b, bytes, dense, pad) ==
  LET elements == 0..((b.count * bytes) \div 2 - 1)
      Source(k) == {e \in elements \X {0, 1} : Offset(b, bytes, e[1]) + e[2] = k}
  IN [k \in 0..(Span(b, bytes) - 1) |->
        IF Source(k) = {} THEN pad
        ELSE LET s == CHOOSE s \in Source(k) : \A t \in Source(k) : t[1] <= s[1]
             IN dense[2 * s[1] + s[2]]]

Unpack(b, bytes, surface, pad) ==
  [k \in 0..(b.count * bytes - 1) |->
     IF k \div 2 < (b.count * bytes) \div 2
     THEN surface[Offset(b, bytes, k \div 2) + (k % 2)] ELSE pad]
=============================================================================
