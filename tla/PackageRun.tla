------------------------------- MODULE PackageRun -------------------------------
(***************************************************************************)
(* tools/h13_run_linux.py, run_package: the data that flows between the    *)
(* programs of one package.  LinuxRunner has the device calls, the budget  *)
(* and the failures; here every call succeeds, and what is followed is     *)
(* which bytes of which tensor reach which place of which surface.         *)
(*                                                                         *)
(* A byte is <<tensor, offset>>, the byte the tensor has at that offset,   *)
(* or Pad.  The device is external: a program whose surfaces all hold the  *)
(* right bytes where the layout puts them writes its output the same way,  *)
(* and garbage otherwise.                                                  *)
(*                                                                         *)
(* The runner moves two bytes for each element, whatever its width.  Bytes *)
(* are copied between slices of bytearrays, and a slice may be shorter     *)
(* than what is asked for, or replace more bytes than it has: so what is   *)
(* composed of elements of one byte may not have the size it should.       *)
(***************************************************************************)
EXTENDS AnecPackage

CONSTANTS
  Packages   \* packages that may be given to the runner

ASSUME PackagesAssumption == \A p \in Packages : IsPackage(p)

VARIABLES
  package,
  phase,     \* "load", "run", "unpack", "done", or why it stopped
  position,  \* place in the dispatch plan
  regions,   \* output bindings in the order written, each with its surface
  actual,    \* dense bytes of each output, at the end
  chunked    \* chunked_tensors of the package

vars == <<package, phase, position, regions, actual, chunked>>

Pad == <<NoName, 0>>
Garbage == <<NoName, 1>>

Tensor(name) == package.tensors[name]
Width(b) == ElementBytes(Tensor(b.tensor))
Interval(b) == BindingInterval(package, b)

(* The request's inputs and a constant's bytes, as dense data.             *)
Dense(name) == [k \in 0..(Tensor(name).elements * ElementBytes(Tensor(name)) - 1) |-> <<name, k>>]

(* dense_slice: the bytes there are between two offsets.                   *)
DenseSlice(b) ==
  LET from == Interval(b).first * 2
      available == {k \in 0..(Interval(b).count * 2 - 1) : from + k \in DOMAIN Dense(b.tensor)}
  IN [k \in available |-> Dense(b.tensor)[from + k]]

(* The payload of a constant starts with the bytes of its binding.         *)
Payload(b) ==
  [k \in 0..(Interval(b).count * Width(b) - 1) |-> <<b.tensor, Interval(b).first * Width(b) + k>>]

(* Where the layout of a surface puts byte j of one of its elements.       *)
Place(b, element, j) ==
  LET w == b.nchw[4]
      h == b.nchw[3]
      c == b.nchw[2]
      plane == element \div (w * h)
  IN (plane \div c) * c * Plane(b, Width(b)) + (plane % c) * Plane(b, Width(b))
     + ((element \div w) % h) * Stride(b, Width(b)) + (element % w) * Width(b) + j

Holds(b, surface) ==
  \A element \in 0..(Interval(b).count - 1) : \A j \in 0..(Width(b) - 1) :
    surface[Place(b, element, j)] = <<b.tensor, (Interval(b).first + element) * Width(b) + j>>

(***************************************************************************)
(* Composing the surfaces of one program.                                  *)
(***************************************************************************)
RegionsOf(name) == {regions[j] : j \in {i \in DOMAIN regions : regions[i].binding.tensor = name}}

(* data[from:to] = values, which may change the length.                    *)
Assign(data, from, to, values) ==
  LET kept == IF from < Len(data) THEN from ELSE Len(data)
  IN SubSeq(data, 1, kept) \o values \o SubSeq(data, to + 1, Len(data))

(* data[at:at + 2], as far as there are bytes.                             *)
Pair(data, at) ==
  IF at + 1 \in DOMAIN data THEN <<data[at], data[at + 1]>>
  ELSE IF at \in DOMAIN data THEN <<data[at]>> ELSE <<>>

Zeros(count) == [k \in 1..count |-> Pad]
ByOffset(data) == [k \in 0..(Len(data) - 1) |-> data[k + 1]]

(* _intermediate_buffer: the elements of the binding some region holds,    *)
(* each two bytes of that region's dense bytes.                            *)
Holding(b, element) ==
  {r \in RegionsOf(b.tensor) :
     LET at == Interval(r.binding)
     IN /\ at.first <= Interval(b).first + element
        /\ Interval(b).first + element < End(at)}

Covered(b) == \A element \in 0..(Interval(b).count - 1) : Holding(b, element) # {}

(* Mutant: a region is read at the offset in the tensor, not in itself.    *)
MutantCopied(b, r, data, element) ==
  LET produced == Unpack(r.binding, Width(b), r.surface, Pad)
      destination == (element - Interval(b).first) * 2
  IN Assign(data, destination, destination + 2, Pair(produced, element * 2))

(* One element of the tensor, from a region to the bytes being composed.   *)
Copied(b, r, data, element) ==
  LET produced == Unpack(r.binding, Width(b), r.surface, Pad)
      destination == (element - Interval(b).first) * 2
      source == (element - Interval(r.binding).first) * 2
  IN Assign(data, destination, destination + 2, Pair(produced, source))

Meets(b, r, element) ==
  /\ r.binding.tensor = b.tensor
  /\ Interval(r.binding).first <= element
  /\ element < End(Interval(r.binding))

(* One region: its elements that the binding wants, in their order.        *)
Filled(b, r, data) ==
  LET at == Interval(b)
      after[k \in 0..at.count] ==
        IF k = 0 THEN data
        ELSE IF Meets(b, r, at.first + k - 1)
             THEN Copied(b, r, after[k - 1], at.first + k - 1) ELSE after[k - 1]
  IN after[at.count]

Intermediate(b) ==
  LET after[j \in 0..Len(regions)] ==
        IF j = 0 THEN Zeros(Interval(b).count * 2) ELSE Filled(b, regions[j], after[j - 1])
  IN ByOffset(after[Len(regions)])

(* _program_inputs: what is composed for one binding, and whether it can   *)
(* be.  A tensor that is neither a constant nor an intermediate is looked  *)
(* up among the inputs of the request.                                     *)
DenseOf(b) ==
  IF b.constant THEN Payload(b)
  ELSE IF Tensor(b.tensor).role = "intermediate" THEN Intermediate(b) ELSE DenseSlice(b)

Composable(b) ==
  /\ \/ b.constant
     \/ Tensor(b.tensor).role = "intermediate" /\ Covered(b)
     \/ Tensor(b.tensor).role = "input"
  /\ Convertible(b, Width(b), DenseOf(b))

Composed(b) == Pack(b, Width(b), DenseOf(b), Pad)

Right(program) == \A k \in DOMAIN program.inputs : Holds(program.inputs[k], Composed(program.inputs[k]))

(* What the device leaves in the output surface.                           *)
Written(program) ==
  LET b == program.output
      Hit(k) == {e \in (0..(Interval(b).count - 1)) \X (0..(Width(b) - 1)) : Place(b, e[1], e[2]) = k}
  IN [k \in 0..(Span(b, Width(b)) - 1) |->
        IF Hit(k) = {} THEN Garbage
        ELSE LET e == CHOOSE e \in Hit(k) : TRUE
             IN IF Right(program) THEN <<b.tensor, (Interval(b).first + e[1]) * Width(b) + e[2]>>
                ELSE Garbage]

(***************************************************************************)
(* The outputs: _logical_outputs and _unpack_outputs.                      *)
(***************************************************************************)
Outputs ==
  LET replaced == {Tensor(name).aliasOf : name \in {a \in Aliases(package) : Tensor(a).role = "output"}}
  IN {name \in DOMAIN package.tensors :
        Tensor(name).role = "output" /\ (name \in Aliases(package) \/ name \notin replaced)}

Target(name) == IF name \in Aliases(package) THEN Tensor(name).aliasOf ELSE name

(* The regions kept for outputs are those of tensors with another role     *)
(* than intermediate.  One flag is kept for each two bytes of the tensor.  *)
Writers(name, element) ==
  {r \in RegionsOf(Target(name)) :
     /\ Tensor(Target(name)).role # "intermediate"
     /\ Interval(r.binding).first <= element
     /\ element < End(Interval(r.binding))}

LogicalBytes(name) == Tensor(name).elements * ElementBytes(Tensor(name))

AllWritten(name) == \A element \in 0..(LogicalBytes(Target(name)) \div 2 - 1) : Writers(name, element) # {}

(* The values of one region, at twice the offset of its elements.          *)
Restored(r, data) ==
  LET at == Interval(r.binding)
      values == Unpack(r.binding, Width(r.binding), r.surface, Pad)
  IN Assign(data, at.first * 2, End(at) * 2, [k \in 1..(at.count * Width(r.binding)) |-> values[k - 1]])

Unpacked(name) ==
  LET after[j \in 0..Len(regions)] ==
        IF j = 0 THEN Zeros(LogicalBytes(Target(name)))
        ELSE IF regions[j].binding.tensor = Target(name)
             THEN Restored(regions[j], after[j - 1]) ELSE after[j - 1]
  IN ByOffset(after[Len(regions)])

(* Mutant: only what reads a chunked reduction itself is chunked.          *)
MutantChunked(p) ==
  LET marked == {name \in DOMAIN p.tensors : p.tensors[name].chunked}
  IN marked \cup {p.programs[n].output.tensor : n \in {m \in Indices(p) :
       \E k \in DOMAIN p.programs[m].inputs : p.programs[m].inputs[k].tensor \in marked}}

(* chunked_tensors: one pass over the programs in dispatch order.          *)
Chunked(p) ==
  LET Names(program) == {program.inputs[k].tensor : k \in DOMAIN program.inputs}
      after[k \in 0..Len(p.dispatch)] ==
        IF k = 0 THEN {name \in DOMAIN p.tensors : p.tensors[name].chunked}
        ELSE LET program == p.programs[p.dispatch[k]]
             IN after[k - 1] \cup
                (IF Names(program) \cap after[k - 1] # {} THEN {program.output.tensor} ELSE {})
  IN after[Len(p.dispatch)]

(***************************************************************************)
(* The run.                                                                *)
(***************************************************************************)
Init ==
  /\ package \in Packages
  /\ phase = "load"
  /\ position = 1
  /\ regions = <<>>
  /\ actual = <<>>
  /\ chunked = {}

Load ==
  /\ phase = "load"
  /\ phase' = IF LoadPackage(package) THEN "run" ELSE "refused"
  /\ UNCHANGED <<package, position, regions, actual, chunked>>

Current == package.programs[package.dispatch[position]]

(* One program: its surfaces are composed, it runs, its output is kept.    *)
RunProgram ==
  /\ phase = "run"
  /\ \A k \in DOMAIN Current.inputs : Composable(Current.inputs[k])
  /\ regions' = Append(regions, [binding |-> Current.output, surface |-> Written(Current)])
  /\ position' = position + 1
  /\ phase' = IF position = Len(package.dispatch) THEN "unpack" ELSE "run"
  /\ UNCHANGED <<package, actual, chunked>>

ComposeFails ==
  /\ phase = "run"
  /\ \E k \in DOMAIN Current.inputs : ~Composable(Current.inputs[k])
  /\ phase' = "raised"
  /\ UNCHANGED <<package, position, regions, actual, chunked>>

UnpackOutputs ==
  /\ phase = "unpack"
  /\ \A name \in Outputs : AllWritten(name)
  /\ actual' = [name \in Outputs |-> Unpacked(name)]
  /\ chunked' = Chunked(package)
  /\ phase' = "done"
  /\ UNCHANGED <<package, position, regions>>

UnpackFails ==
  /\ phase = "unpack"
  /\ \E name \in Outputs : ~AllWritten(name)
  /\ phase' = "raised"
  /\ UNCHANGED <<package, position, regions, actual, chunked>>

Done ==
  /\ phase \in {"done", "refused", "raised"}
  /\ UNCHANGED vars

Next == Load \/ RunProgram \/ ComposeFails \/ UnpackOutputs \/ UnpackFails \/ Done

Spec == Init /\ [][Next]_vars

(***************************************************************************)
(* Properties.                                                             *)
(***************************************************************************)
ReadsReturned ==
  \E n \in Indices(package) : \E k \in DOMAIN package.programs[n].inputs :
    Tensor(package.programs[n].inputs[k].tensor).role = "output"

ReturnsNoOutput == \E name \in Outputs : Tensor(Target(name)).role # "output"

(* A program reads part of a tensor of one-byte elements, or one that is   *)
(* passed between programs in parts or with more than two elements.        *)
ReadsMask ==
  \E n \in Indices(package) : \E k \in DOMAIN package.programs[n].inputs :
    LET b == package.programs[n].inputs[k]
        elements == Tensor(b.tensor).elements
    IN /\ Tensor(b.tensor).bool
       /\ ~b.constant
       /\ \/ Interval(b).count # elements
          \/ /\ Tensor(b.tensor).role = "intermediate"
             /\ \/ elements > 2
                \/ \E m \in Indices(package) :
                     /\ package.programs[m].output.tensor = b.tensor
                     /\ Interval(package.programs[m].output).count # elements

(* A package load_package accepted never fails while its surfaces are      *)
(* composed or its outputs taken apart: every element a program needs was  *)
(* written before, and every element of an output, and what is composed    *)
(* has the size of its binding.  Three kinds of package are accepted and   *)
(* do fail: one that reads what it also returns, one that returns another  *)
(* name of something that is no output, and one whose mask the runner, two *)
(* bytes at a time, puts together to another size (inspect_anec.py:735).   *)
RaisesExplained == phase = "raised" => ReadsReturned \/ ReturnsNoOutput \/ ReadsMask

(* What the runner compares with the reference is what the programs        *)
(* computed: through every layout, slice and recomposition each byte of an *)
(* output is the one its tensor has there (two-byte elements).             *)
BytesExact ==
  (phase = "done" /\ \A name \in DOMAIN package.tensors : ~Tensor(name).bool) =>
    \A name \in Outputs : actual[name] = Dense(Target(name))

(* n reads bytes that m wrote.                                             *)
Feeds(m, n) ==
  \E k \in DOMAIN package.programs[n].inputs :
    LET write == package.programs[m].output
        read == package.programs[n].inputs[k]
    IN /\ read.tensor = write.tensor
       /\ Interval(read).first < End(Interval(write))
       /\ Interval(write).first < End(Interval(read))

Marked == {name \in DOMAIN package.tensors : Tensor(name).chunked}
Reads(n) == {package.programs[n].inputs[k].tensor : k \in DOMAIN package.programs[n].inputs}

(* The programs a chunked reduction reaches, byte by byte.                 *)
Rounded ==
  {n \in Indices(package) : \A R \in SUBSET Indices(package) :
     (\A m \in Indices(package) : Reads(m) \cap Marked # {} \/ (\E r \in R : Feeds(r, m)) => m \in R)
       => n \in R}

(* The sets of tensors that hold all that is computed from them.           *)
Closed(names) ==
  \A n \in Indices(package) : Reads(n) \cap names # {} => package.programs[n].output.tensor \in names

(* Whatever a chunked reduction reaches is compared with a tolerance, in   *)
(* whatever order the programs are listed, and nothing that no chain of    *)
(* reads leads to.                                                         *)
ChunkedExact ==
  phase = "done" =>
    /\ \A n \in Rounded : package.programs[n].output.tensor \in chunked
    /\ \A names \in SUBSET DOMAIN package.tensors :
         Marked \subseteq names /\ Closed(names) => chunked \subseteq names

(* The comparison with the reference is of the right bytes, in the right   *)
(* way.                                                                    *)
OutputsExact == BytesExact /\ ChunkedExact

(* A DMA of an accepted program that is switched on names a surface that   *)
(* exists: channel 0, the constants, the scratch, or a channel a binding   *)
(* fills.                                                                  *)
DmaBacked ==
  phase \in {"run", "unpack", "done"} =>
    \A n \in Indices(package) : LET program == package.programs[n] IN
      \A k \in DOMAIN program.tasks : \A s \in Selectors :
        program.tasks[k][s].state # "off" =>
          \/ program.tasks[k][s].channel = 0
          \/ program.tasks[k][s].channel = 1 /\ program.constants
          \/ program.tasks[k][s].channel = 3 /\ 3 \in program.tiles
          \/ program.tasks[k][s].channel \in Occupied(program)
=============================================================================
