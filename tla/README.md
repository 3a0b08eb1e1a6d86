# A TLA+ model of mil-hwx-compiler

mil-hwx-compiler turns a MIL program into programs for the Apple Neural Engine
and runs them. This directory models its planning core, the command around it, its
macOS runtime, its Linux runner and the research tools that make its encoding
tables, checks the models with TLC and proves the central results with TLAPS. The
parts are chosen for what a unit test hardly reaches: greedy scans with restarts,
group merges that move other groups, failures in the middle of a load, commands
killed and repeated over an older directory, buffers kept between evaluations,
budgets that run out, slices of one tensor in several layouts.

Paths are relative to the repository. `PROJECT.json` lists every component, run,
mutant, hazard and theorem, and maps each definition to the lines it models.

    tlc -config MemoryPlanner.cfg MCMemoryPlanner     # check one run
    tlapm PackageRunProofs.tla                        # check one module's proofs

## 1. The system

```
 MIL text ── lib/MIL ──► graph IR ── lib/IR verifier ──► operation graph
                                                             │
             normalize ► decompose ► FUSE ► legalize ► FUSE  │  lib/Transform
                                                             ▼
                              TASK SCHEDULER ── composed region plans
                                   │                         lib/Planning
                              SRAM PLANNER
                                   │ scheduled tasks
                                   ▼
        PROGRAM ASSEMBLER ◄──► PARTITION PLANNER             plugins/H16G
              │   (declines: single-program encoder)
              ▼
        HWX object + BINDINGS ──► BUNDLE DIRECTORY           lib/HWX, lib/Runtime
              ▲                    │
        DRIVER, EXIT CODE          ▼
                            PROVISIONED RUNTIME ──► _ANEClient (macOS)

 MIL text ── H13 / H14 / H17 / H18 compilers ──► PACKAGE ──► LINUX RUNNER ──► libane
                     ▲ tables                      │             │
                     │                             ▼             ▼
 PROBE DRIVERS ──► RECORDS ──► TASK STREAMS,     PACKAGE      REFERENCE
   (Apple's compiler)          TEMPLATES,        INSPECTOR    EVALUATOR
                               PACKED CONSTANTS
```

Capitals mark what is modelled. The compiler is sequential and deterministic;
nothing in it runs concurrently. What is hard is order and accumulated state. The
two runtimes talk to a service that may refuse, raise or take its time. Only the
minting runs meet each other, in the directory of records they share.

### Inventory

| Component | State | Operations | Talks to | What is hard | What makes it correct |
|---|---|---|---|---|---|
| MIL front end `lib/MIL` | token list, parser index, symbol table | lex, parse, import | diagnostics | errors after which it goes on | a text with errors yields no program |
| Graph IR, verifier `lib/IR` | immutable values and operations | verify | front end, graph | - | types and arities agree |
| Operation graph `lib/IR/ANEOperationGraph` | node list, use lists, regions | build, replace, remove, set regions | passes, scheduler | lists and use lists stay in step | uses are exactly the inverse of inputs |
| Normalize, decompose, legalize `lib/Transform` | the graph | rewrite, mark | graph, target | order of operands, folded boundaries | values and outputs are preserved |
| Fusion pass `lib/Transform/ANEFusionPass` | union-find, regions | unite, group, split | graph, target | path compression, fan-out, peak size | regions are convex, fit the working set, split only if they must |
| Task scheduler `lib/Planning/ANETaskScheduler` | groups, tasks, surfaces | list, merge in five passes, split, emit | graph, target, planners | merged groups move; folded nodes | each node once; complete dependencies; lifetimes cover reads |
| Composed region planner | plans, elided surfaces | match, elide | scheduler, SRAM planner | overlapping patterns | an elided surface is never needed |
| SRAM planner `ANEMemoryPlanner` | offsets, banks, peak | place first fit, judge | scheduler | scan that restarts | live surfaces disjoint, lowest fit, exact verdict |
| Tile planner | - | row tiles of a shape | encoders | limits | tiles cover the shape |
| Partition planner `ANEProgramPartition` | partitions, trial, transition records | scan, extend, settle | assembler, target | several outputs passed over; saturating sums | tiling; exposed values; limits; longest prefix; exact records |
| Program assembler `H16GProgramAssembler` | artifacts, program under construction | describe, plan, compose, split, emit | partition planner, composer, encoders | fallbacks in the middle of a partition | all stages once; the bundle loads; interface of the graph |
| Encoders, validator, packer `plugins/H16G` | - | descriptor to register words | assembler, target rows | measured tables | byte equality with oracles |
| HWX writer and image `lib/HWX` | one file image | build, parse | encoders | sums of rounded lengths | sections and addresses never overlap |
| Executable bundle | directory of programs and a manifest | write, read | driver, runtime | interrupted or repeated writes | what is read was written |
| Provisioned runtime | models, buffers, loaded flag, profile | load, evaluate, unload, dealloc | `_ANEClient` | failures between two steps | nothing leaks, models aligned, own results |
| Linux runner `tools/h13_run_linux.py` | handles, buffers, budget, samples | check, open, run, compare, close | libane | deadline, interrupts, reuse | freed once, gated results, primary error kept |
| Driver, command line | pass order, error count, exit code | compile, write | all of the above | fallback after a declined assembly; errors that do not stop it; a killed write | directory and exit code agree |
| H13, H14 (H17, H18) compilers | programs, tensors, intermediates | encode, plan storage, write | tables, file system | slices of intermediates | reads are covered by writes |
| Pass manager, plugin registry, blob resolver, statistics, diagnostics | small | - | driver or only tests | - | see PROJECT.json |
| Package inspector `research/inspect_anec.py` | a package as loaded | check, convert surfaces | Linux runner | slices, padding, channels tested apart | what it accepts runs, to the right bytes |
| Probe drivers `research/mint_*` | record files, a directory on the Mac | build cases, compile, resume, fetch | Apple's compiler, ssh | kills, lost connections, two runs at once | zero means complete; records survive |
| Task decoding `research/h13_td.py`, `inspect_hwx.py` | - | split, decode, rebuild | generators | registers written twice, alignment | what is rebuilt is what was read |
| Template generators | table under construction | key, merge, emit | records, compilers | keys that two records share | the table answers with a record's program |
| Constant packing and its readers | - | cut, order, pack, read back | generators, compilers | rounded divisions, padding | each weight once, at the place that is read |
| Reference evaluator `tools/h13_reference.py` | environment of values | bind, read weights, evaluate | Linux runner, probes | strides of broadcast and transposed shapes | each element is the definition's |
| Hardware runners, other scripts, CI | - | - | - | - | outside the program |

Component by component, what is modelled and why the rest is not is in
PROJECT.json under `components`; section 8 gives the summary.

## 2. Modules

| Module | Models | Extends / instances |
|---|---|---|
| `MemoryPlanner` | ANEMemoryPlanner and the verdict of its caller | |
| `ProgramPartition` | ANEProgramPartition | |
| `H16GTargetRows` | measured task, composition and form tables of H16GTarget | |
| `ProgramAssembler` | H16GProgramAssembler with H16GTaskComposer | `ProgramPartition` (as `P`), `H16GTargetRows`, `DispatchBundle` |
| `DispatchBundle` | a bundle, its bindings and every check of its validation | |
| `BundleDirectory` | a directory of programs and a manifest; what its reader accepts | |
| `StagedDriver` | mil-hwxc: the staged compiler, the frame of the H13 and H14 compilers, the writing | `ProgramAssembler`, `BundleDirectory` |
| `ProvisionedRuntime` | ANEProvisionedRuntime against a failing client | `DispatchBundle` |
| `OperationGraph` | nodes, operands, use lists, kinds | |
| `FusionRegions`, `FusionPass` | predicates and the union-find of ANEFusionPass | `OperationGraph` |
| `TaskScheduler` | ANETaskScheduler up to the memory plan | `OperationGraph` |
| `LinuxRunner` | run_package, benchmark_package, PreparedProgram: the control | |
| `AnecPackage` | inspect_anec.py: what load_package accepts, surface layouts | |
| `PackageRun` | run_package: the bytes | `AnecPackage` |
| `OracleCampaign` | local_run, remote_run and run_case of the seven minting drivers | |
| `MilPrograms`, `ProbePrograms`, `ChainPrograms` | statements and weight files; the programs the drivers mint | one extends the next |
| `TaskStream` | task streams taken apart and put together | |
| `TemplateTable` | records made into template tables, and the lookup | |
| `ConstantPacking` | packers of convolution weights and their readers; the runs a section is made of | |
| `TaskLabels` | the report of the chain probes: what each task of a chain is | |
| `ReferenceTensors` | shapes and elements of the reference's operations | |
| `ResearchTools` | one application of any of these tools | instances of the six above |
| `*Proofs` | theorems about the module they extend; `ProgramPartitionProofs` extends both planners of `lib/Planning` | |
| `MC*` | instances for TLC | |

**MemoryPlanner.** `surfaces` is the list given, `next` the surface being placed,
`trial` the offset under test. One pass of the restart scan of
allocateSurfaces:target: is an action: `Skip` for surfaces outside SRAM, `Bump`
when a placed surface is in the way, `Place` when none is, `Judge` for the
comparison with the working set.

**ProgramPartition.** A problem is the list of task descriptors, the returned
values and what the target answers. `start`, `lastExtended`, `candidate`,
`bestEnd` and `pending` are the loop variables of partitionsForTasks:. Every exit
of the inner loop is an action (`NoTaskLimit`, `NoDirectEdge`, `TargetDeclines`,
`OverLimit`, `Exhausted`), `Extend` is one iteration and `Settle` the emission of
the best trial with its records. Sums saturate at `MaxUInt`.

**ProgramAssembler.** `Plan` describes the tasks and runs the whole partition
planner: it is the planner's own next-state relation over its variables. Then,
partition by partition: `EmitRegion` (one object for the partition),
`EmitStandalone`, or the leaf loop, where `FirstLeaf` starts a program,
`ComposeLeaf` joins one, `SplitLeaf` gives up and restarts at the leaf that was
refused and `EmitCombined` closes the program. `Decline` is the return of nil.
`Finish` makes the bundle. The switch that forces standalone programs is part of
the problem.

**StagedDriver.** The command from the lexer to the exit code, with every action
of the assembler inside it. `errors` is the diagnostic engine's count, the only
thing the compilers read of it. `ObjectRefused` is the writer refusing, or the
reader not parsing, an object the assembler asked for; `SingleProgram` and
`SingleRefused` are the encoder tried after a declined assembly. `Open`,
`WriteProgram` and `WriteManifest` fill the directory, `WriteFails` and `Killed`
strike at any of them, and `Repeat` gives the command again: compiling is
deterministic and touches no file, so the repetition is taken up where the
directory is opened. The command's text is abstracted to whether it has a
byte no token starts with and to a verdict of parser, importer, verifier
and passes; the H13 and H14 compilers to the images they yield. main's own
refusals of its arguments (64, 66, an unknown format) are left out.

**ProvisionedRuntime.** A method is a program counter and a position in its
loop; each message to the client is an action per answer, so a load is
`BeginLoad`, then for each program `LookupFound | LookupMissed | LookupRaised`
and `ModelLoaded | ModelRefused | ModelWithoutHandle | ModelRaised |
HandleRaised`, then, after a failure, `Cleanup*`. `resident` is what the
client really has loaded; the code cannot see it. `refused` records the models a
cleanup asked the client in vain to unload, and `slips` what went wrong beyond
repair: an unloadWithError: that stopped, an exception that left the handler's own
cleanup, a model whose programHandle raised. The list of models stays the
object's own word on what it holds (`Intact`) through any number of failed
cleanups. A surface's contents are the evaluation that wrote it. `MaxLoads` and `MaxEvaluations` bound
the calls of the user.

**FusionPass.** `parents` is the union-find forest; `VisitOperand` treats one
operand with both path compressions, `FormRegion` one component, with the split.

**TaskScheduler.** `groups` are lists of nodes. `ListNode` and `NextPass`
iterate the formation, `Merge` is one call of mergeTaskGroups, `SplitGroup` one
group of the splitting loop; `CreateSurfaces` and `EmitTask` are the second half
with the dependencies, transfers, waves and lifetimes of one task.

**LinuxRunner and PackageRun.** Two views of one function. In LinuxRunner a value
is the iteration that computed it: `CheckDeadline` to `OutputsDiffer` are
the steps of one program in one iteration, every libane call has its own
failure, and an interrupt or the clock may strike before each. `HandleClosed`
and `HandleRefused` are the closing loop, `CleanupDone` what leaves the `with`. In
PackageRun every call succeeds and what is followed is each byte of each tensor
through layouts, slices, alignment padding and recomposition. The runner copies
two bytes for every element between slices of bytearrays, and so does the model
(`Assign`, `Pair`, `DenseSlice`): a slice may be short, an assignment may change the
length of what it is made to, and convert_tensor refuses data of another size than
its binding (`Convertible`). A package is first
put through everything `AnecPackage` states of load_package; the device is
external, and computes the right bytes only from surfaces that hold them.
`IsPackage` (`PackagesAssumption`) says that the manifest's fields have their
types, which load_package checks before it computes with them.

**OracleCampaign.** A run is local or remote; a remote one has a worker that
writes to a temporary directory on the Mac, from which `Fetch` and `Copy` bring
the records back. A local run that finds it is not on the right machine stops
before its first case (`StartWorker`); a remote one that cannot make its output
directory leaves its temporary one behind (`MakeOutput`). A record file is absent, open, whole or torn by two writers.
`Kill` ends a run anywhere and `LoseWorker` breaks its connection. Looking for a
record (`Examine`) and closing the new one (`Write`) are separate steps.

**ResearchTools.** The tools are functions of one input, without state:
a behavior picks a tool and an input, runs it once and stops, so a run is the
comparison of a function with its definition over a bounded set of inputs. The
report of the chain probes (`TaskLabels`) is one of them: a task of a chain gets
the labels of single operations whose words it holds, and a chain the shortest
block of labels it repeats.

Packed sections are sequences of halfwords (`ConstantPacking`). pack_dense asks for
the weights of columns that may lie past the last: such a slice is empty, and
assigning it deletes the halfword in its place, so that the section shortens and what
follows moves up. `PackDense` does exactly that, assignment by assignment.
`TemplateTable` has the generator's tests in their order, the three sets of
operations apart, and the refusal of a broadcast to another shape (`Classifiable`); a
table is asked as the compiler asks, by the surfaces parityShapes gives a
tensor (`ParityKeys`, `ElementwiseTemplates`), not by the generator's key.

## 3. Runs

| Run | Bounds | Result |
|---|---|---|
| `memory_planner` | all lists of 3 surfaces, 3 tasks, lengths 0, 3, 4 around a granule of 2, SRAM 6 | no live overlap, lowest fit, exact verdict, termination |
| `program_partition` | all schedules of 4 tasks reading 1 or 2 values, all returned sets, 3 size classes, `NSUIntegerMax` 7 | tiling, exposure, limits, longest prefix, records |
| `staged_driver` | graphs of 2 operations on measured shapes, scaled sums, the attention graph, an empty one; composition on and off; texts that fail; H13 and H14 payloads; 4 earlier directories; 2 faults | stages once, bundle loads, interface, directory and exit code |
| `provisioned_runtime` | chains of 1 to 3 programs with every plan, and bundles to reject; 2 loads, 2 evaluations, all failures | residency, no leak, exact results, profile, calls return |
| `fusion_pass` | connected graphs of 4 nodes, two weights of values, working set 5 | components, convexity, split exactly when needed |
| `task_scheduler` | thousands of graphs of 4 nodes of the kinds the merges look at; int8 chain, epilogue fork, attention | each node once, dependencies, lifetimes |
| `linux_runner` | 3 packages of 2 programs; dry, once, benchmark; budget 1 to 2 of 3 ticks | handles freed once, gating and the primary error, budget |
| `package_run` | thousands of packages: slices over two writers and two readers in every order and padding, tensors written in halves, chains, aliases, masks of 1 to 5 elements whole and in parts, wide rows, routings | accepted packages run, but for three kinds, to exact bytes; DMAs are backed |
| `research_tools` | task streams of up to 4 words, pairs of records, chains over three labelled operations, convolutions around the sizes where packing changes, tensors of 3 axes, all 2300 probe programs | streams, tables and labels, weights, reference and probes exact |
| `oracle_campaign` | 2 runs, every driver and mode, 2 cases, 1 kill, connections that break | zero is complete, summary, records kept, directory removed |
| `runtime_unload` | as provisioned_runtime | violates `SubmitsHeldModels` |
| `assembler_scalars` | the assembler alone, graphs of one operation and scaled sums | violates `ScalarsApplied` |

Why the bounds are enough:

- Three surfaces are the fewest with which a scan can jump over a free gap or
  return to a place it passed; an output in the list stands for a shorter list.
- Four tasks let a partition pass over a trial with two outputs, come back to an
  earlier trial and leave two more partitions behind it. `MaxUInt` is 7 so
  that two counts of 7 pass it: with a wrap instead of saturation the run fails.
- Two faults let a repetition fail in turn; the earlier directories are
  absent, not empty, whole and unfinished, with objects of equal and of other
  lengths, because the reader compares lengths only.
- Two programs are the fewest with a partial load, three the fewest with two
  writers of an output; two loads and two evaluations show what one
  leaves to the next.
- Four nodes make a diamond with a bridge: the smallest graph in which
  fan-out, path compression and a non-convex region differ. The longer graphs
  are those of the repository's own fixtures.
- Two programs and two iterations of the runner show reuse of a buffer, a
  failure of one after the other's success and the last warmup.
- A lane of two elements and rows of four bytes make three elements both more
  than a lane and no multiple of it; two writers and two readers
  produce every overlap of slices and every order of dispatch. Masks of up to five
  elements are on both sides of the size, two, above which their recomposition
  changes length, and of a lane.
- Sections have two plane groups, alignment to four halfwords and a lane cap of two;
  1 to 16 channels fill one plane, all of them, or stop short; a convolution has
  at most four input channels to a group, since a further one only repeats a row.
- The bit fields of task words are two and three bits wide, so that a mask, a
  run and a register written twice fit in four words. In the chain probes
  only the depth of stacks is cut, at `Deepest` = 2: a stack repeats one block,
  and two blocks show that names and weights of different blocks differ. `Thin`,
  the words a signature needs, is 2, so that a task may have one too few; `Longest`
  is 3, the runs of a section that a rebuilding is compared on.
- A tensor written in halves is the smallest on which a program reads one part
  that a chunked reduction wrote and another that none did.
- Two minting runs are the fewest that meet; the second case is the ceiling
  probe, whose records the summary counts differently.

Each passing run fires every action of its module, and for each property
PROJECT.json names a mutant of the model, written as a plausible slip in the
code, that makes the property fail. The type invariants of MemoryPlanner,
ProgramPartition and ProvisionedRuntime, and `ModelsAligned` and
`GroupsByFirstNode`, are proved and no longer part of a run; the types of
FusionPass, StagedDriver, LinuxRunner and OracleCampaign are conjuncts of their
proved invariants.

## 4. Properties worth reading first

- `NoLiveOverlap`, `LowestFit` (MemoryPlanner): the scan tests surfaces in list
  order, not in address order, and still finds the lowest gap.
- `LongestPrefix` and `RecordsExact` (ProgramPartition): the scan does not stop
  at a trial with two outputs. The partition it emits is nevertheless the
  longest valid one, and each adjacent pair keeps one record that is true of the
  final partition although transitions are evaluated several times.
- `StoredWhole`, `ExitTold` (StagedDriver): whatever sequence of failed, killed
  and repeated commands wrote a directory, its reader accepts only programs the
  manifest was written for, but for one window of H16G, between the first
  program and the manifest, over an older bundle with objects of the same length.
- `AssembledBundleLoads`: whatever path each partition took, the bundle
  passes the runtime's validation; it is the same `BundleValid` that
  ProvisionedRuntime starts from.
- `EvaluationExact` (ProvisionedRuntime): an evaluation that returns YES has
  written, in the caller's buffers, what its plan computes from this call's
  inputs. Buffers survive evaluations, failures and loads, so the claim
  rests on the bundle's validation: each shared surface is produced before it is
  consumed, by one program.
- `RegionsConvex` (FusionPass): the fan-out rule looks at one edge but excludes
  every path that leaves a region and comes back.
- `LifetimesCoverReads` (TaskScheduler): a value read through a folded epilogue
  or a quantization boundary still extends the surface that really holds it.
- `ReportGated` (LinuxRunner): no result of an iteration computed from another's
  data, and the first error is the one the caller sees.
- `ModelsResident`, `NoLeak` (ProvisionedRuntime): whatever loads, failed cleanups
  and unloads came before, a loaded object's models are in the client, and an
  unloaded one has left only what the client refused to give up.
- `RaisesExplained`, `OutputsExact` (PackageRun): load_package's tests of
  slices, order and coverage are enough for the runner, with three exceptions
  that the property names.
- `WeightsOnce` (ResearchTools): a dense section holds each weight once when the
  channels fill whole plane groups. When they do not, it has another length than that
  of whole planes, which is what tells it from a good one; that it then loses
  weights is not claimed, since one output of one row is still there.
- `ReferenceExact` (ResearchTools): elements of broadcasts, products and reductions by
  coordinates; the terms of a convolution pair each weight with the sample of its
  own channel in its group, with one shift of the windows and no tap left out
  (`TermsPaired`); squeezing and expanding at the same axes are inverse (`AxesReturn`).
- `ExitZeroComplete`, `RecordsKept` (OracleCampaign).

## 5. Fairness

`MemoryPlanner` and `ProgramPartition` are loops of one thread: weak fairness
of the step means that the thread goes on. `ProvisionedRuntime` has
weak fairness of the steps inside a method (`Run`), not of the user's calls:
once a method has begun the thread goes on and the client answers every
message somehow, with an error or an exception if need be. A client that
blocks for ever would block the method; the code sets no timeout, and neither
does the model. `OracleCampaign` has weak fairness of each run's own `Step`; kills
and lost connections have none. The liveness properties are `PlanningEnds`,
`CallsReturn` and `RootsRemoved`. `StagedDriver`, `FusionPass`, `TaskScheduler`,
`LinuxRunner`, `PackageRun` and `ResearchTools` make no liveness claim and have
no fairness.

## 6. Proofs

All theorems hold for every value of the constants under the named assumptions
of the modules: well-formed problems and packages, a positive granule and bank
count, bundles of the stated shape, limits below the greatest number, `NoLimit`
outside the naturals; of the graphs, that they are numbered as the passes number
them and (`LegalisedAssumption`, `BoundariesAssumption`) what legalization leaves;
of the campaigns (`StartsAssumption`), that earlier records are of earlier runs.

A recursive definition is a function here, and a lemma about it for every input is
proved by giving the function a solution and taking the least argument at which
the claim fails, which the provers can follow where they cannot instantiate an
induction rule.

**ProgramPartitionProofs.** `IInv` has a conjunct for each loop variable: the
partitions tile the tasks before `start` (`Tiling`); the trial in progress is a
run of direct edges that the target accepts (`Scan`); when the loop has stopped,
why (`Stopped`); each emitted partition was valid and no longer one was
(`Emitted`, `LongestPrefix`); the records written so far agree with them
(`Recorded`). `EveryUseExposed` needs another invariant, `Chained`: inside
a partition each task feeds the next, so one output means that only the
last value escapes (`OnlyLastEscapes`). `LimitsHold` uses it again: a
chain reads nothing inside that it has not written (`ChainBoundary`), so the inputs
the code counts are those of the definition, and a saturated sum below a
limit is the sum itself (`SaturateExact`), because no limit is the greatest number.

**The SRAM planner** has its proofs in the same module: the two planners share no
name. `NoLiveOverlap` speaks of placed surfaces, but placing one needs to know that the scan has not
stepped over a free place. `MemoryInv` adds that offsets are multiples of the granule and that each offset below
`candidate` meets a live placed surface: a bump passes exactly the
offsets blocked by the surface in the way, since a multiple of the granule
below its end would overlap it too. From it follow `NoLiveOverlapHolds`,
`FirstFit`, `OverflowExact`, `MemoryTypeCorrect`.

**ProvisionedRuntimeProofs.** `Phases` ties the program counter to the flags,
`Aligned` the model list to the programs, `Held` the client's models to those
that the method running has not given back yet (`Kept`) and those that were refused;
only the handler's second cleanup of one load (`CleansAgain`) may meet a model that is gone. `Fed` is for results: during an
evaluation, each surface that a dispatched program produced, and each graph
input, has the value of this evaluation. It is inductive because validation
makes the plan a permutation of the programs (`PlanPermutes`, by counting) and
puts producers first. The steps are grouped (`Quiet`, `GivesUp`) so that an action
that leaves the conjunct's variables alone costs nothing.

**TaskSchedulerProofs.** Both properties of the groups are preserved by `Merge`
and `SplitGroup` for any graph and any answer of the capability table:
`MergedAtFacts` and `PiecesFacts` say what the two list operations do, `IInv` says
that the groups' lists are in node order, disjoint and cover the nodes listed so
far, and in the order of their first nodes. The task half (`TInv`) is about what
the emitted tasks know: every value a task needs is computed by exactly one task,
under whose name it has a surface, and the loop that emits a task finds that task
behind folded boundaries and epilogues. Hence `DependenciesKnown`
(`DependenciesComplete`) and `ReadsCovered` (`LifetimesCoverReads`).
effectiveProducer follows only the first computed operand of a boundary; that
there is only one, scale and zero point being constants, is
`BoundariesAssumption`, since nothing in the verifier enforces it.

**FusionPassProofs.** `Uniting` says that `parents` is a forest, that no set
closed under fusible edges is cut by it, and that every edge visited so far has
joined its two nodes; path compression changes no root (`CompressFacts`,
`UniteFacts`). At the end the classes are the components (`RegionsFound`, for
`RegionsAreComponents`). `RegionsStayConvex` (`RegionsConvex`) is an argument
about graphs: where a path leaves a region, its last node inside has several uses
and several outputs below it; so has everything that reaches it by fusible
edges, hence each of these nodes has one user (`OneUser`), they form a closed
set (`AboveClosed`), the region lies in it, and nothing behind the path is above
its start again. Needed of the graphs: operands come before their users, and
legalization has left only supported nodes and constants (`LegalisedAssumption`).

**StagedDriverProofs.** Two invariants. `AInv` is the assembler's, for any
problem and whatever the target declines: the partitions ahead are those of the
planner, the stages already placed are the first ones in order, none twice, and
the programs emitted are exactly those of the artifacts (`StagesOnce`, for
`EveryStageOnce`); the flattened and filtered sequences of the standalone
programs are handled by explicit solutions of their recursion. `DInv` adds the
directory: which files of it are of this command, which of an earlier one
(`Overlaid`), and what each step of the writing leaves. From it follow
`BundlesWhole` (`StoredWhole`) and `ExitCodeTells` (`ExitTold`).
`EarlierAssumption` says what an earlier directory may be: absent, empty, whole,
or left by a killed command; the leftovers of a command killed over an older
bundle whose objects have the same lengths are excluded, as the property excludes
that window. `CommandsAssumption` types the commands.

**LinuxRunnerProofs.** For every package, plan, budget and clock. `IInv` is about
control: `Errors` (nothing was raised before the clean-up; what
propagates was raised first), `Handles` (an open handle is known, or is the one
lost in its constructor), `Lateness` (after a late dispatch every path meets the
clock). `DInv` is about data and rests on it: a value is of this iteration or
wrong (`Regions`, `Sent`), the programs already passed have produced all they
should, and every program has the samples of the iterations it has passed
(`Counted`). The plan is a permutation, so position and program determine each
other (`PositionFacts`). Results: `HandlesAreReleased`, `OneLateDispatch`,
`ReportsAreGated`.

**OracleCampaignProofs.** For any number of runs, requests, earlier records and
kills. `OwnFiles`: a remote directory holds records of its run only.
`Meanwhile`: the record that a local unforced run finds under its hands, between
looking and writing, came from another run. With them each step that replaces a
whole record is one `RecordsKept` allows (`RecordsAreKept`).
The promises of an exit with zero need what a run may rely on while others write
(`RunInv`): cases behind it have records, the one under its hands is open, those
ahead are as the run found them (`Recorded`, `UnderHand`, `Ahead`), each unless a
`Rival` mints the same case; what a remote run copies back is what it had
(`Brought`); the tally counts the records behind it (`Tallies`). The steps are
proved in two halves: no step of a run breaks another's `RunInv` (`QuietSeen`,
`QuietKeeps`), and each keeps its own (`OwnStep`). Results: `ZeroLeavesRecords`
(`ExitZeroComplete`) and `SummaryTells` (`SummaryExact`).

**PackageRunProofs.** For every package whose fields have their types: tensors of
any length, any slices, layouts and padding, any order of dispatch.
`Place0` ties position, regions and phase to the dispatch plan, and `Stored` says
that the regions kept are those of exactly the programs passed that have
something to keep (`RunInvariant`).

- `RaisesAreExplained` (`RaisesExplained`) has two halves. The order:
  load_package walks the sorted writes of a tensor and stops at the first gap.
  The order exists and is strict, since no two programs write from the same place
  (`OrderExists`, `SortedAll`); the writes tile the tensor (`TileCovers`); so each
  element a program reads belongs to a write the walk enters (`WalkEnters`),
  whose program comes earlier (`WritesFirst`) and has its region stored
  (`ComposableHolds`). At the end every element of an output is in one
  (`WrittenHolds`). The size: an assignment of as many bytes as it replaces keeps
  the length (`AssignFacts`), so what is composed has two bytes for each
  element when elements have two (`IntermediateTwoByte`); a mask comes out at one byte
  for each element only when a single region holds it whole and it has at most two
  (`MaskFilled`, `IntermediateMask`). Together these are `IntermediateSize` and
  `SliceSize`, and every other mask is a `ReadsMask`.
- `DmaIsBacked` (`DmaBacked`) follows from what was accepted.
- `OutputsAreExact` (`OutputsExact`) is about bytes. Rows padded to the stride
  keep different elements apart and inside the surface (`RowsApart`, `RowsInside`,
  `PlacesApart`), which takes division by a variable width, so the quotients are
  handled by lemmas of their own (`DivFacts` to `DivTwice`); hence packing a dense
  slice and unpacking it gives it back (`PackHolds`, `SliceExact`), what a program
  writes is exact if what it reads is (`WrittenExact`), and the regions that are
  copied one over the other leave the tensor's own bytes at every place
  (`IntermediateFacts`, `FilledFacts`); so do those restored into an output
  (`RestoredLaid`, `UnpackedExact`). These are the steps of `DataInv`. For the tensors
  compared with a tolerance: `chunked` grows along the dispatch order
  (`MarkingGrows`), in which writers come before their readers (`FeedsFirst`).

Only model-checked: `PlanningEnds`, `CallsReturn`, `RootsRemoved` (liveness);
`AssembledBundleLoads` and `InterfaceIsGraphs`, which follow names from the graph through composition into
the bundle; ResearchTools, which compares functions on data over one input. Out of this prover's reach altogether: liveness under fairness and
ENABLED, and the folds of the community modules, whose definitions take an
operator.

## 7. Disagreements

Two runs end in a violation; each is a finding in PROJECT.json with the line and
the text it disagrees with.

1. `runtime_unload`: an unload that stops halfway leaves the object "loaded",
   and an evaluation then submits an unloaded model (ANEProvisionedRuntime.mm:644).
2. `assembler_scalars`: a scaling folded into an exponential is lost when a
   reduction joins the program (H16GTaskComposer.mm:231).

Read in the code while modelling, each without a run of its own:

- A merged task stands at its first node's place and may depend on a later
  task, whose wave it ignores (ANETaskScheduler.mm:480); a graph output inside a
  merged task gets no store (ANETaskScheduler.mm:467). `DependenciesComplete`
  states what the code does guarantee.
- A package that every check accepts, `--dry-run` included, may fail in the
  middle of the device run: a program that reads a tensor the package also
  returns finds no bytes for it (h13_run_linux.py:405), and a returned name may
  stand for no output. `RaisesExplained` names both.
- Tensors of one-byte elements are accepted where the runner slices and copies by
  two bytes (h13_run_linux.py:315-330, inspect_anec.py:741). Recomposing a mask of three
  or more elements, or one written in parts, leaves data of another size, which
  convert_tensor refuses in the middle of the run (inspect_anec.py:735): the third
  case of `RaisesExplained`. `BytesExact` is about two-byte elements.
- pack_dense shortens its section when the channels do not fill the plane groups
  (mint_conv_probes.py:339-343), where its text speaks of sixteen groups of whole planes.
- effectiveProducer (ANETaskScheduler.mm:28-40) returns the dequantize itself
  when a graph input stands behind a folded boundary; the input is then
  scheduled as a constant.
- run_package takes its deadline before `_package_contract`
  (h13_run_linux.py:456), so reading the package counts, while the help text (:644)
  speaks of device work. `LateWork` models the code.
- ANEProgramPartition.mm:313 gives the reason of the last transition where
  ANEProgramPartition.h:45-47 announces that of the boundary. `RecordsExact`
  states what the code guarantees.
- README.md:179 and :430 differ on whether the runner waits for the device.
- A handle whose preparation is interrupted by KeyboardInterrupt inside the
  constructor is not in the list that is closed (h13_run_linux.py:140-143, against the
  docstring at :501); `HandlesReleased` excepts exactly that handle.
- The estimate for a softmax region is 6 tasks, the forms have 7; the limit is 8.
- The staged driver goes on after errors the lexer or the assembler reported,
  unlike the H13 and H14 compilers (ANEH13Compiler.mm:2865), so an H16G command
  may exit with 0 and a bundle although errors were reported; and it refuses a
  text of no or several functions without an error (ANEStagedCompiler.mm:38-66).
  `ExitTold` is stated accordingly.
- A function that returns only constants gives an H16G bundle of no programs:
  exit code 0, and a manifest the reader refuses ("bundle has no artifacts").
- ANEExecutableBundle writes into a directory that is not empty, where
  README.md:142 asks for an empty one. A repeated H13 or H14 command is refused
  by what its failed predecessor left.
- The reference keeps a reduced axis of one element whose declaration drops it,
  and then refuses the legal declaration; `ElementsExact` states the exception.
- The payload header of the minting drivers other than the chain's is four bytes
  short, so their constants are read from the start of the file, and a
  onehot probe that names a halfword of the header marks one at the end.
  `ProgramsRun` states both.
- A resumed chain campaign counts the record of a refused ceiling probe as
  decoded (mint_chain_probes.py:744); `SummaryExact` states the exception.
- The text segment of an H16G object always has 0x8000 bytes, the descriptor
  up to 0x60000 (HWXObjectWriter.mm:586).

## 8. Not modelled, and why

- Register words, measured templates and the contents of emitted tables: numbers
  that the repository itself compares with decoded oracles; a model would repeat
  them. This is most of the H16G encoders, the form validator, the constant
  packer, and the H13, H14, H17 and H18 compilers. What decides whether
  a request encodes is in `H16GTargetRows`; how tables are made from records is in
  `TemplateTable`.
- Lexer, parser, importer, verifier, and the passes normalize, decompose and
  legalize: each a fixed list of patterns over an immutable text or a list of
  nodes, without a state that outlives the call. What becomes of a text is a
  verdict in `StagedDriver`; `FusionPass` and `TaskScheduler` start from graphs as
  these passes leave them.
- The composed region planner: patterns recorded beside the tasks, which no
  encoder reads but for the elided surfaces.
- HWX writer and image: byte layout; the model has lengths and refusals.
- Pass manager and plugin registry: only their own tests use them. Blob
  resolver, tile planner, statistics: one pure function each.
- Hardware runners, profilers, one-pass reading scripts, CI: not the program.
- In what is modelled: the rounding of fp16 sums and the tolerance of the
  comparison, which no model of small integers can show; operand shapes of single
  operations in load_package, so that a package `AnecPackage` accepts may still
  be refused; malformed manifests, which no writer makes; the rejection of the
  scheduler when the SRAM overflows; messages, timings and layouts of text.

Hazards of the unmodelled parts: a consumer of an H13 intermediate may end in the
lane after the last written element, because the test rounds
(ANEH13Compiler.mm:4388); surfaces are elided by a plan the assembler is free not
to encode (ANETaskScheduler.mm:122); the fixed text segment
(HWXObjectWriter.mm:586); valueBytes multiplies dimensions without an overflow
check (ANEFusionPass.mm:16); regions claim their stages in node order, so an
earlier small plan hides a later larger one (ANEComposedRegionPlanner.mm:273);
the rewriting of layer_norm ends in an add of one operand
(ANEDecomposePass.mm:49); a row wider than the slab is still taken
(ANETilePlanner.mm:91).

## 9. Plan

Done, in this order: `MemoryPlanner`, `ProgramPartition`, `ProvisionedRuntime`
with `DispatchBundle`, `FusionPass`, `TaskScheduler`, `LinuxRunner`,
`ProgramAssembler`; then `AnecPackage` with `PackageRun`, the research tools,
`OracleCampaign`, and `StagedDriver` over the assembler and `BundleDirectory`; then
`TaskLabels`. Nine of them have proofs (those of FusionPass, the task half of
TaskScheduler, StagedDriver and PackageRun came last).

What would come next:

1. `ComposedRegions`: the region planner and the surfaces it elides, composed
   with `TaskScheduler`, then `MemoryPlanner` on the surfaces the scheduler
   really makes; property: an elided surface is read only inside its region.
2. `H13Storage`: slices of intermediates as the H13 compiler plans them, with
   the coverage check and its lanes, as a refinement of what `AnecPackage` accepts.
3. `GraphPasses`: replaceNode:, removeNodes: and the three passes between the
   two fusions; the use lists as the inverse of the operands.
4. `HWXLayout`: addresses and sections of one object and the reader's checks.
5. Abstract specifications: a session (unloaded, loaded, evaluating) which the
   runtime implements as long as no unload fails; partitioning as a choice of
   any valid tiling.
6. Proofs of `AssembledBundleLoads` and `InterfaceIsGraphs`, for which the
   composed program's bindings need an invariant of their own beside `AInv`.
