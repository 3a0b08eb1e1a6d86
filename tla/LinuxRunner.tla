------------------------------- MODULE LinuxRunner -------------------------------
(***************************************************************************)
(* tools/h13_run_linux.py after its arguments are parsed: a package is     *)
(* checked against the request, its programs are opened on the device and  *)
(* run in dispatch order, once or for a benchmark, the outputs are         *)
(* compared, and every handle is closed.                                   *)
(*                                                                         *)
(* Every call into libane is one step with every answer libane may give,   *)
(* and Ctrl-C may arrive during one: Python raises KeyboardInterrupt when  *)
(* the call returns, before its result is assigned.  Time passes in the    *)
(* calls and in the reference evaluation.                                  *)
(*                                                                         *)
(* Data is a number: the iteration it was computed in from the request's   *)
(* inputs, or 0 when it is not what the reference says.                    *)
(***************************************************************************)
EXTENDS Integers, Sequences, FiniteSets

CONSTANTS
  Requests,  \* packages, with how they are to be run
  MaxTime    \* bound on the clock

Programs(r) == DOMAIN r.programs
Produced(r, n) == r.programs[n].writes
Position(r, n) == CHOOSE k \in DOMAIN r.plan : r.plan[k] = n

(* What load_package accepts: the plan runs every program once, what a     *)
(* program reads of other programs is produced, once, earlier in the plan, *)
(* and so is every output.  A value stands for a tensor or for one slice   *)
(* of it.                                                                  *)
IsPackage(r) ==
  /\ r.programs \in Seq([reads : SUBSET DOMAIN r.role, writes : SUBSET DOMAIN r.role])
  /\ Len(r.programs) > 0
  /\ r.plan \in Seq(Programs(r)) /\ DOMAIN r.plan = Programs(r)
  /\ \A n \in Programs(r) : \E k \in DOMAIN r.plan : r.plan[k] = n
  /\ \A j, k \in DOMAIN r.plan : r.plan[j] = r.plan[k] => j = k
  /\ \A n \in Programs(r) : \A v \in r.programs[n].reads :
       r.role[v] \in {"intermediate", "output"} =>
         \E m \in Programs(r) : v \in Produced(r, m) /\ Position(r, m) < Position(r, n)
  /\ \A v \in DOMAIN r.role :
       r.role[v] = "output" => \E n \in Programs(r) : v \in Produced(r, n)
  /\ \A n \in Programs(r) : \A v \in Produced(r, n) :
       r.role[v] \in {"intermediate", "output"}
  /\ \A m, n \in Programs(r) : m # n => Produced(r, m) \cap Produced(r, n) = {}

IsRequest(r) ==
  /\ IsPackage(r)
  /\ r.mode \in {"dry", "once", "benchmark"}
  /\ r.warmup \in Nat /\ r.iterations \in Nat \ {0}
  /\ r.mode # "benchmark" => r.warmup = 0 /\ r.iterations = 1
  /\ r.budget \in Nat \ {0}

ASSUME RunnerAssumption ==
  MaxTime \in Nat /\ \A r \in Requests : IsRequest(r)

VARIABLES
  request,    \* the package and how it is to be run
  clock,      \* time.monotonic
  deadline,   \* end of the budget
  step,       \* what the runner does next
  preparing,  \* in the benchmark's loop that opens every program
  position,   \* place in the dispatch plan
  iteration,  \* number of the iteration, warmup included
  handle,     \* handle of each program: "none", "open", "freed" or "twice"
  known,      \* programs whose handle the runner holds
  buffers,    \* contents of a program's input buffers
  regions,    \* produced values of this iteration
  samples,    \* timing samples of each program
  checked,    \* outputs that passed the comparison, one entry per iteration
  late,       \* submissions begun with the budget spent
  raised,     \* exceptions in the order they were raised
  error       \* the exception that propagates, "none" without one

unwinding == <<raised, error>>
data == <<buffers, regions, samples, checked>>
place == <<preparing, position, iteration>>
device == <<handle, known, late>>
vars == <<request, clock, deadline, step, preparing, position, iteration, handle,
          known, buffers, regions, samples, checked, late, raised, error>>

Benchmarking == request.mode = "benchmark"
Program == request.plan[position]
Reads(n) == request.programs[n].reads
Role(v) == request.role[v]
Values == DOMAIN request.role
Outputs == {v \in Values : Role(v) = "output"}

Init ==
  /\ request \in Requests
  /\ clock = 0 /\ deadline = 0
  /\ step = "contract" /\ preparing = (request.mode = "benchmark")
  /\ position = 1 /\ iteration = 1
  /\ handle = [n \in Programs(request) |-> "none"] /\ known = {}
  /\ buffers = [n \in Programs(request) |-> [v \in request.programs[n].reads |-> 0]]
  /\ regions = [v \in {} |-> 0]
  /\ samples = [n \in Programs(request) |-> 0] /\ checked = <<>>
  /\ late = 0 /\ raised = <<>> /\ error = "none"

--------------------------------------------------------------------------------
(* Time, exceptions and the place in the plan. *)

Elapses == clock' \in clock .. MaxTime

(* An exception leaves the loops; the finally clauses close what is open.  *)
Raise(exception) ==
  /\ raised' = Append(raised, exception)
  /\ error' = exception
  /\ step' = "cleanup"

(* The plan's next program, or what follows its last one. *)
NextProgram ==
  IF position < Len(request.plan)
    THEN position' = position + 1 /\ step' = "check" /\ UNCHANGED preparing
    ELSE /\ position' = 1
         /\ preparing' = FALSE
         /\ step' = IF preparing THEN "check" ELSE "compare"

--------------------------------------------------------------------------------
(* Before the device. *)

(* run_package takes the deadline before _package_contract has evaluated   *)
(* the reference, benchmark_package after it; a dry run only plans.        *)
Contract ==
  /\ step = "contract" /\ Elapses
  /\ deadline' = request.budget + (IF Benchmarking THEN clock' ELSE clock)
  /\ step' = IF request.mode = "dry" THEN "ended" ELSE "check"
  /\ UNCHANGED <<request, place, device, data, unwinding>>

(* Inputs or outputs that are not exactly the manifest's. *)
RefuseRequest ==
  /\ step = "contract" /\ Elapses
  /\ Raise("request")
  /\ UNCHANGED <<request, deadline, place, device, data>>

(* Mutant: the deadline is looked at once per pass through the plan.       *)
MutantCheckDeadline ==
  /\ step = "check"
  /\ IF clock >= deadline /\ position = 1 THEN Raise("deadline")
     ELSE step' = (IF preparing THEN "open" ELSE "compose") /\ UNCHANGED unwinding
  /\ UNCHANGED <<request, clock, deadline, place, device, data>>

(* _check_deadline *)
CheckDeadline ==
  /\ step = "check"
  /\ IF clock >= deadline THEN Raise("deadline")
     ELSE step' = (IF preparing THEN "open" ELSE "compose") /\ UNCHANGED unwinding
  /\ UNCHANGED <<request, clock, deadline, place, device, data>>

(* Mutant: prepared buffers are filled in the first iteration only.        *)
MutantComposed ==
  [v \in Reads(Program) |->
     IF iteration > 1 THEN buffers[Program][v]
     ELSE IF Role(v) = "intermediate" THEN regions[v] ELSE iteration]

(* The surfaces _program_inputs builds, which PreparedProgram or refill    *)
(* copies into the program's buffers.                                      *)
Composed ==
  [v \in Reads(Program) |->
     IF Role(v) = "intermediate" THEN regions[v] ELSE iteration]

(* _program_inputs looks every value that is neither a constant nor an     *)
(* intermediate up among the request's inputs: KeyError for an output.     *)
Compose ==
  /\ step = "compose"
  /\ IF \E v \in Reads(Program) : Role(v) = "output"
       THEN Raise("key") /\ UNCHANGED buffers
       ELSE /\ buffers' = [buffers EXCEPT ![Program] = Composed]
            /\ step' = IF Benchmarking THEN "send" ELSE "open"
            /\ UNCHANGED unwinding
  /\ UNCHANGED <<request, clock, deadline, place, device, regions, samples, checked>>

--------------------------------------------------------------------------------
(* PreparedProgram. *)

(* pyane_init, after the program's file was read. *)
Open ==
  /\ step = "open" /\ Elapses
  /\ handle' = [handle EXCEPT ![Program] = "open"]
  /\ known' = known \cup {Program}
  /\ step' = "sizes"
  /\ UNCHANGED <<request, deadline, place, late, data, unwinding>>

(* No file, no handle. *)
OpenFails ==
  /\ step = "open" /\ Elapses
  /\ \E exception \in {"file", "init"} : Raise(exception)
  /\ UNCHANGED <<request, deadline, place, device, data>>

(* The device has the handle, but the runner was interrupted before it had *)
(* it.                                                                     *)
OpenInterrupted ==
  /\ step = "open" /\ Elapses
  /\ handle' = [handle EXCEPT ![Program] = "open"]
  /\ Raise("lost")
  /\ UNCHANGED <<request, deadline, place, known, late, data>>

(* Benchmarks prepare with placeholders; constants are the real ones.      *)
SizesAgree ==
  /\ step = "sizes"
  /\ IF preparing
       THEN /\ buffers' = [buffers EXCEPT ![Program] =
                 [v \in Reads(Program) |-> IF Role(v) = "constant" THEN 1 ELSE 0]]
            /\ NextProgram
       ELSE step' = "send" /\ UNCHANGED <<buffers, preparing, position>>
  /\ UNCHANGED <<request, clock, deadline, iteration, device, regions, samples,
                 checked, unwinding>>

(* A size differs, or an interrupt: __init__ closes its own handle before  *)
(* the exception leaves it.                                                *)
SizesDiffer ==
  /\ step = "sizes"
  /\ \E exception \in {"size", "interrupt"} : Raise(exception)
  /\ UNCHANGED <<request, clock, deadline, place, device, data>>

--------------------------------------------------------------------------------
(* One execution of a program. *)

Interrupted ==
  /\ step \in {"send", "exec", "read"} /\ Elapses
  /\ Raise("interrupt")
  /\ UNCHANGED <<request, deadline, place, device, data>>

TransferIn ==
  /\ step = "send" /\ Elapses
  /\ step' = "exec"
  /\ UNCHANGED <<request, deadline, place, device, data, unwinding>>

(* What the device computes: right, in this iteration, when all it is sent *)
(* is; else as old as the oldest of it.                                    *)
Computed ==
  LET ages == {buffers[Program][v] : v \in Reads(Program)} \cup {iteration}
  IN CHOOSE a \in ages : \A b \in ages : a <= b

Late == late + (IF clock >= deadline THEN 1 ELSE 0)

(* ane_exec, with a right or a wrong result. *)
Submit ==
  /\ step = "exec" /\ Elapses
  /\ late' = Late
  /\ \E result \in {Computed, 0} :
       regions' = [v \in DOMAIN regions \cup Produced(request, Program) |->
                     IF v \in Produced(request, Program) THEN result ELSE regions[v]]
  /\ step' = "read"
  /\ UNCHANGED <<request, deadline, place, handle, known, buffers, samples, checked,
                 unwinding>>

SubmitFails ==
  /\ step = "exec" /\ Elapses
  /\ late' = Late
  /\ Raise("exec")
  /\ UNCHANGED <<request, deadline, place, handle, known, data>>

Sampled ==
  IF Benchmarking /\ iteration > request.warmup
    THEN [samples EXCEPT ![Program] = @ + 1] ELSE samples

(* Readback; a single run closes the program before it goes on.            *)
TransferOut ==
  /\ step = "read" /\ Elapses
  /\ samples' = Sampled
  /\ IF Benchmarking THEN NextProgram
                     ELSE step' = "cleanup" /\ UNCHANGED <<preparing, position>>
  /\ UNCHANGED <<request, deadline, iteration, device, buffers, regions, checked,
                 unwinding>>

--------------------------------------------------------------------------------
(* After the plan's last program. *)

(* _check_outputs; regions start empty in every iteration. *)
OutputsMatch ==
  /\ step = "compare"
  /\ \A v \in Outputs : regions[v] # 0
  /\ checked' = Append(checked, [v \in Outputs |-> regions[v]])
  /\ IF iteration < request.warmup + request.iterations
       THEN iteration' = iteration + 1 /\ step' = "check"
            /\ regions' = [v \in {} |-> 0]
       ELSE step' = "cleanup" /\ UNCHANGED <<iteration, regions>>
  /\ UNCHANGED <<request, clock, deadline, preparing, position, device, buffers,
                 samples, unwinding>>

OutputsDiffer ==
  /\ step = "compare"
  /\ \E v \in Outputs : regions[v] = 0
  /\ Raise("mismatch")
  /\ UNCHANGED <<request, clock, deadline, place, device, data>>

--------------------------------------------------------------------------------
(* _close_all and PreparedProgram.close. *)

Free(n) == [handle EXCEPT ![n] = IF @ = "open" THEN "freed" ELSE "twice"]

(* A program that fails its sizes closes itself; then handles are closed   *)
(* in the order they were opened.                                          *)
NextClosed ==
  IF preparing /\ Program \in known THEN Program
  ELSE CHOOSE n \in known :
         \A m \in known : Position(request, n) <= Position(request, m)

HandleClosed ==
  /\ step = "cleanup" /\ known # {}
  /\ handle' = Free(NextClosed)
  /\ known' = known \ {NextClosed}
  /\ UNCHANGED <<request, clock, deadline, step, place, late, data, unwinding>>

(* Mutants: the first failure ends the loop; the handle is kept.           *)
MutantHandleRefused ==
  /\ step = "cleanup" /\ known # {}
  /\ handle' = Free(NextClosed)
  /\ known' = {}
  /\ raised' = Append(raised, "free")
  /\ UNCHANGED <<request, clock, deadline, step, place, late, data, error>>

(* pyane_free fails: the handle is gone all the same, the failure waits.   *)
HandleRefused ==
  /\ step = "cleanup" /\ known # {}
  /\ handle' = Free(NextClosed)
  /\ known' = known \ {NextClosed}
  /\ raised' = Append(raised, "free")
  /\ UNCHANGED <<request, clock, deadline, step, place, late, data, error>>

(* The primary exception wins over a cleanup failure. *)
Propagated ==
  IF error = "none" /\ raised # <<>> THEN "free" ELSE error

(* Everything is closed; a single run goes on with its next program.       *)
CleanupDone ==
  /\ step = "cleanup" /\ known = {}
  /\ error' = Propagated
  /\ IF Propagated = "none" /\ ~ Benchmarking /\ checked = <<>>
       THEN NextProgram
       ELSE step' = "ended" /\ UNCHANGED <<preparing, position>>
  /\ UNCHANGED <<request, clock, deadline, iteration, device, data, raised>>

Done == step = "ended" /\ UNCHANGED vars

Next ==
  \/ Contract \/ RefuseRequest \/ CheckDeadline \/ Compose
  \/ Open \/ OpenFails \/ OpenInterrupted \/ SizesAgree \/ SizesDiffer
  \/ TransferIn \/ Submit \/ SubmitFails \/ Interrupted \/ TransferOut
  \/ OutputsMatch \/ OutputsDiffer
  \/ HandleClosed \/ HandleRefused \/ CleanupDone \/ Done

Spec == Init /\ [][Next]_vars

--------------------------------------------------------------------------------
(* Properties. *)

(* However a run ends, whichever calls failed and in whatever order, no    *)
(* handle was freed twice and none is left open, but for one whose         *)
(* creation was interrupted (PreparedProgram, _close_all).                 *)
HandlesReleased ==
  /\ \A n \in Programs(request) : handle[n] # "twice"
  /\ step = "ended" =>
       \A n \in Programs(request) :
         handle[n] = "open" => raised[1] = "lost" /\ n = Program

(* The error a caller sees is the first thing that went wrong; a failure   *)
(* while closing never hides it and is never lost (_close_all).            *)
PrimaryKept ==
  step = "ended" => error = IF raised = <<>> THEN "none" ELSE raised[1]

(* A result is returned, or a report written, only when every iteration,   *)
(* warmup included, passed the comparison, with outputs computed from what *)
(* that iteration sent to every program of the plan; the statistics of a   *)
(* benchmark are over exactly the requested iterations of every program    *)
(* (_program_inputs, refill, _collect_outputs, _check_outputs).  Otherwise *)
(* the caller gets an error, the first.                                    *)
ReportGated ==
  /\ PrimaryKept
  /\ step = "ended" /\ error = "none" /\ request.mode # "dry" =>
       /\ checked = [i \in 1 .. request.warmup + request.iterations |->
                       [v \in Outputs |-> i]]
       /\ Benchmarking =>
            \A n \in Programs(request) : samples[n] = request.iterations

(* The budget stops the run at the next program: at most the dispatch that *)
(* was on its way to the device when it ran out is still submitted         *)
(* (_check_deadline).                                                      *)
LateWork == late <= 1

================================================================================
