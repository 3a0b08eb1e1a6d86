------------------------------- MODULE StagedDriver -------------------------------
(***************************************************************************)
(* The command mil-hwxc: main, the staged compiler for H16G around the     *)
(* assembler (ProgramAssembler, composed here), the frame of the H13 and   *)
(* H14 compilers, and the writing of the output directory.  A command may  *)
(* be killed or fail to write, and is then repeated with the same text.    *)
(*                                                                         *)
(* Compiling is deterministic and touches no file, so a command that is    *)
(* repeated is taken up where its directory is opened.                     *)
(***************************************************************************)
EXTENDS ProgramAssembler, BundleDirectory

CONSTANTS
  Commands,   \* the commands: target, text and package
  Earlier,    \* what the output directory may hold before
  Lengths,    \* byte lengths of the single-program encoder's objects
  MaxFaults   \* bound on kills and failed writes

(* A program file the earlier directory holds with the byte count its      *)
(* manifest records is the one the manifest was written for.  Commands     *)
(* killed over an older bundle can leave it otherwise.                     *)
ASSUME EarlierAssumption ==
  \A d \in Earlier :
    /\ d = Contents(d.there, d.files, d.manifest, d.litter)
    /\ d.there \/ d = Nowhere
    /\ d.manifest \in Seq(ProgramFile)
    /\ \A i \in DOMAIN d.manifest :
         File(d, i).length = d.manifest[i].length => File(d, i) = d.manifest[i]

ASSUME CommandsAssumption ==
  Lengths \subseteq Nat /\ \A c \in Commands : c.payloads \in Seq(ProgramFile)

(* The text: `bad` if it has a byte no token starts with, and what becomes *)
(* of the tree after it.  The H13 and H14 compilers' own work is abstracted *)
(* to the payloads it yields.                                              *)
Fronts == {"graph", "rejected", "no function"}

Packaged == {"H13", "H14"}

VARIABLES
  command,    \* the command line and its text
  earlier,    \* the output directory before the command
  directory,  \* and now
  step,       \* where the process is
  errors,     \* errorCount of the diagnostic engine
  images,     \* the images to be written
  written,    \* how many are
  exit,       \* exit code, "killed", or "none"
  faults      \* kills and failed writes so far

compilerVars == <<graph, capabilities, leaves, disabled, problem, start, candidate,
                  bestEnd, lastExtended, pending, records, partitions, planning, at,
                  leaf, combined, programs, status>>

outputVars == <<directory, images, written>>
givens == <<command, earlier>>
driverVars == <<compilerVars, givens, outputVars, step, errors, exit, faults>>

DriverInit ==
  /\ Init
  /\ command \in {c \in Commands : c.graph = graph} /\ earlier \in Earlier
  /\ directory = earlier
  /\ step = "lexing" /\ errors = 0
  /\ images = <<>> /\ written = 0
  /\ exit = "none" /\ faults = 0

Goto(s) == step' = s /\ UNCHANGED exit
Exit(code) == step' = "exited" /\ exit' = code
Emit == errors' = errors + 1
Silent == UNCHANGED errors

--------------------------------------------------------------------------------
(* The compilers. *)

Compiling == UNCHANGED <<compilerVars, givens, outputVars, faults>>

UnsupportedTarget ==
  /\ step = "lexing" /\ command.target = "other"
  /\ Emit /\ Exit(65) /\ Compiling

Lex ==
  /\ step = "lexing" /\ command.target # "other"
  /\ IF command.bad THEN Emit ELSE Silent
  /\ Goto("front end") /\ Compiling

(* lexAllTokens: the H13 and H14 compilers stop, the staged one goes on.   *)
LexErrorStops ==
  /\ step = "front end" /\ command.target \in Packaged /\ errors > 0
  /\ Silent /\ Exit(65) /\ Compiling

Parsed == step = "front end" /\ (command.target \in Packaged => errors = 0)

(* Parser, importer, verifier, or a pass that returns NO.                  *)
Refused ==
  /\ Parsed /\ command.front = "rejected"
  /\ Emit /\ Exit(65) /\ Compiling

(* The number of functions, which the staged compiler refuses silently.    *)
NotOneFunction ==
  /\ Parsed /\ command.front = "no function"
  /\ IF command.target \in Packaged THEN Emit ELSE Silent
  /\ Exit(65) /\ Compiling

Scheduled ==
  /\ Parsed /\ command.front = "graph" /\ command.target = "H16G"
  /\ Silent /\ Goto("assembling") /\ Compiling

Packed ==
  /\ Parsed /\ command.front = "graph" /\ command.target \in Packaged
  /\ images' = command.payloads
  /\ Silent /\ Goto("opening")
  /\ UNCHANGED <<compilerVars, givens, directory, written, faults>>

Assemble ==
  /\ step = "assembling"
  /\ \/ Plan \/ EmitRegion \/ EmitStandalone \/ Decline \/ FirstLeaf \/ ComposeLeaf
     \/ SplitLeaf \/ EmitCombined \/ Finish
  /\ UNCHANGED <<givens, outputVars, step, errors, exit, faults>>

(* artifactForEncodedTask is called for the program composed so far, for a *)
(* region's, or for each of a partition's standalone programs.             *)
MakesObject ==
  \/ Opening /\ (Regions(at) # {} \/ (~ EveryLeafEncodes /\ NoProgram \notin ToSet(Standalone(at))))
  \/ Inside /\ Composition = NoProgram
  \/ Ready /\ leaf = LastTask(at) + 1

(* The writer refuses an object, or the object does not parse again.       *)
ObjectRefused ==
  /\ step = "assembling" /\ MakesObject
  /\ status' = "declined"
  /\ Emit
  /\ UNCHANGED <<givenVars, plannerVars, at, leaf, combined, programs, givens,
                 outputVars, step, exit, faults>>

(* An object's sections are multiples of 0x4000 bytes, counted here: the   *)
(* commands, the text, and the tables of the operations that look up.      *)
TableStages(e) == SelectSeq(OpsOf(graph, e.stages), LAMBDA op : op \in {"exp", "gelu", "reciprocal"})

ObjectLength(e) ==
  (IF Len(TableStages(e)) <= 1 /\ Len(e.inputs) <= 2 THEN 1 ELSE 2)
  + 2 + (IF TableStages(e) # <<>> THEN 1 ELSE 0)

Assembled ==
  /\ step = "assembling" /\ status = "assembled"
  /\ images' = [i \in DOMAIN programs |->
                  [of |-> i, length |-> ObjectLength(programs[i])]]
  /\ Silent /\ Goto("opening")
  /\ UNCHANGED <<compilerVars, givens, directory, written, faults>>

(* The assembler's nil, whatever its reason: encodeGraph: tries the graph  *)
(* as one of the whole programs it knows.                                  *)
SingleProgram ==
  /\ step = "assembling" /\ status = "declined"
  /\ \E n \in Lengths : images' = <<[of |-> 1, length |-> n]>>
  /\ Silent /\ Goto("opening")
  /\ UNCHANGED <<compilerVars, givens, directory, written, faults>>

SingleRefused ==
  /\ step = "assembling" /\ status = "declined"
  /\ Emit /\ Exit(65) /\ Compiling

--------------------------------------------------------------------------------
(* The output directory. *)

Writing == UNCHANGED <<compilerVars, givens, images, errors, faults>>

MayOpen == command.target = "H16G" \/ ~ directory.there \/ IsEmpty(directory)

(* Mutant: the manifest is written before the programs.                    *)
MutantOpen ==
  /\ step = "opening" /\ MayOpen
  /\ directory' = WithManifest([directory EXCEPT !.there = TRUE], images)
  /\ Goto("writing") /\ UNCHANGED written /\ Writing

Open ==
  /\ step = "opening" /\ MayOpen
  /\ directory' = [directory EXCEPT !.there = TRUE]
  /\ Goto("writing") /\ UNCHANGED written /\ Writing

(* "output directory must be empty": an NSError, so exit code 74.          *)
RefuseDirectory ==
  /\ step = "opening" /\ ~ MayOpen
  /\ Exit(74) /\ UNCHANGED <<directory, written>> /\ Writing

WriteProgram ==
  /\ step = "writing" /\ written < Len(images)
  /\ directory' = WithProgram(directory, written + 1, images[written + 1])
  /\ written' = written + 1
  /\ UNCHANGED <<step, exit>> /\ Writing

WriteManifest ==
  /\ step = "writing" /\ written = Len(images)
  /\ directory' = WithManifest(directory, images)
  /\ Goto("reporting") /\ UNCHANGED written /\ Writing

Report == step = "reporting" /\ Exit(0) /\ UNCHANGED <<directory, written>> /\ Writing

Fault ==
  /\ faults < MaxFaults /\ faults' = faults + 1
  /\ step' = "stopped"
  /\ UNCHANGED <<compilerVars, givens, images, written, errors>>

(* createDirectoryAtURL: or an atomic write returns NO.                    *)
WriteFails ==
  /\ step \in {"opening", "writing"} /\ (step = "opening" => MayOpen)
  /\ exit' = 74 /\ UNCHANGED directory /\ Fault

(* A kill during an atomic write may leave its temporary file.             *)
Killed ==
  /\ step \in {"writing", "reporting"}
  /\ \E l \in {directory.litter, step = "writing" \/ directory.litter} :
       directory' = [directory EXCEPT !.litter = l]
  /\ exit' = "killed" /\ Fault

Repeat ==
  /\ step = "stopped"
  /\ step' = "opening" /\ exit' = "none" /\ written' = 0
  /\ UNCHANGED <<compilerVars, givens, directory, images, errors, faults>>

Exited == step = "exited" /\ UNCHANGED driverVars

DriverNext ==
  \/ UnsupportedTarget \/ Lex \/ LexErrorStops \/ Refused \/ NotOneFunction
  \/ Scheduled \/ Packed \/ Assemble \/ ObjectRefused \/ Assembled
  \/ SingleProgram \/ SingleRefused
  \/ Open \/ RefuseDirectory \/ WriteProgram \/ WriteManifest \/ Report
  \/ WriteFails \/ Killed \/ Repeat \/ Exited

DriverSpec == DriverInit /\ [][DriverNext]_driverVars

--------------------------------------------------------------------------------
(* Properties. *)

FromEitherManifest ==
  /\ directory.manifest = earlier.manifest
  /\ \A i \in DOMAIN directory.manifest :
       File(directory, i) \in {directory.manifest[i]}
                               \cup {images[j] : j \in DOMAIN images \cap {i}}

(* A directory the reader accepts holds the programs its manifest was      *)
(* written for, however many commands wrote it, failed or were killed; for *)
(* H13 and H14 always.  Only between the first program and the manifest of *)
(* an H16G command over an older bundle can it mix the two, where the      *)
(* programs it replaced had the same lengths (ANEExecutableBundle.mm:100). *)
StoredWhole ==
  Readable(directory) =>
    \/ Whole(directory)
    \/ command.target \notin Packaged /\ step # "exited" /\ FromEitherManifest

(* What the exit code tells: 0, the manifest is of the programs made and   *)
(* they are all there, for H13 and H14 with no error reported and nothing  *)
(* else in the directory; 65, nothing was touched and an error says why,   *)
(* but for a program of no function; 74, the directory was in use          *)
(* (tools/mil-hwxc.mm:80-139).                                             *)
ExitTold ==
  step = "exited" =>
    /\ exit \in {0, 65, 74}
    /\ exit = 0 =>
         /\ directory.manifest = images
         /\ images # <<>> => Whole(directory)
         /\ command.target \in Packaged =>
              errors = 0 /\ DOMAIN directory.files = DOMAIN images /\ ~ directory.litter
    /\ exit = 65 =>
         directory = earlier /\ (errors > 0 \/ command.front = "no function")
    /\ exit = 74 =>
         command.target \in Packaged
           /\ directory \notin {Nowhere, [Nowhere EXCEPT !.there = TRUE]}

================================================================================
