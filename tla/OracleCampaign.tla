------------------------------ MODULE OracleCampaign ------------------------------
(***************************************************************************)
(* Minting oracle records with Apple's compiler: the local and remote runs *)
(* of mint_oracles.py and of the probe scripts, which share one directory  *)
(* of record files.  A run may be killed at any step, its connection to    *)
(* the Mac may break, and several runs may be under way.                   *)
(*                                                                         *)
(* A record file is absent, open (emptied by a writer that has not closed  *)
(* it), whole, or torn (two writers had it open).  A worker writes into    *)
(* the shared directory or, when it was sent to a Mac, into the temporary  *)
(* directory made there for it, which is then copied back.                 *)
(***************************************************************************)
EXTENDS Integers, Sequences, FiniteSets, SequencesExt

CONSTANTS
  Runs,
  Starts,      \* requests for the runs, with what the shared directory holds before them
  MaxKills     \* how many runs may be killed

(***************************************************************************)
(* A request is [driver, remote, force, listing, layout, pattern, limit]:  *)
(* pattern is the set of cases --case matches, limit is as many as --limit *)
(* lets through.  The seven drivers have cases with names of their own.    *)
(* Most refuse to work off a Mac before anything else and make the output  *)
(* directory before they copy scripts.  mint_oracles.py also takes a limit *)
(* and answers a listing anywhere; the convolution probes have layout runs *)
(* and make the output directory last; some chain probes are ceilings.     *)
(***************************************************************************)
Driver(campaign) ==
  [campaign |-> campaign, ceilings |-> {}, limits |-> FALSE, layouts |-> FALSE,
   listsAnywhere |-> FALSE, outputFirst |-> TRUE]
Envelope == [Driver(<<"e1", "e2">>) EXCEPT !.limits = TRUE, !.listsAnywhere = TRUE]
Conv     == [Driver(<<"v1", "v2">>) EXCEPT !.layouts = TRUE, !.outputFirst = FALSE]
Chain    == [Driver(<<"c1", "c2">>) EXCEPT !.ceilings = {"c2"}]
Norm     == Driver(<<"n1">>)
H14Norm  == Driver(<<"h1">>)
Matvec   == Driver(<<"m1">>)
H14Matvec == Driver(<<"w1">>)
Drivers == {Envelope, Conv, Chain, Norm, H14Norm, Matvec, H14Matvec}
Cases == UNION {ToSet(d.campaign) : d \in Drivers}

Shared == "shared"
Places == {Shared} \cup Runs

Absent == [state |-> "absent", status |-> "", by |-> ""]
Open(r) == [state |-> "open", status |-> "", by |-> r]
Torn(r) == [state |-> "torn", status |-> "", by |-> r]
Whole(status, r) == [state |-> "whole", status |-> status, by |-> r]
NoReport == <<>>

Verdicts == {"decoded", "rejected", "accepted", "refused"}

Requests ==
  [driver : Drivers, remote : BOOLEAN, force : BOOLEAN, listing : BOOLEAN, layout : BOOLEAN,
   pattern : SUBSET Cases, limit : Nat]

ASSUME CampaignAssumption == Shared \notin Runs /\ MaxKills \in Nat

(* What stood in the shared directory is of earlier runs.                  *)
ASSUME StartsAssumption ==
  \A start \in Starts :
    /\ start.requests \in [Runs -> Requests]
    /\ \A r \in Runs :
         LET asked == start.requests[r]
         IN /\ asked.layout => asked.driver.layouts
            /\ asked.limit >= Len(asked.driver.campaign) \/ asked.driver.limits
    /\ \A c \in DOMAIN start.before :
         /\ start.before[c].by \notin Runs
         /\ start.before[c].state = "whole" => start.before[c].status \in Verdicts

VARIABLES
  request,
  pc,
  at,        \* the place in what was selected
  held,      \* the status of the record being written
  tally,     \* what the summary will say
  files,     \* for each place, its record files
  made,      \* remote places in which the directory of records exists
  report,    \* for each place, the layout report: what it was made of
  root,      \* the temporary directory: none, there, gone or left
  pending,   \* record files still to be copied back
  code       \* how the run, or a remote run's worker, ended

vars == <<request, pc, at, held, tally, files, made, report, root, pending, code>>

Nth(positions, k) ==
  CHOOSE j \in positions : Cardinality({p \in positions : p <= j}) = k

Selection(asked) ==
  LET campaign == asked.driver.campaign
      matching == {k \in DOMAIN campaign : campaign[k] \in asked.pattern}
      n == Cardinality(matching)
  IN [k \in 1..(IF asked.limit < n THEN asked.limit ELSE n) |-> campaign[Nth(matching, k)]]

Selected(r) == Selection(request[r])
Case(r) == Selected(r)[at[r]]
Place(r) == IF request[r].remote THEN r ELSE Shared

Init ==
  /\ \E start \in Starts :
       /\ request = start.requests
       /\ files = [p \in Places |-> [c \in Cases |->
                    IF p = Shared /\ c \in DOMAIN start.before THEN start.before[c] ELSE Absent]]
  /\ pc = [r \in Runs |-> "begin"]
  /\ at = [r \in Runs |-> 1]
  /\ held = [r \in Runs |-> ""]
  /\ tally = [r \in Runs |-> [decoded |-> 0, rejected |-> 0]]
  /\ made = {}
  /\ report = [p \in Places |-> NoReport]
  /\ root = [r \in Runs |-> "none"]
  /\ pending = [r \in Runs |-> {}]
  /\ code = [r \in Runs |-> "none"]

Goto(r, step) == pc' = [pc EXCEPT ![r] = step]
Ends(r, how) == Goto(r, "ended") /\ code' = [code EXCEPT ![r] = how]

(* A worker's end is the end of a local run.  A remote run goes on to copy *)
(* back whatever there is, except after a listing.                         *)
WorkerEnds(r, how) ==
  /\ code' = [code EXCEPT ![r] = how]
  /\ Goto(r, IF ~request[r].remote THEN "ended" ELSE IF request[r].listing THEN "clean" ELSE "fetch")

(***************************************************************************)
(* Starting: a temporary directory on the Mac, the scripts copied there,   *)
(* the worker, which refuses the wrong machine.  What fails between making *)
(* the directory and the try, a path that is not the one asked for or an   *)
(* output directory that cannot be made, leaves the temporary directory.   *)
(***************************************************************************)
Worker(r) == IF request[r].layout THEN "layout" ELSE IF request[r].listing THEN "listing" ELSE "examine"

StartWorker(r) ==
  \/ Goto(r, Worker(r)) /\ UNCHANGED code
  \/ ~(request[r].listing /\ request[r].driver.listsAnywhere) /\ WorkerEnds(r, "failed")

BeforeScripts(r) == IF request[r].driver.outputFirst THEN "output" ELSE "scripts"

Begin(r) ==
  /\ pc[r] = "begin"
  /\ \/ ~request[r].remote /\ StartWorker(r) /\ UNCHANGED root
     \/ /\ request[r].remote
        /\ root' = [root EXCEPT ![r] = "there"]
        /\ (Goto(r, BeforeScripts(r)) /\ UNCHANGED code) \/ Ends(r, "stranded")
     \/ request[r].remote /\ Ends(r, "failed") /\ UNCHANGED root
  /\ UNCHANGED <<request, at, held, tally, files, made, report, pending>>

MakeOutput(r) ==
  /\ pc[r] = "output"
  /\ (Goto(r, "scripts") /\ UNCHANGED code) \/ Ends(r, "stranded")
  /\ UNCHANGED <<request, at, held, tally, files, made, report, root, pending>>

(* Mutant: a failure leaves the run without the finally clause.            *)
MutantCopyScripts(r) ==
  /\ pc[r] = "scripts"
  /\ \/ StartWorker(r)
     \/ Ends(r, "failed")
  /\ UNCHANGED <<request, at, held, tally, files, made, report, root, pending>>

CopyScripts(r) ==
  /\ pc[r] = "scripts"
  /\ \/ StartWorker(r)
     \/ Goto(r, "clean") /\ code' = [code EXCEPT ![r] = "failed"]
  /\ UNCHANGED <<request, at, held, tally, files, made, report, root, pending>>

List(r) ==
  /\ pc[r] = "listing"
  /\ WorkerEnds(r, "zero")
  /\ UNCHANGED <<request, at, held, tally, files, made, report, root, pending>>

(***************************************************************************)
(* The worker takes one case after another.  A record that exists is read  *)
(* and counted unless the run is forced: by its "error" key, which the     *)
(* record of a ceiling probe does not have.  One that cannot be parsed     *)
(* ends the worker.                                                        *)
(***************************************************************************)
Rejection(status) == status \in {"rejected", "refused"}
Counted(t, rejection) ==
  IF rejection THEN [t EXCEPT !.rejected = @ + 1] ELSE [t EXCEPT !.decoded = @ + 1]

(* Mutant: a record stands for itself only in a run that is not forced.    *)
MutantResumes(r) == files[Place(r)][Case(r)].state = "whole" /\ request[r].force

Resumes(r) == files[Place(r)][Case(r)].state # "absent" /\ ~request[r].force

(* Mutant: a record that cannot be parsed counts as a rejection.           *)
MutantParses(record) == TRUE

Parses(record) == record.state = "whole"

Examine(r) ==
  /\ pc[r] = "examine"
  /\ \/ at[r] > Len(Selected(r)) /\ WorkerEnds(r, "zero") /\ UNCHANGED <<at, tally>>
     \/ /\ at[r] <= Len(Selected(r)) /\ Resumes(r)
        /\ LET record == files[Place(r)][Case(r)]
           IN IF Parses(record)
              THEN /\ tally' = [tally EXCEPT ![r] = Counted(@, record.status = "rejected")]
                   /\ at' = [at EXCEPT ![r] = @ + 1]
                   /\ UNCHANGED <<pc, code>>
              ELSE WorkerEnds(r, "failed") /\ UNCHANGED <<at, tally>>
     \/ at[r] <= Len(Selected(r)) /\ ~Resumes(r) /\ Goto(r, "compile") /\ UNCHANGED <<at, tally, code>>
  /\ UNCHANGED <<request, held, files, made, report, root, pending>>

(* Compiling makes a record of one of the statuses given, unless something *)
(* fails that is not caught, which ends the worker.  write_text empties    *)
(* the file before it writes.                                              *)
Mint(r, statuses) ==
  /\ made' = made \cup ({r} \cap {Place(r)})
  /\ \/ \E status \in statuses :
          /\ held' = [held EXCEPT ![r] = status]
          /\ files' = [files EXCEPT ![Place(r)][Case(r)] = Open(r)]
          /\ Goto(r, "write")
          /\ UNCHANGED code
     \/ WorkerEnds(r, "failed") /\ UNCHANGED <<held, files>>
  /\ UNCHANGED <<request, at, tally, report, root, pending>>

(* A refusal, a timeout and an object the decoder refuses are rejections.  *)
RunCase(r) ==
  pc[r] = "compile" /\ Case(r) \notin request[r].driver.ceilings /\ Mint(r, {"decoded", "rejected"})

(* A ceiling probe's object is accepted whatever the decoder says.         *)
RunCeilingCase(r) ==
  pc[r] = "compile" /\ Case(r) \in request[r].driver.ceilings /\ Mint(r, {"accepted", "refused"})

Compile(r) == RunCase(r) \/ RunCeilingCase(r)

(* When another run closed the file meanwhile, its record shows behind a   *)
(* shorter one.                                                            *)
Written(r, file) ==
  {Whole(held[r], r)} \cup (IF file.state = "open" THEN {} ELSE {Torn(r)})

(* Mutant: a refused ceiling probe is in neither count.                    *)
MutantTallied(t, status) ==
  IF status = "refused" THEN t ELSE Counted(t, Rejection(status))

Tallied(t, status) == Counted(t, Rejection(status))

Write(r) ==
  /\ pc[r] = "write"
  /\ \E file \in Written(r, files[Place(r)][Case(r)]) : files' = [files EXCEPT ![Place(r)][Case(r)] = file]
  /\ tally' = [tally EXCEPT ![r] = Tallied(@, held[r])]
  /\ at' = [at EXCEPT ![r] = @ + 1]
  /\ Goto(r, "examine")
  /\ UNCHANGED <<request, held, made, report, root, pending, code>>

(* A layout run compiles every probe of every case before it writes one    *)
(* report; a probe the compiler refuses ends it, and so does no case.      *)
Layout(r) ==
  /\ pc[r] = "layout"
  /\ \/ /\ Selected(r) # <<>>
        /\ report' = [report EXCEPT ![Place(r)] = Selected(r)]
        /\ WorkerEnds(r, "zero")
     \/ WorkerEnds(r, "failed") /\ UNCHANGED report
  /\ UNCHANGED <<request, at, held, tally, files, made, root, pending>>

(* The connection breaks under the worker.                                 *)
LoseWorker(r) ==
  /\ request[r].remote
  /\ pc[r] \in {"listing", "examine", "compile", "write", "layout"}
  /\ WorkerEnds(r, "failed")
  /\ UNCHANGED <<request, at, held, tally, files, made, report, root, pending>>

(***************************************************************************)
(* Copying back, whether the worker failed or not, and removing the        *)
(* temporary directory.                                                    *)
(***************************************************************************)
Fetch(r) ==
  /\ pc[r] = "fetch"
  /\ \/ /\ IF request[r].layout
           THEN /\ report[r] # NoReport
                /\ report' = [report EXCEPT ![Shared] = report[r]]
                /\ UNCHANGED pending
                /\ Goto(r, "clean")
           ELSE /\ r \in made
                /\ pending' = [pending EXCEPT ![r] = {c \in Cases : files[r][c] # Absent}]
                /\ UNCHANGED report
                /\ Goto(r, "copy")
        /\ UNCHANGED code
     \/ Goto(r, "clean") /\ code' = [code EXCEPT ![r] = "failed"] /\ UNCHANGED <<report, pending>>
  /\ UNCHANGED <<request, at, held, tally, files, made, root>>

Copy(r) ==
  /\ pc[r] = "copy"
  /\ \/ \E c \in pending[r] :
          /\ files' = [files EXCEPT ![Shared][c] = files[r][c]]
          /\ pending' = [pending EXCEPT ![r] = @ \ {c}]
          /\ UNCHANGED pc
     \/ pending[r] = {} /\ Goto(r, "clean") /\ UNCHANGED <<files, pending>>
  /\ UNCHANGED <<request, at, held, tally, made, report, root, code>>

Clean(r) ==
  /\ pc[r] = "clean"
  /\ \E end \in {"gone", "left"} : root' = [root EXCEPT ![r] = end]
  /\ Goto(r, "ended")
  /\ UNCHANGED <<request, at, held, tally, files, made, report, pending, code>>

(* A kill leaves everything as it is; a file being copied stays short.     *)
Kill(r) ==
  /\ pc[r] \notin {"begin", "ended"}
  /\ Cardinality({q \in Runs : code[q] = "killed"}) < MaxKills
  /\ Ends(r, "killed")
  /\ \/ UNCHANGED files
     \/ \E c \in pending[r] : files' = [files EXCEPT ![Shared][c] = Open(r)]
  /\ UNCHANGED <<request, at, held, tally, made, report, root, pending>>

Step(r) ==
  \/ Begin(r) \/ MakeOutput(r) \/ CopyScripts(r) \/ List(r) \/ Examine(r) \/ Compile(r) \/ Write(r) \/ Layout(r)
  \/ Fetch(r) \/ Copy(r) \/ Clean(r)

Ended == (\A r \in Runs : pc[r] = "ended") /\ UNCHANGED vars

Next == (\E r \in Runs : Step(r) \/ LoseWorker(r) \/ Kill(r)) \/ Ended

(* The compiler is given a time limit, and ssh and scp return when the     *)
(* connection is lost: a run that is not killed takes its next step.       *)
Spec == Init /\ [][Next]_vars /\ \A r \in Runs : WF_vars(Step(r))

(***************************************************************************)
(* Properties.                                                             *)
(***************************************************************************)
Minting(r) == ~request[r].listing /\ ~request[r].layout
Began(r) == pc[r] # "begin"
Others(r) == {q \in Runs \ {r} : Began(q)}

(* A run that ends with zero leaves a whole record for every case it       *)
(* selected, its own if it is remote or forced, and a report for all of    *)
(* them if it is a layout run (whose report stays on the Mac when a        *)
(* listing was asked for as well), as far as no other run touched the same *)
(* cases.                                                                  *)
ExitZeroComplete ==
  \A r \in Runs : (pc[r] = "ended" /\ code[r] = "zero") =>
    /\ Minting(r) => \A c \in ToSet(Selected(r)) :
         \/ /\ files[Shared][c].state = "whole"
            /\ (request[r].remote \/ request[r].force) => files[Shared][c].by = r
         \/ \E q \in Others(r) : Minting(q) /\ c \in ToSet(Selected(q))
    /\ request[r].layout /\ ~(request[r].remote /\ request[r].listing) =>
         \/ Selected(r) # <<>> /\ report[Shared] = Selected(r)
         \/ \E q \in Others(r) : request[q].layout

(* The summary counts every selected case once, and what it says agrees    *)
(* with the records, except that a ceiling probe's refusal, found in an    *)
(* earlier record, counts as decoded.                                      *)
SummaryExact ==
  \A r \in Runs : (pc[r] = "ended" /\ code[r] = "zero" /\ Minting(r)) =>
    LET cases == ToSet(Selected(r))
        With(statuses) == {c \in cases : files[Shared][c].status \in statuses}
        found == {c \in With({"refused"}) : files[Shared][c].by # r}
    IN /\ tally[r].decoded + tally[r].rejected = Len(Selected(r))
       /\ \/ tally[r].decoded = Cardinality(With({"decoded", "accepted"})) + Cardinality(found)
          \/ \E q \in Others(r) : Minting(q) /\ ToSet(Selected(q)) \cap cases # {}

(* A record that stood before the runs is replaced by a forced run or by a *)
(* remote one only; a remote run replaces it whether forced or not.  And a *)
(* record a run closed is lost to no local unforced run that had not       *)
(* looked for it while it was absent.                                      *)
RecordsKept ==
  [][\A c \in Cases :
       (files[Shared][c].state = "whole" /\ files'[Shared][c] # files[Shared][c]) =>
         \E r \in Runs :
           /\ pc[r] \in {"compile", "write", "copy"}
           /\ request[r].remote \/ request[r].force \/ (files[Shared][c].by \in Runs \ {r} /\ Case(r) = c)]_vars

(* A run that is not killed removes the directory it made on the Mac, or   *)
(* tries to and has lost the connection, whatever failed before, except    *)
(* when it fails before it gets to copying scripts.                        *)
RootsRemoved ==
  \A r \in Runs :
    (root[r] = "there") ~> (root[r] \in {"gone", "left"} \/ code[r] \in {"killed", "stranded"})
=============================================================================
