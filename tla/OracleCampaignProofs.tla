------------------------- MODULE OracleCampaignProofs -------------------------
(***************************************************************************)
(* For any number of runs, any requests and any kills: the records that    *)
(* stand in the shared directory are replaced by nobody but a run that was *)
(* told to, a remote run, or a run that looked before they were there; a   *)
(* run that ends with zero leaves what it selected and tells what is in    *)
(* it, wherever no other run minted the same cases.                        *)
(***************************************************************************)
EXTENDS OracleCampaign, FiniteSetTheorems, TLAPS

Labels ==
  {"begin", "output", "scripts", "listing", "examine", "compile", "write", "layout",
   "fetch", "copy", "clean", "ended"}

(* Only a remote run that copies back, or was killed doing so, has files   *)
(* pending.                                                                *)
Control ==
  /\ pc \in [Runs -> Labels] /\ DOMAIN at = Runs
  /\ DOMAIN files = Places /\ \A p \in Places : DOMAIN files[p] = Cases
  /\ DOMAIN pending = Runs
  /\ \A r \in Runs : pending[r] # {} => pc[r] \in {"copy", "ended"}
  /\ \A r \in Runs : pending[r] \subseteq Cases
  /\ \A r \in Runs : pc[r] \in {"fetch", "copy"} => request[r].remote

(* What lies in the directory of a remote run is that run's.               *)
OwnFiles ==
  \A r \in Runs : \A c \in Cases :
    files[r][c].state # "absent" => files[r][c].by = r

(* A record that is there although a local unforced run is about to write  *)
(* its case came from somebody else meanwhile.                             *)
Meanwhile ==
  \A r \in Runs :
    pc[r] \in {"compile", "write"} /\ ~ request[r].remote /\ ~ request[r].force =>
      \A c \in Cases :
        c = Case(r) /\ files[Shared][c].state # "absent" =>
          \/ files[Shared][c].by \in Runs \ {r}
          \/ pc[r] = "write" /\ files[Shared][c].by = r /\ files[Shared][c].state # "whole"

IInv == Control /\ OwnFiles /\ Meanwhile

--------------------------------------------------------------------------------
(* Who does what. *)

LEMMA SomeRun ==
  ASSUME [Next]_vars
  PROVE  \/ \E r \in Runs : Step(r) \/ LoseWorker(r) \/ Kill(r)
         \/ UNCHANGED vars
  BY DEF Next, Ended

LEMMA RequestKept == [Next]_vars => request' = request
<1>1. ASSUME NEW r \in Runs, Step(r) PROVE request' = request
  BY <1>1
     DEF Step, Begin, StartWorker, BeforeScripts, MakeOutput, CopyScripts, List,
         Examine, Compile, RunCase, RunCeilingCase, Mint, Write, Layout, Fetch,
              Copy, Clean
<1>2. ASSUME NEW r \in Runs, LoseWorker(r) \/ Kill(r) PROVE request' = request
  BY <1>2 DEF LoseWorker, Kill
<1> QED
  BY <1>1, <1>2, SomeRun DEF vars

(* A step of a run changes its own place in its program only, and leaves   *)
(* its own case alone while it compiles or writes.                         *)
LEMMA OwnPlace ==
  ASSUME Control, NEW r \in Runs, Step(r) \/ LoseWorker(r) \/ Kill(r)
  PROVE  /\ pc' \in [Runs -> Labels] /\ DOMAIN at' = Runs
         /\ \A q \in Runs \ {r} : pc'[q] = pc[q] /\ at'[q] = at[q] /\ pending'[q] = pending[q]
         /\ DOMAIN pending' = Runs
         /\ pc'[r] \in {"compile", "write"} => at'[r] = at[r]
         /\ pc'[r] = "compile" => pc[r] = "examine" /\ ~ Resumes(r) /\ files' = files
         /\ pc'[r] = "write" => Compile(r)
<1> USE DEF Control, Labels
<1>1. CASE Begin(r) \/ MakeOutput(r)
  BY <1>1
     DEF Begin, StartWorker, BeforeScripts, MakeOutput, WorkerEnds, Goto, Ends,
         Worker
<1>2. CASE CopyScripts(r)
  BY <1>2 DEF CopyScripts, StartWorker, WorkerEnds, Goto, Worker
<1>3. CASE List(r)
  BY <1>3 DEF List, WorkerEnds, Goto
<1>4. CASE Examine(r)
  BY <1>4 DEF Examine, WorkerEnds, Goto
<1>5. CASE Compile(r)
  BY <1>5 DEF Compile, RunCase, RunCeilingCase, Mint, WorkerEnds, Goto
<1>6. CASE Write(r)
  BY <1>6 DEF Write, Goto
<1>7. CASE Layout(r)
  BY <1>7 DEF Layout, WorkerEnds, Goto
<1>8. CASE LoseWorker(r)
  BY <1>8 DEF LoseWorker, WorkerEnds, Goto
<1>9. CASE Fetch(r)
  BY <1>9 DEF Fetch, Goto
<1>10. CASE Copy(r)
  BY <1>10 DEF Copy, Goto
<1>11. CASE Clean(r)
  BY <1>11 DEF Clean, Goto
<1>12. CASE Kill(r)
  BY <1>12 DEF Kill, Ends, Goto
<1> QED
  BY <1>1, <1>2, <1>3, <1>4, <1>5, <1>6, <1>7, <1>8, <1>9, <1>10, <1>11, <1>12 DEF Step

(* Nothing is copied back or half copied but by a remote run, and its own. *)
Fresh(r, file) == file.state \in {"open", "whole", "torn"} /\ file.by = r

LEMMA FilesChange ==
  ASSUME Control, NEW r \in Runs, Step(r) \/ LoseWorker(r) \/ Kill(r)
  PROVE  \/ files' = files
         \/ /\ pc[r] \in {"compile", "write"}
            /\ pc[r] = "compile" => pc'[r] = "write"
            /\ pc[r] = "write" => pc'[r] = "examine"
            /\ \E file : /\ Fresh(r, file)
                         /\ pc[r] = "compile" => file.state = "open"
                         /\ files' = [files EXCEPT ![Place(r)][Case(r)] = file]
         \/ /\ pc[r] = "copy" /\ request[r].remote
            /\ \E c \in Cases : \E file :
                 /\ file = files[r][c] \/ Fresh(r, file)
                 /\ files' = [files EXCEPT ![Shared][c] = file]
<1>1. CASE Compile(r)
  <2>1. CASE files' = files
    BY <2>1
  <2>2. CASE files' # files
    <3>1. /\ pc[r] = "compile" /\ pc'[r] = "write"
          /\ files' = [files EXCEPT ![Place(r)][Case(r)] = Open(r)]
      BY <1>1, <2>2
         DEF Compile, RunCase, RunCeilingCase, Mint, Goto, WorkerEnds, Control
    <3>2. Fresh(r, Open(r)) /\ Open(r).state = "open"
      BY DEF Fresh, Open
    <3> QED
      BY <3>1, <3>2
  <2> QED
    BY <2>1, <2>2
<1>2. CASE Write(r)
  <2>1. PICK file \in Written(r, files[Place(r)][Case(r)]) :
          files' = [files EXCEPT ![Place(r)][Case(r)] = file]
    BY <1>2 DEF Write
  <2>2. Fresh(r, file)
    <3>1. file = Whole(held[r], r) \/ file = Torn(r)
      BY <2>1 DEF Written
    <3>2. Fresh(r, Whole(held[r], r)) /\ Fresh(r, Torn(r))
      BY DEF Fresh, Whole, Torn
    <3> QED
      BY <3>1, <3>2
  <2>3. pc[r] = "write" /\ pc'[r] = "examine"
    BY <1>2 DEF Write, Goto, Control
  <2> QED
    BY <2>1, <2>2, <2>3
<1>3. CASE Copy(r)
  <2>1. pc[r] = "copy" /\ request[r].remote
    BY <1>3 DEF Copy, Control
  <2>2. CASE files' = files
    BY <2>2
  <2>3. CASE files' # files
    <3>1. PICK c \in pending[r] : files' = [files EXCEPT ![Shared][c] = files[r][c]]
      BY <1>3, <2>3 DEF Copy
    <3> QED
      BY <2>1, <3>1 DEF Control
  <2> QED
    BY <2>2, <2>3
<1>4. CASE Kill(r)
  <2>1. CASE files' = files
    BY <2>1
  <2>2. CASE files' # files
    <3>1. PICK c \in pending[r] : files' = [files EXCEPT ![Shared][c] = Open(r)]
      BY <1>4, <2>2 DEF Kill
    <3>2. pc[r] = "copy" /\ request[r].remote
      BY <1>4, <3>1 DEF Kill, Control
    <3>3. Fresh(r, Open(r))
      BY DEF Fresh, Open
    <3> QED
      BY <3>1, <3>2, <3>3 DEF Control
  <2> QED
    BY <2>1, <2>2
<1>5. CASE Begin(r) \/ MakeOutput(r) \/ CopyScripts(r) \/ List(r) \/ Examine(r) \/ Layout(r) \/ Fetch(r)
           \/ Clean(r) \/ LoseWorker(r)
  BY <1>5
     DEF Begin, StartWorker, BeforeScripts, MakeOutput, CopyScripts, List, Examine,
         Layout, Fetch, Clean, LoseWorker
<1> QED
  BY <1>1, <1>2, <1>3, <1>4, <1>5 DEF Step

LEMMA PlaceFacts ==
  ASSUME NEW r \in Runs
  PROVE  /\ Place(r) \in Places /\ Shared \in Places /\ r \in Places /\ r # Shared
         /\ Place(r) = Shared <=> ~ request[r].remote
         /\ request[r].remote => Place(r) = r
  BY CampaignAssumption DEF Place, Places

LEMMA InitInv == Init => IInv
<1> SUFFICES ASSUME Init PROVE IInv
  OBVIOUS
<1>1. Control
  BY DEF Init, Control, Labels
<1>2. OwnFiles
  <2>1. \A r \in Runs : \A c \in Cases : files[r][c] = Absent
    <3>1. PICK start \in Starts :
            files = [p \in Places |-> [c \in Cases |->
                      IF p = Shared /\ c \in DOMAIN start.before THEN start.before[c] ELSE Absent]]
      BY DEF Init
    <3>2. \A r \in Runs : r \in Places /\ r # Shared
      BY CampaignAssumption DEF Places
    <3> QED
      BY <3>1, <3>2
  <2>2. Absent.state = "absent"
    BY DEF Absent
  <2> QED
    BY <2>1, <2>2 DEF OwnFiles
<1>3. Meanwhile
  BY DEF Init, Meanwhile
<1> QED
  BY <1>1, <1>2, <1>3 DEF IInv

LEMMA ControlStep ==
  ASSUME Control, NEW r \in Runs, Step(r) \/ LoseWorker(r) \/ Kill(r), request' = request
  PROVE  Control'
<1>1. /\ pc' \in [Runs -> Labels] /\ DOMAIN at' = Runs /\ DOMAIN pending' = Runs
      /\ \A q \in Runs \ {r} : pc'[q] = pc[q] /\ pending'[q] = pending[q]
  BY OwnPlace
<1>2. DOMAIN files' = Places /\ \A p \in Places : DOMAIN files'[p] = Cases
  <2>1. CASE files' = files
    BY <2>1 DEF Control
  <2>2. ASSUME NEW p, NEW c, NEW file, files' = [files EXCEPT ![p][c] = file]
        PROVE  DOMAIN files' = Places /\ \A q \in Places : DOMAIN files'[q] = Cases
    BY <2>2 DEF Control
  <2>3. \/ files' = files
        \/ \E file : files' = [files EXCEPT ![Place(r)][Case(r)] = file]
        \/ \E c \in Cases : \E file : files' = [files EXCEPT ![Shared][c] = file]
    BY FilesChange
  <2> QED
    BY <2>1, <2>2, <2>3
<1>3. pending'[r] # {} => pc'[r] \in {"copy", "ended"}
  <2>Begin. CASE Begin(r) \/ MakeOutput(r)
    BY <2>Begin
       DEF Begin, StartWorker, BeforeScripts, MakeOutput, WorkerEnds, Goto, Ends,
           Worker, Control
  <2>CopyScripts. CASE CopyScripts(r)
    BY <2>CopyScripts DEF CopyScripts, StartWorker, WorkerEnds, Goto, Worker, Control
  <2>List. CASE List(r)
    BY <2>List DEF List, WorkerEnds, Goto, Control
  <2>Examine. CASE Examine(r)
    BY <2>Examine DEF Examine, WorkerEnds, Goto, Control
  <2>Compile. CASE Compile(r)
    BY <2>Compile DEF Compile, RunCase, RunCeilingCase, Mint, WorkerEnds, Goto, Control
  <2>Write. CASE Write(r)
    BY <2>Write DEF Write, Goto, Control
  <2>Layout. CASE Layout(r)
    BY <2>Layout DEF Layout, WorkerEnds, Goto, Control
  <2>LoseWorker. CASE LoseWorker(r)
    BY <2>LoseWorker DEF LoseWorker, WorkerEnds, Goto, Control
  <2>Fetch. CASE Fetch(r)
    BY <2>Fetch DEF Fetch, Goto, Control
  <2>Copy. CASE Copy(r)
    BY <2>Copy DEF Copy, Goto, Control
  <2>Clean. CASE Clean(r)
    BY <2>Clean DEF Clean, Goto, Control
  <2>Kill. CASE Kill(r)
    BY <2>Kill DEF Kill, Ends, Goto, Control
  <2> QED
    BY <2>Begin, <2>CopyScripts, <2>List, <2>Examine, <2>Compile, <2>Write, <2>Layout,
       <2>LoseWorker, <2>Fetch, <2>Copy, <2>Clean, <2>Kill
       DEF Step
<1>4. pending'[r] \subseteq Cases /\ (pc'[r] \in {"fetch", "copy"} => request[r].remote)
  <2>Begin. CASE Begin(r) \/ MakeOutput(r)
    BY <2>Begin
       DEF Begin, StartWorker, BeforeScripts, MakeOutput, WorkerEnds, Goto, Ends,
           Worker, Control, Labels
  <2>CopyScripts. CASE CopyScripts(r)
    BY <2>CopyScripts DEF CopyScripts, StartWorker, WorkerEnds, Goto, Worker, Control, Labels
  <2>List. CASE List(r)
    BY <2>List DEF List, WorkerEnds, Goto, Control, Labels
  <2>Examine. CASE Examine(r)
    BY <2>Examine DEF Examine, WorkerEnds, Goto, Control, Labels
  <2>Compile. CASE Compile(r)
    BY <2>Compile
       DEF Compile, RunCase, RunCeilingCase, Mint, WorkerEnds, Goto, Control, Labels
  <2>Write. CASE Write(r)
    BY <2>Write DEF Write, Goto, Control, Labels
  <2>Layout. CASE Layout(r)
    BY <2>Layout DEF Layout, WorkerEnds, Goto, Control, Labels
  <2>LoseWorker. CASE LoseWorker(r)
    BY <2>LoseWorker DEF LoseWorker, WorkerEnds, Goto, Control, Labels
  <2>Fetch. CASE Fetch(r)
    BY <2>Fetch DEF Fetch, Goto, Control, Labels
  <2>Copy. CASE Copy(r)
    BY <2>Copy DEF Copy, Goto, Control, Labels
  <2>Clean. CASE Clean(r)
    BY <2>Clean DEF Clean, Goto, Control, Labels
  <2>Kill. CASE Kill(r)
    BY <2>Kill DEF Kill, Ends, Goto, Control, Labels
  <2> QED
    BY <2>Begin, <2>CopyScripts, <2>List, <2>Examine, <2>Compile, <2>Write, <2>Layout,
       <2>LoseWorker, <2>Fetch, <2>Copy, <2>Clean, <2>Kill
       DEF Step
<1> QED
  BY <1>1, <1>2, <1>3, <1>4 DEF Control

LEMMA OwnFilesStep ==
  ASSUME Control, OwnFiles, NEW r \in Runs, Step(r) \/ LoseWorker(r) \/ Kill(r)
  PROVE  OwnFiles'
<1> SUFFICES ASSUME NEW q \in Runs, NEW c \in Cases, files'[q][c].state # "absent"
             PROVE  files'[q][c].by = q
  BY DEF OwnFiles
<1>1. CASE files'[q][c] = files[q][c]
  BY <1>1 DEF OwnFiles
<1>2. CASE files'[q][c] # files[q][c]
  <2>1. q \in Places /\ q # Shared
    BY PlaceFacts
  <2>2. PICK file : Fresh(r, file) /\ files' = [files EXCEPT ![Place(r)][Case(r)] = file]
    BY <1>2, <2>1, FilesChange DEF Control
  <2>3. q = Place(r) /\ c = Case(r) /\ files'[q][c] = file
    BY <1>2, <2>1, <2>2 DEF Control
  <2>4. q = r
    BY <2>1, <2>3, PlaceFacts
  <2> QED
    BY <2>2, <2>3, <2>4 DEF Fresh
<1> QED
  BY <1>1, <1>2

(* A changed file of the shared directory is of the run that changed it.   *)
LEMMA SharedChange ==
  ASSUME Control, OwnFiles, NEW r \in Runs, Step(r) \/ LoseWorker(r) \/ Kill(r),
         NEW c \in Cases, files'[Shared][c] # files[Shared][c]
  PROVE  /\ files'[Shared][c].state # "absent" => files'[Shared][c].by = r
         /\ \/ pc[r] = "copy" /\ request[r].remote
            \/ /\ pc[r] \in {"compile", "write"} /\ ~ request[r].remote /\ c = Case(r)
               /\ pc[r] = "compile" =>
                    pc'[r] = "write" /\ files'[Shared][c].state = "open"
               /\ pc[r] = "write" => pc'[r] = "examine"
<1>1. Shared \in Places
  BY DEF Places
<1>2. CASE pc[r] \in {"compile", "write"}
  <2>1. PICK file : /\ Fresh(r, file)
                    /\ pc[r] = "compile" => file.state = "open"
                    /\ files' = [files EXCEPT ![Place(r)][Case(r)] = file]
    BY <1>2, FilesChange
  <2>2. Shared = Place(r) /\ c = Case(r) /\ files'[Shared][c] = file
    BY <1>1, <2>1 DEF Control
  <2>3. ~ request[r].remote
    BY <2>2, PlaceFacts
  <2>4. /\ pc[r] = "compile" => pc'[r] = "write"
        /\ pc[r] = "write" => pc'[r] = "examine"
    BY <1>2, FilesChange
  <2> QED
    BY <1>2, <2>1, <2>2, <2>3, <2>4 DEF Fresh
<1>3. CASE pc[r] \notin {"compile", "write"}
  <2>1. pc[r] = "copy" /\ request[r].remote
    BY <1>3, FilesChange
  <2>0. PICK d \in Cases :
          \E file : /\ file = files[r][d] \/ Fresh(r, file)
                    /\ files' = [files EXCEPT ![Shared][d] = file]
    BY <1>3, FilesChange
  <2>2. PICK file :
          /\ file = files[r][d] \/ Fresh(r, file)
          /\ files' = [files EXCEPT ![Shared][d] = file]
    BY <2>0
  <2>3. c = d /\ files'[Shared][c] = file
    BY <1>1, <2>2 DEF Control
  <2> QED
    BY <2>1, <2>2, <2>3 DEF Fresh, OwnFiles
<1> QED
  BY <1>2, <1>3

LEMMA MeanwhileStep ==
  ASSUME IInv, NEW r \in Runs, Step(r) \/ LoseWorker(r) \/ Kill(r), request' = request
  PROVE  Meanwhile'
<1>0. Control /\ OwnFiles /\ Meanwhile
  BY DEF IInv
<1> SUFFICES ASSUME NEW q \in Runs, NEW c \in Cases, pc'[q] \in {"compile", "write"},
                    ~ request[q].remote, ~ request[q].force,
                    c = Case(q)', files'[Shared][c].state # "absent"
             PROVE  \/ files'[Shared][c].by \in Runs \ {q}
                    \/ /\ pc'[q] = "write" /\ files'[Shared][c].by = q
                       /\ files'[Shared][c].state # "whole"
  BY DEF Meanwhile
<1>1. CASE q # r
  <2>1. pc'[q] = pc[q] /\ Case(q)' = Case(q)
    BY <1>0, <1>1, OwnPlace DEF Case, Selected
  <2>2. CASE files'[Shared][c] = files[Shared][c]
    BY <1>0, <2>1, <2>2 DEF Meanwhile
  <2>3. CASE files'[Shared][c] # files[Shared][c]
    BY <1>0, <1>1, <2>3, SharedChange
  <2> QED
    BY <2>2, <2>3
<1>2. CASE q = r /\ pc'[q] = "compile"
  <2>1. /\ pc[r] = "examine" /\ ~ Resumes(r) /\ files' = files /\ Case(r)' = Case(r)
    BY <1>0, <1>2, OwnPlace DEF Case, Selected
  <2>2. Place(r) = Shared
    BY <1>2, PlaceFacts
  <2>3. files[Shared][c].state = "absent"
    BY <1>2, <2>1, <2>2 DEF Resumes
  <2> QED
    BY <2>1, <2>3
<1>3. CASE q = r /\ pc'[q] = "write"
  <2>1. Compile(r) /\ Case(r)' = Case(r)
    BY <1>0, <1>3, OwnPlace DEF Case, Selected
  <2>2. pc[r] = "compile"
    BY <2>1 DEF Compile, RunCase, RunCeilingCase, Mint
  <2>3. CASE files'[Shared][c] # files[Shared][c]
    <3>1. files'[Shared][c].by = r /\ files'[Shared][c].state = "open"
      BY <1>0, <2>2, <2>3, SharedChange
    <3> QED
      BY <1>3, <3>1
  <2>4. CASE files'[Shared][c] = files[Shared][c]
    BY <1>0, <1>3, <2>1, <2>2, <2>4 DEF Meanwhile
  <2> QED
    BY <2>3, <2>4
<1> QED
  BY <1>1, <1>2, <1>3

LEMMA InvStep == IInv /\ [Next]_vars => IInv'
<1> SUFFICES ASSUME IInv, [Next]_vars PROVE IInv'
  OBVIOUS
<1>1. request' = request
  BY RequestKept
<1>2. CASE \E r \in Runs : Step(r) \/ LoseWorker(r) \/ Kill(r)
  <2>1. PICK r \in Runs : Step(r) \/ LoseWorker(r) \/ Kill(r)
    BY <1>2
  <2>2. Control' /\ OwnFiles'
    BY <1>1, <2>1, ControlStep, OwnFilesStep DEF IInv
  <2> QED
    BY <1>1, <2>1, <2>2, MeanwhileStep DEF IInv
<1>3. CASE UNCHANGED vars
  BY <1>3 DEF vars, IInv, Control, OwnFiles, Meanwhile, Case, Selected
<1> QED
  BY <1>2, <1>3, SomeRun

--------------------------------------------------------------------------------

(* Whatever the runs do to each other, an own file stays a run's own, and  *)
(* a local unforced run writes over nothing it has seen.                   *)
THEOREM CampaignInvariant == Spec => []IInv
  BY InitInv, InvStep, PTL DEF Spec

(* A whole record is replaced by a forced or a remote run only, or by a    *)
(* run that looked for it before another run had closed it (run_case,      *)
(* main's copying back).                                                   *)
THEOREM RecordsAreKept == Spec => RecordsKept
<1> DEFINE Kept ==
      \A c \in Cases :
        (files[Shared][c].state = "whole" /\ files'[Shared][c] # files[Shared][c]) =>
          \E r \in Runs :
            /\ pc[r] \in {"compile", "write", "copy"}
            /\ request[r].remote \/ request[r].force
                 \/ (files[Shared][c].by \in Runs \ {r} /\ Case(r) = c)
<1>1. IInv /\ [Next]_vars => [Kept]_vars
  <2> SUFFICES ASSUME IInv, [Next]_vars, NEW c \in Cases,
                      files[Shared][c].state = "whole",
                      files'[Shared][c] # files[Shared][c]
               PROVE  \E r \in Runs :
                        /\ pc[r] \in {"compile", "write", "copy"}
                        /\ request[r].remote \/ request[r].force
                             \/ (files[Shared][c].by \in Runs \ {r} /\ Case(r) = c)
    OBVIOUS
  <2>1. PICK r \in Runs : Step(r) \/ LoseWorker(r) \/ Kill(r)
    BY SomeRun DEF vars
  <2>2. \/ pc[r] = "copy" /\ request[r].remote
        \/ pc[r] \in {"compile", "write"} /\ ~ request[r].remote /\ c = Case(r)
    BY <2>1, SharedChange DEF IInv
  <2>3. CASE pc[r] = "copy" /\ request[r].remote
    BY <2>3
  <2>4. CASE pc[r] \in {"compile", "write"} /\ ~ request[r].remote /\ c = Case(r)
    BY <2>4 DEF IInv, Meanwhile
  <2> QED
    BY <2>2, <2>3, <2>4
<1> QED
  BY CampaignInvariant, <1>1, PTL DEF Spec, RecordsKept

--------------------------------------------------------------------------------
(* The promise each run keeps while the others do what they will. *)

Working == {"examine", "compile", "write"}

(* Another run under way that mints case c.                                *)
Rival(r, c) == \E q \in Others(r) : Minting(q) /\ c \in ToSet(Selected(q))

(* The shared directory is the one where others write.                     *)
Disturbed(r, c) == ~ request[r].remote /\ Rival(r, c)

Route(r) ==
  /\ pc[r] \in Working => Minting(r)
  /\ pc[r] = "layout" => request[r].layout
  /\ at[r] \in 1 .. Len(Selected(r)) + 1
  /\ pc[r] \in {"compile", "write"} => at[r] <= Len(Selected(r))
  /\ code[r] = "zero" => pc[r] \in {"fetch", "copy", "clean", "ended"}
  /\ code[r] = "zero" /\ Minting(r) => at[r] = Len(Selected(r)) + 1
  /\ pc[r] = "ended" /\ pending[r] # {} => code[r] = "killed"
  /\ pc[r] = "listing" => request[r].listing /\ ~ request[r].layout
  /\ pc[r] = "copy" => ~ request[r].layout

(* A run writes records of the cases it selected.                          *)
Own(r) ==
  /\ \A c \in Cases : files[r][c] # Absent => Minting(r) /\ c \in ToSet(Selected(r))
  /\ \A c \in pending[r] : Minting(r) /\ c \in ToSet(Selected(r))

Standing(r, p, c) ==
  /\ files[p][c].state = "whole"
  /\ request[r].remote \/ request[r].force => files[p][c].by = r

Counting(r) == Minting(r) /\ (pc[r] \in {"begin", "output", "scripts"} \cup Working \/ code[r] = "zero")

(* The cases behind the run have records,                                  *)
Recorded(r) ==
  Counting(r) =>
    \A k \in 1 .. at[r] - 1 :
      Standing(r, Place(r), Selected(r)[k]) \/ Disturbed(r, Selected(r)[k])

(* the one it writes is open,                                              *)
UnderHand(r) ==
  pc[r] = "write" =>
    /\ held[r] \in Verdicts
    /\ files[Place(r)][Case(r)] = Open(r) \/ Disturbed(r, Case(r))

(* and those ahead are as they were.                                       *)
Untouched(r, file) == file.state = "absent" \/ (~ request[r].remote /\ file.by # r)

Ahead(r) ==
  Counting(r) =>
    \A k \in at[r] .. Len(Selected(r)) :
      (pc[r] = "write" => k # at[r]) =>
        Untouched(r, files[Place(r)][Selected(r)[k]]) \/ Disturbed(r, Selected(r)[k])

(* What a remote run copied back is what it had.                           *)
Brought(r) ==
  code[r] = "zero" /\ request[r].remote /\ Minting(r) /\ pc[r] \in {"copy", "clean", "ended"} =>
    \A c \in ToSet(Selected(r)) :
      c \in pending[r] \/ files[Shared][c] = files[r][c] \/ Rival(r, c)

Passed(r) == {Selected(r)[k] : k \in 1 .. at[r] - 1}

Decodes(r, file) ==
  file.status \in {"decoded", "accepted"} \/ (file.status = "refused" /\ file.by # r)

Tallies(r) ==
  Counting(r) =>
    /\ tally[r] \in [decoded : Nat, rejected : Nat]
    /\ tally[r].decoded + tally[r].rejected = at[r] - 1
    /\ \/ tally[r].decoded = Cardinality({c \in Passed(r) : Decodes(r, files[Place(r)][c])})
       \/ \E c \in ToSet(Selected(r)) : Disturbed(r, c)

Reported(r) ==
  request[r].layout /\ ~ (request[r].remote /\ request[r].listing) =>
    /\ report[r] \in {NoReport, Selected(r)}
    /\ code[r] = "zero" =>
         /\ Selected(r) # <<>>
         /\ pc[r] = "fetch" => report[r] = Selected(r)
         /\ pc[r] \in {"clean", "ended"} =>
              report[Shared] = Selected(r) \/ \E q \in Others(r) : request[q].layout

Typed ==
  /\ request \in [Runs -> Requests]
  /\ DOMAIN code = Runs /\ DOMAIN tally = Runs /\ DOMAIN held = Runs /\ DOMAIN report = Places
  /\ \A p \in Places : \A c \in Cases :
       files[p][c].state = "whole" => files[p][c].status \in Verdicts

RunInv(r) ==
  /\ Route(r) /\ Own(r) /\ Recorded(r) /\ UnderHand(r) /\ Ahead(r) /\ Brought(r)
  /\ Tallies(r) /\ Reported(r)

EachRun == \A r \in Runs : RunInv(r)

--------------------------------------------------------------------------------
(* The k-th of a set of positions. *)

Position(members, n) == Cardinality({m \in members : m <= n})

LEMMA RankFacts ==
  ASSUME NEW members, members \subseteq Nat, IsFiniteSet(members)
  PROVE  \A k \in 1 .. Cardinality(members) : \E n \in members : Position(members, n) = k
<1> DEFINE low(n) == {m \in members : m <= n}
           c == Cardinality(members)
           rank == [n \in members |-> Position(members, n)]
<1>1. c \in Nat
  BY FS_CardinalityType
<1>2. \A n \in members : /\ IsFiniteSet(low(n)) /\ Cardinality(low(n)) \in Nat
                         /\ Cardinality(low(n)) <= c
                         /\ Position(members, n) = Cardinality(low(n))
  <2> TAKE n \in members
  <2>1. low(n) \subseteq members
    OBVIOUS
  <2> HIDE DEF low
  <2>2. IsFiniteSet(low(n)) /\ Cardinality(low(n)) <= c
    BY <2>1, FS_Subset
  <2> QED BY <2>2, FS_CardinalityType DEF Position, low
<1>3. \A n \in members : Cardinality(low(n)) >= 1
  <2> TAKE n \in members
  <2>1. n \in low(n)
    OBVIOUS
  <2>2. low(n) # {}
    BY <2>1
  <2> HIDE DEF low
  <2> QED BY <1>2, <2>2, FS_EmptySet
<1>4. \A n \in members : Position(members, n) \in 1 .. c
  <2> HIDE DEF c, low
  <2> QED BY <1>1, <1>2, <1>3
<1>5. \A m, n \in members : m < n => Cardinality(low(m)) < Cardinality(low(n))
  <2> SUFFICES ASSUME NEW m \in members, NEW n \in members, m < n
               PROVE  Cardinality(low(m)) < Cardinality(low(n))
    OBVIOUS
  <2>0. m \in Nat /\ n \in Nat /\ \A x \in members : x \in Nat
    OBVIOUS
  <2>1. low(m) \subseteq low(n) /\ n \in low(n) /\ n \notin low(m)
    <3>1. \A x \in members : x <= m => x <= n
      BY <2>0
    <3>2. ~ n <= m /\ n <= n
      BY <2>0
    <3> QED BY <3>1, <3>2
  <2>2. IsFiniteSet(low(n))
    BY <1>2
  <2> HIDE DEF low
  <2> QED BY <1>2, <2>1, <2>2, FS_Subset
<1>6. \A m, n \in members : Position(members, m) = Position(members, n) => m = n
  <2> SUFFICES ASSUME NEW m \in members, NEW n \in members, m # n
               PROVE  Position(members, m) # Position(members, n)
    OBVIOUS
  <2>1. m < n \/ n < m
    OBVIOUS
  <2> QED
    <3> HIDE DEF low
    <3> QED BY <2>1, <1>2, <1>5
<1>7. rank \in Injection(members, 1 .. c)
  BY <1>4, <1>6 DEF Injection, IsInjective
<1>8. IsFiniteSet(1 .. c) /\ Cardinality(1 .. c) = c
  BY <1>1, FS_Interval
<1>9. rank \in Surjection(members, 1 .. c)
  <2> HIDE DEF rank
  <2> QED BY <1>7, <1>8, FS_Injection
<1>10. \A k \in 1 .. c : \E n \in members : rank[n] = k
  <2> HIDE DEF rank
  <2> QED BY <1>9 DEF Surjection
<1> QED BY <1>10

LEMMA NthFacts ==
  ASSUME NEW members, members \subseteq Nat, IsFiniteSet(members)
  PROVE  \A k \in 1 .. Cardinality(members) :
           Nth(members, k) \in members /\ Position(members, Nth(members, k)) = k
<1>1. \A k \in 1 .. Cardinality(members) : \E n \in members : Position(members, n) = k
  BY RankFacts
<1>2. \A k : Nth(members, k) = CHOOSE n \in members : Position(members, n) = k
  BY DEF Nth, Position
<1>3. \A k \in 1 .. Cardinality(members) :
        Nth(members, k) \in members /\ Position(members, Nth(members, k)) = k
  <2> TAKE k \in 1 .. Cardinality(members)
  <2>1. \E n \in members : Position(members, n) = k
    BY <1>1
  <2> DEFINE x == CHOOSE n \in members : Position(members, n) = k
  <2>2. x \in members /\ Position(members, x) = k
    BY <2>1
  <2>3. Nth(members, k) = x
    BY <1>2
  <2> HIDE DEF x
  <2> QED BY <2>2, <2>3
<1> QED BY <1>3

--------------------------------------------------------------------------------
(* The cases a run selects. *)

LEMMA Campaigns ==
  ASSUME NEW d \in Drivers
  PROVE  /\ \E n \in Nat : DOMAIN d.campaign = 1 .. n
         /\ \A j, k \in DOMAIN d.campaign : d.campaign[j] = d.campaign[k] => j = k
         /\ \A k \in DOMAIN d.campaign : d.campaign[k] \in Cases
<1>1. d.campaign \in {<<"e1", "e2">>, <<"v1", "v2">>, <<"c1", "c2">>, <<"n1">>, <<"h1">>,
                      <<"m1">>, <<"w1">>}
  <2>1. \A c : Driver(c).campaign = c
    BY DEF Driver
  <2>2. /\ Envelope.campaign = Driver(<<"e1", "e2">>).campaign
        /\ Conv.campaign = Driver(<<"v1", "v2">>).campaign
        /\ Chain.campaign = Driver(<<"c1", "c2">>).campaign
    BY DEF Envelope, Conv, Chain, Driver
  <2>3. /\ Norm.campaign = Driver(<<"n1">>).campaign
        /\ H14Norm.campaign = Driver(<<"h1">>).campaign
        /\ Matvec.campaign = Driver(<<"m1">>).campaign
        /\ H14Matvec.campaign = Driver(<<"w1">>).campaign
    BY DEF Norm, H14Norm, Matvec, H14Matvec
  <2> HIDE DEF Driver
  <2>4. \/ d = Envelope \/ d = Conv \/ d = Chain \/ d = Norm \/ d = H14Norm
        \/ d = Matvec \/ d = H14Matvec
    BY DEF Drivers
  <2> QED BY ONLY <2>1, <2>2, <2>3, <2>4
<1>2. \E n \in {1, 2} : DOMAIN d.campaign = 1 .. n
  BY <1>1
<1>3. \A j, k \in DOMAIN d.campaign : d.campaign[j] = d.campaign[k] => j = k
  BY <1>1
<1>4. \A k \in DOMAIN d.campaign : d.campaign[k] \in Cases
  BY DEF Cases, ToSet
<1> QED BY <1>2, <1>3, <1>4

(* Each selected case is one of the campaign's, and is selected once.       *)
Chosen(s) ==
  /\ Len(s) \in Nat /\ DOMAIN s = 1 .. Len(s)
  /\ \A k \in 1 .. Len(s) : s[k] \in Cases
  /\ \A j, k \in 1 .. Len(s) : s[j] = s[k] => j = k
  /\ ToSet(s) = {s[k] : k \in 1 .. Len(s)}

LEMMA SelectionFacts ==
  ASSUME NEW asked \in Requests
  PROVE  Chosen(Selection(asked))
<1> DEFINE campaign == asked.driver.campaign
           matching == {k \in DOMAIN campaign : campaign[k] \in asked.pattern}
           n == Cardinality(matching)
           m == IF asked.limit < n THEN asked.limit ELSE n
           s == [k \in 1..m |-> campaign[Nth(matching, k)]]
<1>1. asked.driver \in Drivers /\ asked.limit \in Nat
  BY DEF Requests
<1>2. PICK d \in Nat : DOMAIN campaign = 1 .. d
  BY <1>1, Campaigns
<1>3. matching \subseteq Nat /\ IsFiniteSet(matching)
  <2>1. matching \subseteq 1 .. d /\ 1 .. d \subseteq Nat
    BY <1>2
  <2> HIDE DEF matching
  <2>2. IsFiniteSet(1 .. d)
    BY <1>2, FS_Interval
  <2> QED BY <2>1, <2>2, FS_Subset
<1>4. n \in Nat
  BY <1>3, FS_CardinalityType
<1>5. m \in Nat /\ 1 .. m \subseteq 1 .. n
  <2> HIDE DEF n
  <2> QED BY <1>1, <1>4
<1>6. \A k \in 1 .. n : Nth(matching, k) \in matching /\ Position(matching, Nth(matching, k)) = k
  <2> HIDE DEF matching
  <2> QED BY <1>3, NthFacts
<1>7. \A k \in 1 .. m : s[k] = campaign[Nth(matching, k)] /\ Nth(matching, k) \in DOMAIN campaign
  <2>1. \A j \in matching : j \in DOMAIN campaign
    OBVIOUS
  <2> HIDE DEF matching, n, campaign
  <2> QED BY <1>5, <1>6, <2>1
<1>8. \A k \in 1 .. m : s[k] \in Cases
  <2> HIDE DEF matching, m, s
  <2> QED BY <1>1, <1>7, Campaigns
<1>9. \A j, k \in 1 .. m : s[j] = s[k] => j = k
  <2> SUFFICES ASSUME NEW j \in 1 .. m, NEW k \in 1 .. m, s[j] = s[k]
               PROVE  j = k
    OBVIOUS
  <2> HIDE DEF s, m, matching
  <2>1. Nth(matching, j) = Nth(matching, k)
    BY <1>1, <1>7, Campaigns
  <2> QED BY <1>5, <1>6, <2>1
<1>10. s \in Seq(Cases) /\ Len(s) = m /\ DOMAIN s = 1 .. m
  <2> HIDE DEF m, matching, campaign
  <2>1. \A k \in 1 .. m : campaign[Nth(matching, k)] \in Cases
    BY <1>7, <1>8
  <2> QED BY <1>5, <2>1
<1>11. Selection(asked) = s
  BY DEF Selection
<1> HIDE DEF s, m
<1>12. Chosen(s)
  BY <1>5, <1>8, <1>9, <1>10 DEF Chosen, ToSet
<1> QED BY <1>11, <1>12

LEMMA SelectedFacts ==
  ASSUME Typed, NEW r \in Runs
  PROVE  Chosen(Selected(r))
BY SelectionFacts DEF Typed, Selected

--------------------------------------------------------------------------------
(* What the others do to a run. *)

LEMMA RivalStays ==
  ASSUME Control, NEW r \in Runs, Step(r) \/ LoseWorker(r) \/ Kill(r), request' = request,
         NEW q \in Runs
  PROVE  /\ pc[q] # "begin" => pc'[q] # "begin"
         /\ pc'[r] # "begin"
         /\ Others(q) \subseteq Others(q)'
         /\ \A c : Rival(q, c) => Rival(q, c)'
<1>1. pc'[r] # "begin"
  <2>1. CASE Begin(r) \/ MakeOutput(r)
    BY <2>1
       DEF Begin, StartWorker, BeforeScripts, MakeOutput, WorkerEnds, Goto, Ends,
           Worker, Control
  <2>2. CASE ~ (Begin(r) \/ MakeOutput(r))
    BY <2>2
       DEF Step, CopyScripts, StartWorker, List, Examine, Compile, RunCase, RunCeilingCase, Mint, Write, Layout, Fetch, Copy,
           Clean,
                LoseWorker, Kill, WorkerEnds, Goto, Ends, Worker, Control
  <2> QED BY <2>1, <2>2
<1>2. \A p \in Runs : pc[p] # "begin" => pc'[p] # "begin"
  BY <1>1, OwnPlace
<1>3. Others(q) \subseteq Others(q)'
  BY <1>2 DEF Others, Began
<1>4. \A p : Minting(p)' = Minting(p) /\ Selected(p)' = Selected(p)
  BY DEF Minting, Selected
<1>5. \A c : Rival(q, c) => Rival(q, c)'
  BY <1>3, <1>4 DEF Rival
<1> QED BY <1>1, <1>2, <1>3, <1>5

(* A run writes only what it mints.                                         *)
LEMMA Writes ==
  ASSUME Control, Typed, NEW r \in Runs, RunInv(r), Step(r) \/ LoseWorker(r) \/ Kill(r),
         NEW c \in Cases, files'[Shared][c] # files[Shared][c]
  PROVE  Minting(r) /\ c \in ToSet(Selected(r))
<1>1. Shared \in Places
  BY DEF Places
<1>2. CASE pc[r] \in {"compile", "write"}
  <2>1. \E file : files' = [files EXCEPT ![Place(r)][Case(r)] = file]
    BY <1>2, FilesChange
  <2>2. c = Case(r)
    BY <1>1, <2>1 DEF Control
  <2>3. Minting(r) /\ at[r] \in 1 .. Len(Selected(r))
    BY <1>2, SelectedFacts DEF RunInv, Route, Working, Chosen
  <2> QED BY <2>2, <2>3, SelectedFacts DEF Chosen, Case
<1>3. CASE Copy(r) \/ Kill(r)
  <2>1. PICK d \in pending[r] : \E file : files' = [files EXCEPT ![Shared][d] = file]
    BY <1>3 DEF Copy, Kill
  <2>2. c = d
    BY <1>1, <2>1 DEF Control
  <2> QED BY <2>1, <2>2 DEF RunInv, Own
<1>4. CASE pc[r] \notin {"compile", "write"} /\ ~ (Copy(r) \/ Kill(r))
  BY <1>4
     DEF Step, Begin, StartWorker, BeforeScripts, MakeOutput, CopyScripts, List, Examine, Compile, RunCase, RunCeilingCase, Mint, Write, Layout, Fetch,
         Clean,
              LoseWorker
<1> QED BY <1>2, <1>3, <1>4

(* What run q sees of another run's step.                                   *)
Quiet(q) ==
  /\ pc'[q] = pc[q] /\ at'[q] = at[q] /\ code'[q] = code[q] /\ tally'[q] = tally[q]
  /\ held'[q] = held[q] /\ pending'[q] = pending[q] /\ report'[q] = report[q]
  /\ \A c \in Cases : files'[q][c] = files[q][c]
  /\ \A c \in Cases : files'[Shared][c] = files[Shared][c] \/ Rival(q, c)'
  /\ report'[Shared] = report[Shared] \/ \E p \in Others(q)' : request[p].layout


LEMMA QuietSeen ==
  ASSUME Control, Typed, NEW r \in Runs, RunInv(r), Step(r) \/ LoseWorker(r) \/ Kill(r),
         request' = request, NEW q \in Runs \ {r}
  PROVE  Quiet(q)
<1>1. q # r /\ q \in Places /\ q # Shared /\ Shared \in Places /\ q # Place(r)
  BY PlaceFacts DEF Place
<1>2. pc'[q] = pc[q] /\ at'[q] = at[q] /\ pending'[q] = pending[q] /\ pc'[r] # "begin"
  BY OwnPlace, RivalStays
<1>3. code'[q] = code[q] /\ tally'[q] = tally[q] /\ held'[q] = held[q]
  BY
     DEF Step, Begin, StartWorker, BeforeScripts, MakeOutput, CopyScripts, List, Examine, Compile, RunCase, RunCeilingCase, Mint, Write, Layout, Fetch,
         Copy, Clean,
         LoseWorker, Kill, WorkerEnds, Ends, Typed
<1>4. report'[q] = report[q] /\ (report'[Shared] = report[Shared] \/ request[r].layout)
  <2>1. CASE report' = report
    BY <2>1
  <2>2. CASE Layout(r)
    <3>1. request[r].layout
      BY <2>2 DEF Layout, RunInv, Route
    <3> QED BY <1>1, <2>2, <3>1 DEF Layout, Typed
  <2>3. CASE Fetch(r)
    BY <1>1, <2>3 DEF Fetch, Typed
  <2> QED
    BY <2>1, <2>2, <2>3
       DEF Step, Begin, StartWorker, BeforeScripts, MakeOutput, CopyScripts, List, Examine, Compile, RunCase, RunCeilingCase, Mint, Write, Copy, Clean,
           LoseWorker, Kill
<1>5. \A c \in Cases : files'[q][c] = files[q][c]
  <2>1. CASE files' = files
    BY <2>1
  <2>2. ASSUME NEW p, NEW c, NEW file, files' = [files EXCEPT ![p][c] = file], p # q
        PROVE  \A d \in Cases : files'[q][d] = files[q][d]
    BY <1>1, <2>2 DEF Control
  <2>3. \/ files' = files
        \/ \E file : files' = [files EXCEPT ![Place(r)][Case(r)] = file]
        \/ \E c \in Cases : \E file : files' = [files EXCEPT ![Shared][c] = file]
    BY FilesChange
  <2> QED
    BY <1>1, <2>1, <2>2, <2>3
<1>6. r \in Others(q)'
  BY <1>2 DEF Others, Began
<1>7. \A c \in Cases : files'[Shared][c] = files[Shared][c] \/ Rival(q, c)'
  <2> SUFFICES ASSUME NEW c \in Cases, files'[Shared][c] # files[Shared][c]
               PROVE  Rival(q, c)'
    OBVIOUS
  <2>1. Minting(r) /\ c \in ToSet(Selected(r))
    BY Writes
  <2>2. Minting(r)' /\ c \in ToSet(Selected(r))'
    BY <2>1 DEF Minting, Selected
  <2> QED BY <1>6, <2>2 DEF Rival
<1>8. report'[Shared] = report[Shared] \/ \E p \in Others(q)' : request[p].layout
  BY <1>4, <1>6
<1> QED BY <1>2, <1>3, <1>4, <1>5, <1>7, <1>8 DEF Quiet

(* A file of q's place is as it was, or another run mints the case.         *)
LEMMA QuietFiles ==
  ASSUME NEW q \in Runs, Quiet(q), NEW c \in Cases, request' = request
  PROVE  files'[Place(q)][c] = files[Place(q)][c] \/ Disturbed(q, c)'
BY DEF Quiet, Place, Disturbed

LEMMA QuietKeeps ==
  ASSUME Typed, NEW q \in Runs, RunInv(q), Quiet(q), request' = request,
         \A c : Rival(q, c) => Rival(q, c)', Others(q) \subseteq Others(q)'
  PROVE  RunInv(q)'
<1> DEFINE s == Selected(q)
<1>1. /\ Selected(q)' = s /\ Minting(q)' = Minting(q) /\ Case(q)' = Case(q)
      /\ Place(q)' = Place(q) /\ Chosen(s) /\ Passed(q)' = Passed(q)
      /\ Counting(q)' = Counting(q)
  BY SelectedFacts DEF Selected, Minting, Case, Place, Quiet, Passed, Counting
<1>2. \A c : Disturbed(q, c) => Disturbed(q, c)'
  BY DEF Disturbed
<1>3. \A k \in 1 .. Len(s) :
        files'[Place(q)][s[k]] = files[Place(q)][s[k]] \/ Disturbed(q, s[k])'
  BY <1>1, QuietFiles DEF Chosen
<1>4. at[q] \in 1 .. Len(s) + 1 /\ Len(s) \in Nat /\ at'[q] = at[q]
  BY <1>1 DEF RunInv, Route, Quiet, Chosen
<1>5. Route(q)'
  <2> HIDE DEF s
  <2> QED BY <1>1 DEF RunInv, Route, Quiet, s
<1>6. Own(q)'
  BY <1>1 DEF RunInv, Own, Quiet
<1>7. Recorded(q)'
  <2> SUFFICES ASSUME Counting(q), NEW k \in 1 .. at[q] - 1
               PROVE  Standing(q, Place(q), s[k])' \/ Disturbed(q, s[k])'
    BY <1>1, <1>4 DEF Recorded
  <2>1. k \in 1 .. Len(s)
    BY <1>4
  <2>2. Standing(q, Place(q), s[k]) \/ Disturbed(q, s[k])
    BY DEF RunInv, Recorded
  <2> QED BY <1>1, <1>2, <1>3, <2>1, <2>2 DEF Standing
<1>8. UnderHand(q)'
  <2> SUFFICES ASSUME pc[q] = "write"
               PROVE  /\ held[q] \in Verdicts
                      /\ files'[Place(q)][Case(q)] = Open(q) \/ Disturbed(q, Case(q))'
    BY <1>1 DEF UnderHand, Quiet
  <2>1. at[q] \in 1 .. Len(s) /\ Case(q) = s[at[q]]
    BY <1>4 DEF RunInv, Route, Case
  <2> QED BY <1>1, <1>2, <1>3, <2>1 DEF RunInv, UnderHand
<1>9. Ahead(q)'
  <2> SUFFICES ASSUME Counting(q), NEW k \in at[q] .. Len(s), pc[q] = "write" => k # at[q]
               PROVE  Untouched(q, files'[Place(q)][s[k]]) \/ Disturbed(q, s[k])'
    BY <1>1, <1>4 DEF Ahead, Untouched, Quiet
  <2>1. k \in 1 .. Len(s)
    BY <1>4
  <2>2. Untouched(q, files[Place(q)][s[k]]) \/ Disturbed(q, s[k])
    BY DEF RunInv, Ahead
  <2> QED BY <1>1, <1>2, <1>3, <2>1, <2>2
<1>10. Brought(q)'
  <2> SUFFICES ASSUME code[q] = "zero", request[q].remote, Minting(q),
                      pc[q] \in {"copy", "clean", "ended"}, NEW c \in ToSet(s)
               PROVE  c \in pending[q] \/ files'[Shared][c] = files'[q][c] \/ Rival(q, c)'
    BY <1>1 DEF Brought, Quiet
  <2>1. c \in Cases
    BY <1>1 DEF Chosen
  <2>2. c \in pending[q] \/ files[Shared][c] = files[q][c] \/ Rival(q, c)
    BY DEF RunInv, Brought
  <2> QED BY <2>1, <2>2 DEF Quiet
<1>11. Tallies(q)'
  <2> SUFFICES ASSUME Counting(q), \A c \in ToSet(s) : ~ Disturbed(q, c)'
               PROVE  tally[q].decoded
                        = Cardinality({c \in Passed(q) : Decodes(q, files'[Place(q)][c])})
    BY <1>1 DEF RunInv, Tallies, Quiet, Decodes
  <2>1. \A c \in ToSet(s) : c \in Cases /\ ~ Disturbed(q, c)
    BY <1>1, <1>2 DEF Chosen
  <2>2. Passed(q) \subseteq ToSet(s)
    BY <1>1, <1>4 DEF Passed, Chosen
  <2>3. \A c \in Passed(q) : files'[Place(q)][c] = files[Place(q)][c]
    BY <2>1, <2>2, QuietFiles
  <2>4. {c \in Passed(q) : Decodes(q, files'[Place(q)][c])}
          = {c \in Passed(q) : Decodes(q, files[Place(q)][c])}
    BY <2>3
  <2> QED BY <2>1, <2>4 DEF RunInv, Tallies
<1>12. Reported(q)'
  <2> HIDE DEF s
  <2> QED BY <1>1 DEF RunInv, Reported, Quiet, s
<1> QED BY <1>5, <1>6, <1>7, <1>8, <1>9, <1>10, <1>11, <1>12 DEF RunInv


--------------------------------------------------------------------------------
(* What a run does itself. *)

(* No run is another's rival because of what that one does.                 *)
LEMMA RivalsSame ==
  ASSUME Control, NEW r \in Runs, Step(r) \/ LoseWorker(r) \/ Kill(r), request' = request
  PROVE  /\ Others(r)' = Others(r)
         /\ \A c : Rival(r, c)' = Rival(r, c) /\ Disturbed(r, c)' = Disturbed(r, c)
<1>1. Others(r)' = Others(r)
  BY OwnPlace DEF Others, Began
<1>2. \A p : Minting(p)' = Minting(p) /\ Selected(p)' = Selected(p)
  BY DEF Minting, Selected
<1>3. \A c : Rival(r, c)' = Rival(r, c)
  BY <1>1, <1>2 DEF Rival
<1> QED BY <1>1, <1>3 DEF Disturbed

Same(r) ==
  /\ at'[r] = at[r] /\ pending'[r] = pending[r]
  /\ \A c \in Cases : files'[r][c] = files[r][c]

(* The run gives up, or is killed.                                          *)
LEMMA Fails ==
  ASSUME Control, Typed, NEW r \in Runs, RunInv(r), request' = request, Same(r),
         report'[r] = report[r],
         code'[r] \in {"failed", "killed", "stranded"}, pc'[r] \in {"fetch", "clean", "ended"},
         pending[r] # {} /\ pc'[r] = "ended" => code'[r] = "killed"
  PROVE  RunInv(r)'
<1>1. Selected(r)' = Selected(r) /\ Minting(r)' = Minting(r) /\ code'[r] # "zero"
  BY DEF Selected, Minting
<1>2. ~ Counting(r)'
  BY <1>1 DEF Counting, Working
<1>3. Route(r)'
  BY <1>1 DEF RunInv, Route, Same, Working
<1>4. Own(r)'
  BY <1>1 DEF RunInv, Own, Same
<1>5. Recorded(r)' /\ UnderHand(r)' /\ Ahead(r)' /\ Brought(r)' /\ Tallies(r)' /\ Reported(r)'
  BY <1>1, <1>2 DEF RunInv, Recorded, UnderHand, Ahead, Brought, Tallies, Reported
<1> QED BY <1>3, <1>4, <1>5 DEF RunInv

(* The run goes on to its worker or to the compilation of a case.           *)
LEMMA GoesOn ==
  ASSUME Control, Typed, NEW r \in Runs, RunInv(r), request' = request,
         files' = files, at' = at, tally' = tally, pending' = pending, report' = report,
         code' = code, pc[r] \in {"begin", "output", "scripts", "examine"},
         Others(r)' = Others(r), \A c : Disturbed(r, c)' = Disturbed(r, c),
         pc'[r] \in {"output", "scripts", "listing", "layout", "examine", "compile"},
         pc'[r] \in Working => Minting(r),
         pc'[r] = "layout" => request[r].layout,
         pc'[r] = "listing" => request[r].listing /\ ~ request[r].layout,
         pc'[r] = "compile" => at[r] <= Len(Selected(r))
  PROVE  RunInv(r)'
<1>1. /\ Selected(r)' = Selected(r) /\ Minting(r)' = Minting(r) /\ Place(r)' = Place(r)
      /\ Passed(r)' = Passed(r) /\ code[r] # "zero"
  BY DEF Selected, Minting, Place, Passed, RunInv, Route
<1>2. Counting(r)' => Counting(r)
  BY <1>1 DEF Counting, Working
<1>3. Route(r)'
  BY <1>1 DEF RunInv, Route
<1>4. Own(r)'
  BY <1>1 DEF RunInv, Own
<1>5. Recorded(r)'
  BY <1>1, <1>2 DEF RunInv, Recorded, Standing
<1>6. UnderHand(r)' /\ Brought(r)' /\ Reported(r)'
  BY <1>1 DEF UnderHand, Brought, RunInv, Reported
<1>7. Ahead(r)'
  BY <1>1, <1>2 DEF RunInv, Ahead, Untouched
<1>8. Tallies(r)'
  BY <1>1, <1>2 DEF RunInv, Tallies, Decodes
<1> QED BY <1>3, <1>4, <1>5, <1>6, <1>7, <1>8 DEF RunInv

(* The worker ends with zero, its records all made.                         *)
LEMMA EndsWell ==
  ASSUME Control, Typed, NEW r \in Runs, RunInv(r), request' = request,
         files' = files, at' = at, tally' = tally, pending' = pending, report' = report,
         pc[r] = "examine", at[r] > Len(Selected(r)), code'[r] = "zero",
         \A c : Disturbed(r, c)' = Disturbed(r, c),
         pc'[r] = IF request[r].remote THEN "fetch" ELSE "ended"
  PROVE  RunInv(r)'
<1>1. /\ Selected(r)' = Selected(r) /\ Minting(r)' = Minting(r) /\ Place(r)' = Place(r)
      /\ Passed(r)' = Passed(r) /\ Minting(r) /\ Len(Selected(r)) \in Nat
      /\ pending[r] = {}
  BY SelectedFacts
     DEF Selected, Minting, Place, Passed, RunInv, Route, Working, Chosen, Control
<1>2. Counting(r) /\ at[r] = Len(Selected(r)) + 1
  BY <1>1 DEF Counting, Working, RunInv, Route
<1>3. Route(r)'
  BY <1>1, <1>2 DEF RunInv, Route, Working
<1>4. Own(r)'
  BY <1>1 DEF RunInv, Own
<1>5. Recorded(r)'
  BY <1>1, <1>2 DEF RunInv, Recorded, Standing
<1>6. UnderHand(r)' /\ Brought(r)' /\ Reported(r)'
  BY <1>1 DEF UnderHand, Brought, Reported, Minting
<1>7. Ahead(r)'
  BY <1>1, <1>2 DEF Ahead
<1>8. Tallies(r)'
  BY <1>1, <1>2 DEF RunInv, Tallies, Decodes
<1> QED BY <1>3, <1>4, <1>5, <1>6, <1>7, <1>8 DEF RunInv

(* The cases passed are finitely many, and the next one is a new one.       *)
Leading(s, n) == {s[k] : k \in 1 .. n}

LEMMA LeadingFinite ==
  ASSUME NEW s, NEW n \in Nat
  PROVE  IsFiniteSet(Leading(s, n))
<1> DEFINE f == [k \in 1 .. n |-> s[k]]
<1>1. f \in Surjection(1 .. n, Leading(s, n))
  BY DEF Surjection, Leading
<1>2. IsFiniteSet(1 .. n)
  BY FS_Interval
<1> HIDE DEF f
<1> QED BY <1>1, <1>2, FS_Surjection

LEMMA OneMore ==
  ASSUME NEW s, Chosen(s), NEW n \in 1 .. Len(s)
  PROVE  /\ IsFiniteSet(Leading(s, n - 1)) /\ s[n] \notin Leading(s, n - 1)
         /\ Leading(s, n) = Leading(s, n - 1) \cup {s[n]}
         /\ Leading(s, n - 1) \subseteq ToSet(s)
<1>1. Len(s) \in Nat /\ n \in Nat /\ n - 1 \in Nat
  BY DEF Chosen
<1>2. IsFiniteSet(Leading(s, n - 1))
  BY <1>1, LeadingFinite
<1>3. s[n] \notin Leading(s, n - 1)
  <2> SUFFICES ASSUME NEW k \in 1 .. n - 1 PROVE s[k] # s[n]
    BY DEF Leading
  <2>1. k \in 1 .. Len(s) /\ k # n
    BY <1>1
  <2> QED BY <2>1 DEF Chosen
<1>4. Leading(s, n) = Leading(s, n - 1) \cup {s[n]}
  <2>1. 1 .. n = (1 .. n - 1) \cup {n}
    BY <1>1
  <2> QED BY <2>1 DEF Leading
<1>5. Leading(s, n - 1) \subseteq ToSet(s)
  <2>1. 1 .. n - 1 \subseteq 1 .. Len(s)
    BY <1>1
  <2> QED BY <2>1 DEF Chosen, Leading
<1> QED BY <1>2, <1>3, <1>4, <1>5

LEMMA CountMore ==
  ASSUME NEW before, IsFiniteSet(before), NEW c, c \notin before, NEW D
  PROVE  /\ Cardinality({x \in before : x \in D}) \in Nat
         /\ Cardinality({x \in before \cup {c} : x \in D})
              = Cardinality({x \in before : x \in D}) + (IF c \in D THEN 1 ELSE 0)
<1> DEFINE S == {x \in before : x \in D}
<1>1. S \subseteq before
  OBVIOUS
<1>2. IsFiniteSet(S) /\ Cardinality(S) \in Nat
  <2> HIDE DEF S
  <2> QED BY <1>1, FS_Subset, FS_CardinalityType
<1>3. CASE c \in D
  <2>1. {x \in before \cup {c} : x \in D} = S \cup {c} /\ c \notin S
    BY <1>3
  <2> HIDE DEF S
  <2>2. Cardinality(S \cup {c}) = Cardinality(S) + 1
    BY <1>2, <2>1, FS_AddElement
  <2> QED BY <1>2, <1>3, <2>1, <2>2 DEF S
<1>4. CASE c \notin D
  <2>1. {x \in before \cup {c} : x \in D} = S
    BY <1>4
  <2>2. Cardinality({x \in before \cup {c} : x \in D}) = Cardinality(S)
    BY <2>1
  <2>3. Cardinality(S) + 0 = Cardinality(S)
    BY <1>2
  <2> QED BY <1>2, <1>4, <2>2, <2>3
<1> QED BY <1>3, <1>4

(* A case is done with: a record found there, or one written.               *)
LEMMA Advances ==
  ASSUME Control, Typed, NEW r \in Runs, RunInv(r), request' = request,
         pc[r] \in {"examine", "write"}, pc'[r] = "examine", at[r] <= Len(Selected(r)),
         at'[r] = at[r] + 1, code' = code, pending' = pending, report' = report,
         \A c : Disturbed(r, c)' = Disturbed(r, c),
         \A c \in Cases : c # Case(r) =>
           files'[Place(r)][c] = files[Place(r)][c] /\ files'[r][c] = files[r][c],
         NEW decodes \in BOOLEAN, tally'[r] = Counted(tally[r], ~ decodes),
         \/ Disturbed(r, Case(r))
         \/ /\ files'[Place(r)][Case(r)].state = "whole"
            /\ request[r].remote \/ request[r].force => files'[Place(r)][Case(r)].by = r
            /\ Decodes(r, files'[Place(r)][Case(r)]) = decodes
  PROVE  RunInv(r)'
<1> PICK s, n, c : s = Selected(r) /\ n = at[r] /\ c = s[n]
  OBVIOUS
<1>1. /\ Selected(r)' = s /\ Minting(r)' = Minting(r) /\ Place(r)' = Place(r)
      /\ Chosen(s) /\ Case(r) = c /\ code[r] # "zero" /\ Minting(r)
      /\ Counting(r) /\ at'[r] = n + 1
  BY SelectedFacts
     DEF Selected, Minting, Place, Case, RunInv, Route, Working, Counting
<1>2. n \in 1 .. Len(s) /\ Len(s) \in Nat
  BY <1>1 DEF RunInv, Route, Chosen
<1>3. c \in Cases /\ c \in ToSet(s) /\ \A k \in 1 .. Len(s) : k # n => s[k] # c /\ s[k] \in Cases
  BY <1>1, <1>2 DEF Chosen
<1>4. \A k \in 1 .. Len(s) : k # n => files'[Place(r)][s[k]] = files[Place(r)][s[k]]
  BY <1>1, <1>3
<1>5. Route(r)'
  BY <1>1, <1>2 DEF RunInv, Route
<1>6. Own(r)'
  BY <1>1, <1>3 DEF RunInv, Own
<1>7. Recorded(r)'
  <2> SUFFICES ASSUME NEW k \in 1 .. n
               PROVE  Standing(r, Place(r), s[k])' \/ Disturbed(r, s[k])
    BY <1>1, <1>2 DEF Recorded
  <2>1. CASE k = n
    BY <1>1, <2>1 DEF Standing
  <2>2. CASE k # n
    <3>1. k \in 1 .. n - 1 /\ k \in 1 .. Len(s)
      BY <1>2, <2>2
    <3>2. Standing(r, Place(r), s[k]) \/ Disturbed(r, s[k])
      BY <1>1, <3>1 DEF RunInv, Recorded
    <3> QED BY <1>1, <1>4, <2>2, <3>1, <3>2 DEF Standing
  <2> QED BY <2>1, <2>2
<1>8. UnderHand(r)' /\ Brought(r)' /\ Reported(r)'
  BY <1>1 DEF UnderHand, Brought, Reported, Minting
<1>9. Ahead(r)'
  <2> SUFFICES ASSUME NEW k \in n + 1 .. Len(s)
               PROVE  Untouched(r, files'[Place(r)][s[k]]) \/ Disturbed(r, s[k])
    BY <1>1, <1>2 DEF Ahead, Untouched
  <2>1. k \in n .. Len(s) /\ k \in 1 .. Len(s) /\ k # n
    BY <1>2
  <2>2. Untouched(r, files[Place(r)][s[k]]) \/ Disturbed(r, s[k])
    BY <1>1, <2>1 DEF RunInv, Ahead
  <2> QED BY <1>4, <2>1, <2>2
<1>10. Tallies(r)'
  <2>1. /\ tally[r] \in [decoded : Nat, rejected : Nat]
        /\ tally[r].decoded + tally[r].rejected = n - 1
    BY <1>1 DEF RunInv, Tallies
  <2>2. /\ tally'[r] \in [decoded : Nat, rejected : Nat]
        /\ tally'[r].decoded + tally'[r].rejected = n
        /\ tally'[r].decoded = tally[r].decoded + (IF decodes THEN 1 ELSE 0)
    <3>1. PICK t : t = tally[r]
      OBVIOUS
    <3>2. /\ t = [decoded |-> t.decoded, rejected |-> t.rejected]
          /\ t.decoded \in Nat /\ t.rejected \in Nat /\ t.decoded + t.rejected = n - 1
      BY <2>1, <3>1
    <3> PICK u : u = tally'[r]
      OBVIOUS
    <3> SUFFICES /\ u \in [decoded : Nat, rejected : Nat]
                 /\ u.decoded + u.rejected = n
                 /\ u.decoded = t.decoded + (IF decodes THEN 1 ELSE 0)
      BY <3>1
    <3>3. CASE decodes
      <4>1. u = [t EXCEPT !.decoded = @ + 1]
        BY <3>1, <3>3 DEF Counted
      <4>2. u = [decoded |-> t.decoded + 1, rejected |-> t.rejected]
        BY <3>2, <4>1
      <4> QED BY <1>2, <3>2, <3>3, <4>2
    <3>4. CASE ~ decodes
      <4>1. u = [t EXCEPT !.rejected = @ + 1]
        BY <3>1, <3>4 DEF Counted
      <4>2. u = [decoded |-> t.decoded, rejected |-> t.rejected + 1]
        BY <3>2, <4>1
      <4> QED BY <1>2, <3>2, <3>4, <4>2
    <3> QED BY <3>3, <3>4
  <2>3. ASSUME \A d \in ToSet(s) : ~ Disturbed(r, d)
        PROVE  tally'[r].decoded
                 = Cardinality({d \in Passed(r)' : Decodes(r, files'[Place(r)][d])})
    <3> DEFINE before == Leading(s, n - 1)
               D == {d \in Cases : Decodes(r, files'[Place(r)][d])}
    <3>1. /\ IsFiniteSet(before) /\ c \notin before /\ before \subseteq ToSet(s)
          /\ Leading(s, n) = before \cup {c}
      BY <1>1, <1>2, OneMore
    <3>2. Passed(r) = before /\ Passed(r)' = before \cup {c}
      <4>1. Passed(r) = Leading(s, n - 1)
        BY DEF Passed, Leading
      <4>2. Passed(r)' = Leading(Selected(r)', at'[r] - 1)
        BY DEF Passed, Leading
      <4>3. Passed(r)' = Leading(s, n + 1 - 1)
        <5>1. Selected(r)' = s /\ at'[r] - 1 = n + 1 - 1
          <6>1. at'[r] = n + 1
            BY <1>1
          <6> QED BY <1>1, <1>2, <6>1
        <5>2. Leading(Selected(r)', at'[r] - 1) = Leading(s, n + 1 - 1)
          BY <5>1, Zenon
        <5> QED BY <4>2, <5>2, Zenon
      <4>4. n + 1 - 1 = n
        BY <1>2
      <4> QED BY <3>1, <4>1, <4>3, <4>4
    <3>3. \A d \in before : d \in Cases /\ files'[Place(r)][d] = files[Place(r)][d]
      BY <1>1, <3>1 DEF Chosen
    <3>4. {d \in before : d \in D} = {d \in before : Decodes(r, files[Place(r)][d])}
      BY <3>3
    <3>5. {d \in before \cup {c} : d \in D}
            = {d \in Passed(r)' : Decodes(r, files'[Place(r)][d])}
      BY <1>3, <3>2, <3>3
    <3>6. (c \in D) = decodes
      BY <1>1, <1>3, <2>3
    <3>7. tally[r].decoded = Cardinality({d \in before : d \in D})
      BY <1>1, <2>3, <3>2, <3>4 DEF RunInv, Tallies
    <3> HIDE DEF before, D
    <3>8. Cardinality({d \in before \cup {c} : d \in D})
            = Cardinality({d \in before : d \in D}) + (IF c \in D THEN 1 ELSE 0)
      BY <3>1, CountMore
    <3> QED BY <2>2, <3>5, <3>6, <3>7, <3>8
  <2> QED BY <1>1, <1>2, <2>2, <2>3 DEF Tallies, Decodes
<1> QED BY <1>5, <1>6, <1>7, <1>8, <1>9, <1>10 DEF RunInv

(* The record is opened.                                                    *)
LEMMA Opens ==
  ASSUME Control, Typed, NEW r \in Runs, RunInv(r), request' = request,
         pc[r] = "compile", pc'[r] = "write", at' = at, code' = code, pending' = pending,
         report' = report, tally' = tally, held'[r] \in Verdicts,
         \A c : Disturbed(r, c)' = Disturbed(r, c),
         \A c \in Cases : c # Case(r) =>
           files'[Place(r)][c] = files[Place(r)][c] /\ files'[r][c] = files[r][c],
         files'[Place(r)][Case(r)] = Open(r)
  PROVE  RunInv(r)'
<1> PICK s, n, c : s = Selected(r) /\ n = at[r] /\ c = s[n]
  OBVIOUS
<1>1. /\ Selected(r)' = s /\ Minting(r)' = Minting(r) /\ Place(r)' = Place(r)
      /\ Passed(r)' = Passed(r) /\ Case(r)' = c
      /\ Chosen(s) /\ Case(r) = c /\ code[r] # "zero" /\ Minting(r) /\ Counting(r)
  BY SelectedFacts
     DEF Selected, Minting, Place, Case, Passed, RunInv, Route, Working, Counting
<1>2. n \in 1 .. Len(s) /\ Len(s) \in Nat
  BY <1>1 DEF RunInv, Route, Chosen
<1>3. c \in Cases /\ c \in ToSet(s) /\ \A k \in 1 .. Len(s) : k # n => s[k] # c /\ s[k] \in Cases
  BY <1>1, <1>2 DEF Chosen
<1>4. \A k \in 1 .. Len(s) : k # n => files'[Place(r)][s[k]] = files[Place(r)][s[k]]
  BY <1>1, <1>3
<1>5. Route(r)'
  BY <1>1, <1>2 DEF RunInv, Route, Working
<1>6. Own(r)'
  BY <1>1, <1>3 DEF RunInv, Own
<1>7. Recorded(r)'
  <2> SUFFICES ASSUME NEW k \in 1 .. n - 1
               PROVE  Standing(r, Place(r), s[k])' \/ Disturbed(r, s[k])
    BY <1>1 DEF Recorded
  <2>1. k \in 1 .. Len(s) /\ k # n
    BY <1>2
  <2>2. Standing(r, Place(r), s[k]) \/ Disturbed(r, s[k])
    BY <1>1 DEF RunInv, Recorded
  <2> QED BY <1>1, <1>4, <2>1, <2>2 DEF Standing
<1>8. UnderHand(r)' /\ Brought(r)' /\ Reported(r)'
  BY <1>1 DEF UnderHand, Brought, Reported, Minting, Open
<1>9. Ahead(r)'
  <2> SUFFICES ASSUME NEW k \in n .. Len(s), k # n
               PROVE  Untouched(r, files'[Place(r)][s[k]]) \/ Disturbed(r, s[k])
    BY <1>1 DEF Ahead, Untouched
  <2>1. k \in 1 .. Len(s)
    BY <1>2
  <2>2. Untouched(r, files[Place(r)][s[k]]) \/ Disturbed(r, s[k])
    BY <1>1 DEF RunInv, Ahead
  <2> QED BY <1>4, <2>1, <2>2
<1>10. Tallies(r)'
  <2>1. \A d \in Passed(r) : files'[Place(r)][d] = files[Place(r)][d]
    <3>1. \A k \in 1 .. n - 1 : k \in 1 .. Len(s) /\ k # n
      BY <1>2
    <3> QED BY <1>1, <1>4, <3>1 DEF Passed
  <2>2. {d \in Passed(r) : Decodes(r, files'[Place(r)][d])}
          = {d \in Passed(r) : Decodes(r, files[Place(r)][d])}
    BY <2>1
  <2> QED BY <1>1, <2>2 DEF RunInv, Tallies, Decodes
<1> QED BY <1>5, <1>6, <1>7, <1>8, <1>9, <1>10 DEF RunInv

(* Past its worker, or with nothing to mint, a run has only its report, and *)
(* what it brings back, to look after.                                      *)
LEMMA Settled ==
  ASSUME Typed, NEW r \in Runs, RunInv(r), request' = request,
         at'[r] = at[r], tally'[r] = tally[r], \A c : Disturbed(r, c)' = Disturbed(r, c),
         \A c \in Cases : files'[Place(r)][c] = files[Place(r)][c],
         ~ Minting(r) \/ (pc[r] \in {"fetch", "copy", "clean"} /\ code'[r] = code[r]),
         pc'[r] \in {"fetch", "copy", "clean", "ended"},
         Route(r)', Own(r)', Brought(r)', Reported(r)'
  PROVE  RunInv(r)'
<1>1. /\ Selected(r)' = Selected(r) /\ Minting(r)' = Minting(r) /\ Place(r)' = Place(r)
      /\ Passed(r)' = Passed(r) /\ Chosen(Selected(r))
  BY SelectedFacts DEF Selected, Minting, Place, Passed
<1>2. Counting(r)' => Minting(r) /\ Counting(r)
  BY <1>1 DEF Counting, Working
<1>3. at[r] \in 1 .. Len(Selected(r)) + 1 /\ Len(Selected(r)) \in Nat
  BY <1>1 DEF RunInv, Route, Chosen
<1>4. Recorded(r)'
  <2> SUFFICES ASSUME Counting(r), NEW k \in 1 .. at[r] - 1
               PROVE  Standing(r, Place(r), Selected(r)[k])' \/ Disturbed(r, Selected(r)[k])
    BY <1>1, <1>2 DEF Recorded
  <2>1. Selected(r)[k] \in Cases
    BY <1>1, <1>3 DEF Chosen
  <2>2. Standing(r, Place(r), Selected(r)[k]) \/ Disturbed(r, Selected(r)[k])
    BY DEF RunInv, Recorded
  <2> QED BY <1>1, <2>1, <2>2 DEF Standing
<1>5. UnderHand(r)'
  BY DEF UnderHand
<1>6. Ahead(r)'
  <2> SUFFICES ASSUME Counting(r), Minting(r), NEW k \in at[r] .. Len(Selected(r))
               PROVE  \/ Untouched(r, files'[Place(r)][Selected(r)[k]])
                      \/ Disturbed(r, Selected(r)[k])
    BY <1>1, <1>2 DEF Ahead, Untouched
  <2>1. Selected(r)[k] \in Cases
    BY <1>1, <1>3 DEF Chosen
  <2>2. pc[r] # "write"
    OBVIOUS
  <2> QED BY <2>1, <2>2 DEF RunInv, Ahead
<1>7. Tallies(r)'
  <2>1. \A c \in Passed(r) : c \in Cases
    BY <1>1, <1>3 DEF Passed, Chosen
  <2>2. {c \in Passed(r) : Decodes(r, files'[Place(r)][c])}
          = {c \in Passed(r) : Decodes(r, files[Place(r)][c])}
    BY <2>1
  <2> QED BY <1>1, <1>2, <2>2 DEF RunInv, Tallies, Decodes
<1> QED BY <1>4, <1>5, <1>6, <1>7 DEF RunInv

LEMMA ListKeeps ==
  ASSUME Control, Typed, NEW r \in Runs, RunInv(r), request' = request, List(r),
         \A c : Disturbed(r, c)' = Disturbed(r, c)
  PROVE  RunInv(r)'
<1>1. /\ request[r].listing /\ ~ request[r].layout /\ ~ Minting(r)
      /\ pending[r] = {} /\ pending' = pending
      /\ pc'[r] \in {"clean", "ended"} /\ files' = files /\ at' = at /\ tally' = tally
  BY DEF List, WorkerEnds, Goto, RunInv, Route, Minting, Control
<1>2. Selected(r)' = Selected(r) /\ Minting(r)' = Minting(r)
  BY DEF Selected, Minting
<1>3. Route(r)' /\ Own(r)' /\ Brought(r)' /\ Reported(r)'
  BY <1>1, <1>2 DEF RunInv, Route, Own, Brought, Reported, Working
<1> QED BY <1>1, <1>3, Settled

LEMMA LayoutKeeps ==
  ASSUME Control, Typed, NEW r \in Runs, RunInv(r), request' = request, Layout(r),
         Selected(r) # <<>>, report' = [report EXCEPT ![Place(r)] = Selected(r)],
         WorkerEnds(r, "zero"),
         \A c : Disturbed(r, c)' = Disturbed(r, c)
  PROVE  RunInv(r)'
<1>1. /\ request[r].layout /\ ~ Minting(r) /\ pending[r] = {}
      /\ pending' = pending /\ files' = files /\ at' = at /\ tally' = tally
      /\ pc'[r] = IF ~ request[r].remote THEN "ended"
                   ELSE IF request[r].listing THEN "clean" ELSE "fetch"
  BY DEF Layout, WorkerEnds, Goto, RunInv, Route, Minting, Control
<1>2. Selected(r)' = Selected(r) /\ Minting(r)' = Minting(r)
  BY DEF Selected, Minting
<1>3. Route(r)' /\ Own(r)' /\ Brought(r)'
  BY <1>1, <1>2 DEF RunInv, Route, Own, Brought, Working
<1>4. Reported(r)'
  <2>1. ~ request[r].remote => report[r] \in {NoReport, Selected(r)}
    BY <1>1 DEF RunInv, Reported
  <2>2. CASE request[r].remote
    <3>1. report'[r] = Selected(r) /\ (~ request[r].listing => pc'[r] = "fetch")
      BY <1>1, <2>2, PlaceFacts DEF Typed
    <3> QED BY <1>2, <2>2, <3>1 DEF Reported
  <2>3. CASE ~ request[r].remote
    <3>1. report'[r] = report[r] /\ report'[Shared] = Selected(r) /\ pc'[r] = "ended"
      BY <1>1, <2>3, PlaceFacts DEF Typed
    <3> QED BY <1>2, <2>1, <2>3, <3>1 DEF Reported
  <2> QED BY <2>2, <2>3
<1> QED BY <1>1, <1>3, <1>4, Settled

LEMMA FetchKeeps ==
  ASSUME Control, Typed, NEW r \in Runs, RunInv(r), request' = request, Fetch(r),
         code' = code, \A c : Disturbed(r, c)' = Disturbed(r, c),
         \/ /\ request[r].layout /\ report[r] # NoReport /\ pending' = pending
            /\ report' = [report EXCEPT ![Shared] = report[r]] /\ pc'[r] = "clean"
         \/ /\ ~ request[r].layout /\ report' = report /\ pc'[r] = "copy"
            /\ pending'[r] = {c \in Cases : files[r][c] # Absent}
  PROVE  RunInv(r)'
<1>1. /\ pc[r] = "fetch" /\ request[r].remote /\ pending[r] = {} /\ Place(r) = r /\ r # Shared
      /\ files' = files /\ at' = at /\ tally' = tally
  BY PlaceFacts DEF Fetch, Control
<1>2. Selected(r)' = Selected(r) /\ Minting(r)' = Minting(r)
  BY DEF Selected, Minting
<1>3. Route(r)'
  BY <1>1, <1>2 DEF RunInv, Route, Working
<1>4. Own(r)'
  BY <1>1, <1>2 DEF RunInv, Own
<1>5. Reported(r)'
  <2>1. CASE request[r].layout
    <3>1. report'[r] = report[r] /\ report'[Shared] = report[r] /\ pc'[r] = "clean"
      BY <1>1, <2>1, PlaceFacts DEF Typed
    <3> QED BY <1>1, <1>2, <2>1, <3>1 DEF RunInv, Reported
  <2>2. CASE ~ request[r].layout
    BY <2>2 DEF Reported
  <2> QED BY <2>1, <2>2
<1>6. Brought(r)'
  <2>1. CASE request[r].layout
    BY <2>1 DEF Brought, Minting
  <2>2. CASE ~ request[r].layout
    <3> SUFFICES ASSUME code[r] = "zero", Minting(r), NEW c \in ToSet(Selected(r))
                 PROVE  c \in pending'[r]
      BY <1>1, <1>2 DEF Brought
    <3>1. PICK k \in 1 .. Len(Selected(r)) : c = Selected(r)[k]
      BY SelectedFacts DEF Chosen
    <3>2. k \in 1 .. at[r] - 1 /\ c \in Cases
      BY <3>1, SelectedFacts DEF RunInv, Route, Chosen
    <3>3. Standing(r, r, c) \/ Disturbed(r, c)
      BY <1>1, <3>1, <3>2 DEF RunInv, Recorded, Counting
    <3>4. files[r][c].state = "whole"
      BY <1>1, <3>3 DEF Disturbed, Standing
    <3>5. files[r][c] # Absent
      <4>1. Absent.state = "absent"
        BY DEF Absent
      <4> QED BY <3>4, <4>1
    <3> QED BY <2>2, <3>2, <3>5
  <2> QED BY <2>1, <2>2
<1> QED BY <1>1, <1>3, <1>4, <1>5, <1>6, Settled

LEMMA CopyKeeps ==
  ASSUME Control, Typed, NEW r \in Runs, RunInv(r), request' = request, Copy(r),
         \A c : Disturbed(r, c)' = Disturbed(r, c) /\ Rival(r, c)' = Rival(r, c),
         \/ /\ pc'[r] = "copy"
            /\ \E d \in pending[r] : /\ files' = [files EXCEPT ![Shared][d] = files[r][d]]
                                     /\ pending'[r] = pending[r] \ {d}
         \/ /\ pc'[r] = "clean" /\ pending[r] = {} /\ pending' = pending /\ files' = files
  PROVE  RunInv(r)'
<1>1. /\ pc[r] = "copy" /\ request[r].remote /\ Place(r) = r /\ r # Shared
      /\ at' = at /\ tally' = tally /\ code' = code /\ report' = report
  BY PlaceFacts DEF Copy, Control
<1>2. Selected(r)' = Selected(r) /\ Minting(r)' = Minting(r)
  BY DEF Selected, Minting
<1>3. \A c \in Cases : files'[r][c] = files[r][c]
  BY <1>1, PlaceFacts DEF Control
<1>4. Route(r)'
  BY <1>1, <1>2 DEF RunInv, Route, Working
<1>5. Own(r)'
  BY <1>1, <1>2, <1>3 DEF RunInv, Own
<1>6. Reported(r)'
  BY <1>1 DEF RunInv, Route, Reported
<1>7. Brought(r)'
  <2> SUFFICES ASSUME code[r] = "zero", Minting(r), NEW c \in ToSet(Selected(r))
               PROVE  c \in pending'[r] \/ files'[Shared][c] = files'[r][c] \/ Rival(r, c)
    BY <1>1, <1>2 DEF Brought
  <2>1. c \in Cases /\ Shared \in Places
    BY SelectedFacts, PlaceFacts DEF Chosen
  <2>2. c \in pending[r] \/ files[Shared][c] = files[r][c] \/ Rival(r, c)
    BY <1>1 DEF RunInv, Brought
  <2> QED BY <1>1, <1>3, <2>1, <2>2 DEF Control
<1> QED BY <1>1, <1>3, <1>4, <1>5, <1>6, <1>7, Settled

LEMMA CleanKeeps ==
  ASSUME Control, Typed, NEW r \in Runs, RunInv(r), request' = request, Clean(r),
         Others(r)' = Others(r),
         \A c : Disturbed(r, c)' = Disturbed(r, c) /\ Rival(r, c)' = Rival(r, c)
  PROVE  RunInv(r)'
<1>1. /\ pc[r] = "clean" /\ pc'[r] = "ended" /\ pending[r] = {} /\ pending' = pending
      /\ files' = files /\ at' = at /\ tally' = tally /\ code' = code /\ report' = report
  BY DEF Clean, Goto, Control
<1>2. Selected(r)' = Selected(r) /\ Minting(r)' = Minting(r)
  BY DEF Selected, Minting
<1>3. Route(r)' /\ Own(r)'
  BY <1>1, <1>2 DEF RunInv, Route, Own, Working
<1>4. Reported(r)'
  BY <1>1, <1>2 DEF RunInv, Reported
<1>5. Brought(r)'
  BY <1>1, <1>2 DEF RunInv, Brought
<1> QED BY <1>1, <1>3, <1>4, <1>5, Settled

LEMMA ExamineKeeps ==
  ASSUME Control, Typed, NEW r \in Runs, RunInv(r), request' = request, Examine(r),
         Others(r)' = Others(r), \A c : Disturbed(r, c)' = Disturbed(r, c)
  PROVE  RunInv(r)'
<1>1. /\ pc[r] = "examine" /\ Minting(r) /\ pending[r] = {} /\ pending' = pending
      /\ files' = files /\ report' = report /\ held' = held
      /\ at[r] \in Nat /\ Len(Selected(r)) \in Nat
  BY SelectedFacts DEF Examine, RunInv, Route, Working, Control, Chosen
<1>2. CASE at[r] > Len(Selected(r)) /\ WorkerEnds(r, "zero") /\ UNCHANGED <<at, tally>>
  <2>1. code'[r] = "zero" /\ pc'[r] = IF request[r].remote THEN "fetch" ELSE "ended"
    BY <1>1, <1>2 DEF WorkerEnds, Goto, Typed, Control, Minting
  <2> QED BY <1>1, <1>2, <2>1, EndsWell
<1>3. CASE at[r] <= Len(Selected(r)) /\ Resumes(r)
  <2> PICK record : record = files[Place(r)][Case(r)]
    OBVIOUS
  <2>1. CASE Parses(record)
    <3>1. /\ tally'[r] = Counted(tally[r], record.status = "rejected")
          /\ at'[r] = at[r] + 1 /\ pc' = pc /\ code' = code
      BY <1>1, <1>3, <2>1 DEF Examine, Typed, Control
    <3>2. Case(r) \in Cases /\ Place(r) \in Places /\ Case(r) = Selected(r)[at[r]]
          /\ at[r] \in 1 .. Len(Selected(r))
      BY <1>1, <1>3, SelectedFacts, PlaceFacts DEF Case, Chosen, RunInv, Route
    <3>3. record.state = "whole" /\ record.status \in Verdicts /\ ~ request[r].force
      BY <1>3, <2>1, <3>2 DEF Parses, Typed, Resumes
    <3>4. Untouched(r, record) \/ Disturbed(r, Case(r))
      BY <1>1, <1>3, <3>2 DEF RunInv, Ahead, Counting, Working
    <3>5. Untouched(r, record) => ~ request[r].remote /\ record.by # r
      BY <3>3 DEF Untouched
    <3> PICK decodes \in BOOLEAN : decodes = (record.status # "rejected")
      OBVIOUS
    <3>6. tally'[r] = Counted(tally[r], ~ decodes)
      <4>1. (record.status = "rejected") = ~ decodes
        OBVIOUS
      <4> QED BY <3>1, <4>1
    <3>7. Untouched(r, record) => Decodes(r, record) = decodes
      BY <3>3, <3>5 DEF Decodes, Verdicts
    <3> QED BY <1>1, <1>3, <3>1, <3>3, <3>4, <3>5, <3>6, <3>7, Advances
  <2>2. CASE ~ Parses(record)
    <3>1. WorkerEnds(r, "failed") /\ UNCHANGED <<at, tally>>
      BY <1>1, <1>3, <2>2 DEF Examine
    <3>2. code'[r] = "failed" /\ pc'[r] \in {"fetch", "clean", "ended"}
      BY <3>1 DEF WorkerEnds, Goto, Typed, Control
    <3> QED BY <1>1, <3>1, <3>2, Fails DEF Same
  <2> QED BY <2>1, <2>2
<1>4. CASE at[r] <= Len(Selected(r)) /\ ~ Resumes(r) /\ Goto(r, "compile")
            /\ UNCHANGED <<at, tally, code>>
  <2>1. pc'[r] = "compile"
    BY <1>4 DEF Goto, Control
  <2> QED BY <1>1, <1>4, <2>1, GoesOn
<1> QED
  <2>1. \/ at[r] > Len(Selected(r)) /\ WorkerEnds(r, "zero") /\ UNCHANGED <<at, tally>>
        \/ at[r] <= Len(Selected(r)) /\ Resumes(r)
        \/ at[r] <= Len(Selected(r)) /\ ~ Resumes(r) /\ Goto(r, "compile")
             /\ UNCHANGED <<at, tally, code>>
    BY DEF Examine
  <2> QED BY <1>2, <1>3, <1>4, <2>1

LEMMA CompileKeeps ==
  ASSUME Control, Typed, NEW r \in Runs, RunInv(r), request' = request, Compile(r),
         \A c : Disturbed(r, c)' = Disturbed(r, c)
  PROVE  RunInv(r)'
<1>1. /\ pc[r] = "compile" /\ pending[r] = {} /\ pending' = pending
      /\ report' = report /\ at' = at /\ tally' = tally
  BY DEF Compile, RunCase, RunCeilingCase, Mint, Control
<1>2. CASE \E status \in Verdicts :
             /\ held' = [held EXCEPT ![r] = status]
             /\ files' = [files EXCEPT ![Place(r)][Case(r)] = Open(r)]
             /\ Goto(r, "write") /\ UNCHANGED code
  <2>1. Case(r) \in Cases /\ Place(r) \in Places
    BY <1>1, SelectedFacts, PlaceFacts DEF Case, Chosen, RunInv, Route
  <2>2. held'[r] \in Verdicts /\ pc'[r] = "write" /\ code' = code
    BY <1>2 DEF Goto, Control, Typed
  <2>3. /\ files'[Place(r)][Case(r)] = Open(r)
        /\ \A c \in Cases : c # Case(r) =>
             files'[Place(r)][c] = files[Place(r)][c] /\ files'[r][c] = files[r][c]
    BY <1>2, <2>1, PlaceFacts DEF Control
  <2> QED BY <1>1, <2>2, <2>3, Opens
<1>3. CASE WorkerEnds(r, "failed") /\ UNCHANGED <<held, files>>
  <2>1. code'[r] = "failed" /\ pc'[r] \in {"fetch", "clean", "ended"}
    BY <1>3 DEF WorkerEnds, Goto, Typed, Control
  <2> QED BY <1>1, <1>3, <2>1, Fails DEF Same
<1> QED BY <1>2, <1>3 DEF Compile, RunCase, RunCeilingCase, Mint, Verdicts

LEMMA WriteKeeps ==
  ASSUME Control, Typed, NEW r \in Runs, RunInv(r), request' = request, Write(r),
         \A c : Disturbed(r, c)' = Disturbed(r, c)
  PROVE  RunInv(r)'
<1>1. /\ pc[r] = "write" /\ pc'[r] = "examine" /\ pending' = pending
      /\ report' = report /\ at'[r] = at[r] + 1 /\ code' = code
      /\ tally'[r] = Tallied(tally[r], held[r])
  BY DEF Write, Goto, Control, Typed
<1>2. PICK file \in Written(r, files[Place(r)][Case(r)]) :
        files' = [files EXCEPT ![Place(r)][Case(r)] = file]
  BY DEF Write
<1>3. Case(r) \in Cases /\ Place(r) \in Places /\ at[r] <= Len(Selected(r))
  BY <1>1, SelectedFacts, PlaceFacts DEF Case, Chosen, RunInv, Route
<1>4. /\ files'[Place(r)][Case(r)] = file
      /\ \A c \in Cases : c # Case(r) =>
           files'[Place(r)][c] = files[Place(r)][c] /\ files'[r][c] = files[r][c]
  BY <1>2, <1>3, PlaceFacts DEF Control
<1>5. held[r] \in Verdicts /\ (files[Place(r)][Case(r)] = Open(r) \/ Disturbed(r, Case(r)))
  BY <1>1 DEF RunInv, UnderHand
<1>6. CASE ~ Disturbed(r, Case(r))
  <2>1. Open(r).state = "open"
    BY DEF Open
  <2>2. file = Whole(held[r], r)
    BY <1>2, <1>5, <1>6, <2>1 DEF Written
  <2>3. file.state = "whole" /\ file.status = held[r] /\ file.by = r
    BY <2>2 DEF Whole
  <2> PICK decodes \in BOOLEAN : decodes = (held[r] \notin {"rejected", "refused"})
    OBVIOUS
  <2>4. Decodes(r, file) = decodes
    BY <1>5, <2>3 DEF Decodes, Verdicts
  <2>5. tally'[r] = Counted(tally[r], ~ decodes)
    <3>1. CASE decodes
      BY <1>1, <3>1 DEF Tallied, Counted, Rejection
    <3>2. CASE ~ decodes
      BY <1>1, <3>2 DEF Tallied, Counted, Rejection
    <3> QED BY <3>1, <3>2
  <2> QED BY <1>1, <1>3, <1>4, <2>3, <2>4, <2>5, Advances
<1>7. CASE Disturbed(r, Case(r))
  <2> PICK decodes \in BOOLEAN : decodes = (held[r] \notin {"rejected", "refused"})
    OBVIOUS
  <2>1. tally'[r] = Counted(tally[r], ~ decodes)
    <3>1. CASE decodes
      BY <1>1, <3>1 DEF Tallied, Counted, Rejection
    <3>2. CASE ~ decodes
      BY <1>1, <3>2 DEF Tallied, Counted, Rejection
    <3> QED BY <3>1, <3>2
  <2> QED BY <1>1, <1>3, <1>4, <1>7, <2>1, Advances
<1> QED BY <1>6, <1>7

(* Every step of a run keeps its own part of the invariant.                 *)
LEMMA OwnStep ==
  ASSUME Control, Typed, NEW r \in Runs, RunInv(r), request' = request,
         Step(r) \/ LoseWorker(r) \/ Kill(r)
  PROVE  RunInv(r)'
<1>1. /\ Others(r)' = Others(r)
      /\ \A c : Rival(r, c)' = Rival(r, c) /\ Disturbed(r, c)' = Disturbed(r, c)
  BY RivalsSame
<1>2. CASE Begin(r) \/ MakeOutput(r) \/ CopyScripts(r)
  <2>1. /\ pending[r] = {} /\ pc[r] \in {"begin", "output", "scripts"} /\ pending' = pending
        /\ files' = files /\ at' = at /\ tally' = tally /\ report' = report
    BY <1>2 DEF Begin, MakeOutput, CopyScripts, Control
  <2>2. CASE \/ Ends(r, "failed") \/ Ends(r, "stranded") \/ WorkerEnds(r, "failed")
             \/ Goto(r, "clean") /\ code' = [code EXCEPT ![r] = "failed"]
    <3>1. /\ code'[r] \in {"failed", "stranded"}
          /\ pc'[r] \in {"fetch", "clean", "ended"}
      BY <2>2 DEF Ends, WorkerEnds, Goto, Typed, Control
    <3> QED BY <2>1, <3>1, Fails DEF Same
  <2>3. CASE \E place \in {"output", "scripts", Worker(r)} : Goto(r, place) /\ UNCHANGED code
    <3>1. code' = code /\ pc'[r] \in {"output", "scripts", Worker(r)}
      BY <2>3 DEF Goto, Control
    <3> QED BY <1>1, <2>1, <3>1, GoesOn DEF Worker, Working, Minting
  <2> QED
    BY <1>2, <2>2, <2>3 DEF Begin, StartWorker, BeforeScripts, MakeOutput, CopyScripts
<1>4. CASE List(r)
  BY <1>1, <1>4, ListKeeps
<1>5. CASE Examine(r)
  BY <1>1, <1>5, ExamineKeeps
<1>6. CASE Compile(r)
  BY <1>1, <1>6, CompileKeeps
<1>7. CASE Write(r)
  BY <1>1, <1>7, WriteKeeps
<1>8. CASE Layout(r)
  <2>1. pending[r] = {} /\ pending' = pending /\ files' = files /\ at' = at
    BY <1>8 DEF Layout, Control
  <2>2. CASE WorkerEnds(r, "failed") /\ UNCHANGED report
    <3>1. code'[r] = "failed" /\ pc'[r] \in {"fetch", "clean", "ended"}
      BY <2>2 DEF WorkerEnds, Goto, Typed, Control
    <3> QED BY <2>1, <2>2, <3>1, Fails DEF Same
  <2>3. CASE ~ (WorkerEnds(r, "failed") /\ UNCHANGED report)
    <3>1. /\ Selected(r) # <<>> /\ report' = [report EXCEPT ![Place(r)] = Selected(r)]
          /\ WorkerEnds(r, "zero")
      BY <1>8, <2>3 DEF Layout
    <3> QED BY <1>1, <1>8, <3>1, LayoutKeeps
  <2> QED BY <2>2, <2>3
<1>9. CASE Fetch(r)
  <2>1. /\ pending[r] = {} /\ pc[r] = "fetch" /\ files' = files /\ at' = at
        /\ DOMAIN pending = Runs
    BY <1>9 DEF Fetch, Control
  <2>2. CASE Goto(r, "clean") /\ code' = [code EXCEPT ![r] = "failed"]
             /\ UNCHANGED <<report, pending>>
    <3>1. code'[r] = "failed" /\ pc'[r] = "clean"
      BY <2>2 DEF Goto, Typed, Control
    <3> QED BY <2>1, <2>2, <3>1, Fails DEF Same
  <2>3. CASE ~ (Goto(r, "clean") /\ code' = [code EXCEPT ![r] = "failed"]
                /\ UNCHANGED <<report, pending>>)
    <3>1. /\ code' = code
          /\ \/ /\ request[r].layout /\ report[r] # NoReport /\ pending' = pending
                /\ report' = [report EXCEPT ![Shared] = report[r]] /\ Goto(r, "clean")
             \/ /\ ~ request[r].layout /\ report' = report /\ Goto(r, "copy")
                /\ pending' = [pending EXCEPT ![r] = {c \in Cases : files[r][c] # Absent}]
      BY <1>9, <2>3 DEF Fetch
    <3>2. \/ /\ request[r].layout /\ report[r] # NoReport /\ pending' = pending
             /\ report' = [report EXCEPT ![Shared] = report[r]] /\ pc'[r] = "clean"
          \/ /\ ~ request[r].layout /\ report' = report /\ pc'[r] = "copy"
             /\ pending'[r] = {c \in Cases : files[r][c] # Absent}
      BY <2>1, <3>1 DEF Goto, Control
    <3> QED BY <1>1, <1>9, <3>1, <3>2, FetchKeeps
  <2> QED BY <2>2, <2>3
<1>10. CASE Copy(r)
  <2>1. \/ /\ pc'[r] = "copy"
           /\ \E d \in pending[r] : /\ files' = [files EXCEPT ![Shared][d] = files[r][d]]
                                    /\ pending'[r] = pending[r] \ {d}
        \/ /\ pc'[r] = "clean" /\ pending[r] = {} /\ pending' = pending /\ files' = files
    BY <1>10 DEF Copy, Goto, Control
  <2> QED BY <1>1, <1>10, <2>1, CopyKeeps
<1>11. CASE Clean(r)
  BY <1>1, <1>11, CleanKeeps
<1>12. CASE LoseWorker(r)
  <2>1. /\ pending[r] = {} /\ pending' = pending /\ files' = files /\ at' = at
        /\ report' = report
    BY <1>12 DEF LoseWorker, Control
  <2>2. code'[r] = "failed" /\ pc'[r] \in {"fetch", "clean", "ended"}
    BY <1>12 DEF LoseWorker, WorkerEnds, Goto, Typed, Control
  <2> QED BY <2>1, <2>2, Fails DEF Same
<1>13. CASE Kill(r)
  <2>1. /\ pending' = pending /\ at' = at /\ report' = report
        /\ code'[r] = "killed" /\ pc'[r] = "ended"
    BY <1>13 DEF Kill, Ends, Goto, Typed, Control
  <2>2. \A c \in Cases : files'[r][c] = files[r][c]
    BY <1>13, PlaceFacts DEF Kill, Control
  <2> QED BY <2>1, <2>2, Fails DEF Same
<1> QED
  BY <1>2, <1>4, <1>5, <1>6, <1>7, <1>8, <1>9, <1>10, <1>11, <1>12, <1>13 DEF Step


--------------------------------------------------------------------------------
(* The invariant of the whole campaign. *)

LEMMA AbsentState == Absent.state = "absent"
  BY DEF Absent

LEMMA TypedInit == Init => Typed
<1> SUFFICES ASSUME Init PROVE Typed
  OBVIOUS
<1>1. PICK start \in Starts :
        /\ request = start.requests
        /\ files = [p \in Places |-> [c \in Cases |->
                     IF p = Shared /\ c \in DOMAIN start.before THEN start.before[c] ELSE Absent]]
  BY DEF Init
<1>2. request \in [Runs -> Requests]
  BY <1>1, StartsAssumption
<1>3. DOMAIN code = Runs /\ DOMAIN tally = Runs /\ DOMAIN held = Runs /\ DOMAIN report = Places
  BY DEF Init
<1>4. ASSUME NEW p \in Places, NEW c \in Cases, files[p][c].state = "whole"
      PROVE  files[p][c].status \in Verdicts
  <2>1. files[p][c] = IF p = Shared /\ c \in DOMAIN start.before THEN start.before[c] ELSE Absent
    BY <1>1
  <2>2. c \in DOMAIN start.before /\ files[p][c] = start.before[c]
    BY <1>4, <2>1, AbsentState
  <2> QED BY <1>4, <2>2, StartsAssumption
<1> QED BY <1>2, <1>3, <1>4 DEF Typed

LEMMA EachRunInit == Init => EachRun
<1> SUFFICES ASSUME Init, NEW r \in Runs PROVE RunInv(r)
  BY DEF EachRun
<1>1. Typed /\ Chosen(Selected(r))
  BY TypedInit, SelectedFacts
<1>2. PICK start \in Starts :
        files = [p \in Places |-> [c \in Cases |->
                  IF p = Shared /\ c \in DOMAIN start.before THEN start.before[c] ELSE Absent]]
  BY DEF Init
<1>3. \A c \in Cases : files[r][c] = Absent
  BY <1>2, PlaceFacts
<1>4. \A c \in Cases : files[Shared][c].state = "absent" \/ files[Shared][c].by # r
  <2> SUFFICES ASSUME NEW c \in Cases, files[Shared][c].state # "absent"
               PROVE  files[Shared][c].by # r
    OBVIOUS
  <2>1. files[Shared][c] = IF c \in DOMAIN start.before THEN start.before[c] ELSE Absent
    BY <1>2 DEF Places
  <2>2. c \in DOMAIN start.before /\ files[Shared][c] = start.before[c]
    BY <2>1, AbsentState
  <2> QED BY <2>2, StartsAssumption
<1>5. /\ pc[r] = "begin" /\ at[r] = 1 /\ code[r] = "none" /\ pending[r] = {}
      /\ tally[r] = [decoded |-> 0, rejected |-> 0]
  BY DEF Init
<1>6. Route(r)
  BY <1>1, <1>5 DEF Route, Working, Chosen
<1>7. Own(r) /\ Recorded(r) /\ UnderHand(r) /\ Brought(r)
  BY <1>3, <1>5 DEF Own, Recorded, UnderHand, Brought
<1>8. Ahead(r)
  <2> SUFFICES ASSUME NEW k \in 1 .. Len(Selected(r))
               PROVE  Untouched(r, files[Place(r)][Selected(r)[k]])
    BY <1>5 DEF Ahead
  <2>1. Selected(r)[k] \in Cases
    BY <1>1 DEF Chosen
  <2> QED BY <1>3, <1>4, <2>1, PlaceFacts, AbsentState DEF Untouched
<1>9. Tallies(r)
  <2>1. Passed(r) = {}
    BY <1>5 DEF Passed
  <2>2. Cardinality({c \in Passed(r) : Decodes(r, files[Place(r)][c])}) = 0
    <3>1. {c \in Passed(r) : Decodes(r, files[Place(r)][c])} = {}
      BY <2>1
    <3> QED BY <3>1, FS_EmptySet
  <2> QED BY <1>5, <2>2 DEF Tallies
<1>10. Reported(r)
  BY <1>5, PlaceFacts DEF Reported, Init
<1> QED BY <1>6, <1>7, <1>8, <1>9, <1>10 DEF RunInv

LEMMA TypedStep ==
  ASSUME Control, Typed, NEW r \in Runs, RunInv(r), Step(r) \/ LoseWorker(r) \/ Kill(r),
         request' = request
  PROVE  Typed'
<1>1. DOMAIN code' = Runs /\ DOMAIN tally' = Runs /\ DOMAIN held' = Runs
  BY
     DEF Typed, Step, Begin, StartWorker, BeforeScripts, MakeOutput, CopyScripts, List, Examine, Compile, RunCase, RunCeilingCase, Mint, Write, Layout,
         Fetch, Copy,
         Clean, LoseWorker, Kill, WorkerEnds, Ends
<1>2. DOMAIN report' = Places
  BY
     DEF Typed, Step, Begin, StartWorker, BeforeScripts, MakeOutput, CopyScripts, List, Examine, Compile, RunCase, RunCeilingCase, Mint, Write, Layout,
         Fetch, Copy,
         Clean, LoseWorker, Kill
<1>3. ASSUME NEW p, NEW d, NEW file, file.state = "whole" => file.status \in Verdicts,
             files' = [files EXCEPT ![p][d] = file],
             NEW q \in Places, NEW c \in Cases, files'[q][c].state = "whole"
      PROVE  files'[q][c].status \in Verdicts
  <2>1. files'[q][c] = files[q][c] \/ files'[q][c] = file
    BY <1>3 DEF Control
  <2> QED BY <1>3, <2>1 DEF Typed
<1>4. ASSUME NEW q \in Places, NEW c \in Cases, files'[q][c].state = "whole"
      PROVE  files'[q][c].status \in Verdicts
  <2>Kept. CASE files' = files
    BY <1>4, <2>Kept DEF Typed
  <2>Compile. CASE Compile(r) /\ files' # files
    <3>1. files' = [files EXCEPT ![Place(r)][Case(r)] = Open(r)]
      BY <2>Compile DEF Compile, RunCase, RunCeilingCase, Mint
    <3>2. Open(r).state = "open"
      BY DEF Open
    <3> QED BY <1>3, <1>4, <3>1, <3>2
  <2>Write. CASE Write(r)
    <3>1. PICK file \in Written(r, files[Place(r)][Case(r)]) :
            files' = [files EXCEPT ![Place(r)][Case(r)] = file]
      BY <2>Write DEF Write
    <3>2. held[r] \in Verdicts
      BY <2>Write DEF Write, RunInv, UnderHand
    <3>3. file = Whole(held[r], r) \/ file = Torn(r)
      BY <3>1 DEF Written
    <3>4. Whole(held[r], r).status = held[r] /\ Torn(r).state = "torn"
      BY DEF Whole, Torn
    <3> QED BY <1>3, <1>4, <3>1, <3>2, <3>3, <3>4
  <2>Copy. CASE Copy(r) /\ files' # files
    <3>1. PICK d \in pending[r] : files' = [files EXCEPT ![Shared][d] = files[r][d]]
      BY <2>Copy DEF Copy
    <3>2. files[r][d].state = "whole" => files[r][d].status \in Verdicts
      BY <3>1, PlaceFacts DEF Typed, Control
    <3> QED BY <1>3, <1>4, <3>1, <3>2
  <2>Kill. CASE Kill(r) /\ files' # files
    <3>1. PICK d \in pending[r] : files' = [files EXCEPT ![Shared][d] = Open(r)]
      BY <2>Kill DEF Kill
    <3>2. Open(r).state = "open"
      BY DEF Open
    <3> QED BY <1>3, <1>4, <3>1, <3>2
  <2>Others. CASE Begin(r) \/ MakeOutput(r) \/ CopyScripts(r) \/ List(r) \/ Examine(r) \/ Layout(r) \/ Fetch(r)
             \/ Clean(r) \/ LoseWorker(r)
    <3>1. files' = files
      BY <2>Others
         DEF Begin, StartWorker, BeforeScripts, MakeOutput, CopyScripts, List,
             Examine, Layout, Fetch, Clean, LoseWorker
    <3> QED BY <2>Kept, <3>1
  <2> QED BY <2>Kept, <2>Compile, <2>Write, <2>Copy, <2>Kill, <2>Others DEF Step
<1> QED BY <1>1, <1>2, <1>4 DEF Typed

CInv == Control /\ Typed /\ EachRun

LEMMA CInit == Init => CInv
  BY InitInv, TypedInit, EachRunInit DEF CInv, IInv

LEMMA CStep == CInv /\ [Next]_vars => CInv'
<1> SUFFICES ASSUME CInv, [Next]_vars PROVE CInv'
  OBVIOUS
<1>1. request' = request
  BY RequestKept
<1>2. CASE \E r \in Runs : Step(r) \/ LoseWorker(r) \/ Kill(r)
  <2>1. PICK r \in Runs : Step(r) \/ LoseWorker(r) \/ Kill(r)
    BY <1>2
  <2>2. Control /\ Typed /\ \A q \in Runs : RunInv(q)
    BY DEF CInv, EachRun
  <2>3. Control' /\ Typed'
    BY <1>1, <2>1, <2>2, ControlStep, TypedStep
  <2>4. RunInv(r)'
    BY <1>1, <2>1, <2>2, OwnStep
  <2>5. ASSUME NEW q \in Runs \ {r} PROVE RunInv(q)'
    <3>1. Quiet(q)
      BY <1>1, <2>1, <2>2, QuietSeen
    <3>2. Others(q) \subseteq Others(q)' /\ \A c : Rival(q, c) => Rival(q, c)'
      BY <1>1, <2>1, <2>2, RivalStays
    <3> QED BY <1>1, <2>2, <3>1, <3>2, QuietKeeps
  <2> QED BY <2>3, <2>4, <2>5 DEF CInv, EachRun
<1>3. CASE UNCHANGED vars
  <2>1. Control' /\ Typed'
    BY <1>3 DEF vars, CInv, Control, Typed
  <2>2. ASSUME NEW r \in Runs PROVE RunInv(r)'
    <3>1. Others(r)' = Others(r) /\ \A c : Rival(r, c)' = Rival(r, c)
      BY <1>3 DEF vars, Others, Began, Rival, Minting, Selected
    <3>2. Quiet(r)
      BY <1>3 DEF vars, Quiet
    <3> QED BY <1>1, <3>1, <3>2, QuietKeeps DEF CInv, EachRun
  <2> QED BY <2>1, <2>2 DEF CInv, EachRun
<1> QED BY <1>2, <1>3, SomeRun

THEOREM CampaignRuns == Spec => []CInv
  BY CInit, CStep, PTL DEF Spec

(* A run that is over and ended with zero stands by its records.            *)
LEMMA ZeroStands ==
  ASSUME CInv, NEW r \in Runs, pc[r] = "ended", code[r] = "zero", Minting(r)
  PROVE  /\ Chosen(Selected(r)) /\ Counting(r) /\ at[r] = Len(Selected(r)) + 1
         /\ \A c \in ToSet(Selected(r)) :
              \/ Standing(r, Shared, c) /\ files[Shared][c] = files[Place(r)][c]
              \/ Rival(r, c)
<1>1. Chosen(Selected(r)) /\ Counting(r) /\ at[r] = Len(Selected(r)) + 1 /\ RunInv(r)
  BY SelectedFacts DEF CInv, EachRun, RunInv, Route, Counting
<1>2. ASSUME NEW c \in ToSet(Selected(r))
      PROVE  \/ Standing(r, Shared, c) /\ files[Shared][c] = files[Place(r)][c]
             \/ Rival(r, c)
  <2>1. PICK k \in 1 .. Len(Selected(r)) : c = Selected(r)[k]
    BY <1>1 DEF Chosen
  <2>2. k \in 1 .. at[r] - 1
    BY <1>1, <2>1 DEF Chosen
  <2>3. Standing(r, Place(r), c) \/ Disturbed(r, c)
    BY <1>1, <2>1, <2>2 DEF RunInv, Recorded
  <2>4. CASE ~ request[r].remote
    BY <2>3, <2>4, PlaceFacts DEF Disturbed
  <2>5. CASE request[r].remote
    <3>1. pending[r] = {}
      BY <1>1 DEF RunInv, Route
    <3>2. files[Shared][c] = files[r][c] \/ Rival(r, c)
      BY <1>1, <2>5, <3>1 DEF RunInv, Brought
    <3> QED BY <2>3, <2>5, <3>2, PlaceFacts DEF Disturbed, Standing
  <2> QED BY <2>4, <2>5
<1> QED BY <1>1, <1>2

(* Exit code zero means that every selected case has its record in the      *)
(* shared directory, a fresh one when the run is remote or forced, and a    *)
(* layout run its report, unless another run minted the same case or wrote  *)
(* a report too (main, local_run, run_layout_probes).                       *)
THEOREM ZeroLeavesRecords == Spec => []ExitZeroComplete
<1>1. CInv => ExitZeroComplete
  <2> SUFFICES ASSUME CInv, NEW r \in Runs, pc[r] = "ended", code[r] = "zero"
               PROVE  /\ Minting(r) => \A c \in ToSet(Selected(r)) :
                           \/ /\ files[Shared][c].state = "whole"
                              /\ (request[r].remote \/ request[r].force)
                                   => files[Shared][c].by = r
                           \/ \E q \in Others(r) : Minting(q) /\ c \in ToSet(Selected(q))
                      /\ request[r].layout /\ ~(request[r].remote /\ request[r].listing) =>
                           \/ Selected(r) # <<>> /\ report[Shared] = Selected(r)
                           \/ \E q \in Others(r) : request[q].layout
    BY DEF ExitZeroComplete
  <2>1. ASSUME Minting(r), NEW c \in ToSet(Selected(r))
        PROVE  \/ /\ files[Shared][c].state = "whole"
                  /\ (request[r].remote \/ request[r].force) => files[Shared][c].by = r
               \/ \E q \in Others(r) : Minting(q) /\ c \in ToSet(Selected(q))
    BY <2>1, ZeroStands DEF Standing, Rival
  <2>2. ASSUME request[r].layout, ~(request[r].remote /\ request[r].listing)
        PROVE  \/ Selected(r) # <<>> /\ report[Shared] = Selected(r)
               \/ \E q \in Others(r) : request[q].layout
    BY <2>2 DEF CInv, EachRun, RunInv, Reported
  <2> QED BY <2>1, <2>2
<1> QED BY <1>1, CampaignRuns, PTL

(* What a run prints when it ends with zero is what the records say, a      *)
(* ceiling probe's refusal found from an earlier run counting as decoded    *)
(* (local_run).                                                             *)
THEOREM SummaryTells == Spec => []SummaryExact
<1>1. CInv => SummaryExact
  <2> SUFFICES ASSUME CInv, NEW r \in Runs, pc[r] = "ended", code[r] = "zero", Minting(r)
               PROVE  LET cases == ToSet(Selected(r))
                          With(statuses) == {c \in cases : files[Shared][c].status \in statuses}
                          found == {c \in With({"refused"}) : files[Shared][c].by # r}
                      IN /\ tally[r].decoded + tally[r].rejected = Len(Selected(r))
                         /\ \/ tally[r].decoded
                                 = Cardinality(With({"decoded", "accepted"}))
                                   + Cardinality(found)
                            \/ \E q \in Others(r) :
                                 Minting(q) /\ ToSet(Selected(q)) \cap cases # {}
    BY DEF SummaryExact
  <2> DEFINE cases == ToSet(Selected(r))
             met == {c \in cases : files[Shared][c].status \in {"decoded", "accepted"}}
             refused == {c \in cases : files[Shared][c].status \in {"refused"}}
             found == {c \in refused : files[Shared][c].by # r}
             all == {c \in Passed(r) : Decodes(r, files[Place(r)][c])}
  <2>1. /\ Chosen(Selected(r)) /\ Counting(r) /\ at[r] = Len(Selected(r)) + 1
        /\ \A c \in cases :
             files[Shared][c] = files[Place(r)][c] \/ Rival(r, c)
    BY ZeroStands
  <2>2. Len(Selected(r)) \in Nat
    BY <2>1 DEF Chosen
  <2>3. /\ tally[r].decoded + tally[r].rejected = Len(Selected(r))
        /\ tally[r].decoded = Cardinality(all) \/ \E c \in cases : Disturbed(r, c)
    <3>1. Tallies(r)
      BY DEF CInv, EachRun, RunInv
    <3>2. at[r] - 1 = Len(Selected(r))
      BY <2>1, <2>2
    <3>3. tally[r].decoded + tally[r].rejected = at[r] - 1
      BY <2>1, <3>1 DEF Tallies
    <3>4. tally[r].decoded = Cardinality(all) \/ \E c \in cases : Disturbed(r, c)
      BY <2>1, <3>1 DEF Tallies
    <3> QED BY <3>2, <3>3, <3>4
  <2>4. ASSUME \A c \in cases : ~ Rival(r, c)
        PROVE  tally[r].decoded = Cardinality(met) + Cardinality(found)
    <3>1. tally[r].decoded = Cardinality(all)
      BY <2>3, <2>4 DEF Disturbed
    <3>2. Passed(r) = cases /\ cases = Leading(Selected(r), Len(Selected(r)))
      BY <2>1, <2>2 DEF Passed, Chosen, Leading
    <3>3. all = met \cup found
      BY <2>1, <2>4, <3>2 DEF Decodes
    <3>4. IsFiniteSet(cases)
      BY <2>2, <3>2, LeadingFinite
    <3>5. met \subseteq cases /\ found \subseteq cases /\ met \cap found = {}
      OBVIOUS
    <3> HIDE DEF met, found, cases, all
    <3>6. IsFiniteSet(met) /\ IsFiniteSet(found)
      BY <3>4, <3>5, FS_Subset
    <3>7. Cardinality(met \cup found)
            = Cardinality(met) + Cardinality(found) - Cardinality(met \cap found)
      BY <3>6, FS_Union
    <3>8. /\ Cardinality(met \cap found) = 0
          /\ Cardinality(met) \in Nat /\ Cardinality(found) \in Nat
      BY <3>5, <3>6, FS_EmptySet, FS_CardinalityType
    <3> QED BY <3>1, <3>3, <3>7, <3>8
  <2>5. ASSUME NEW c \in cases, Rival(r, c)
        PROVE  \E q \in Others(r) : Minting(q) /\ ToSet(Selected(q)) \cap cases # {}
    <3>1. PICK q \in Others(r) : Minting(q) /\ c \in ToSet(Selected(q))
      BY <2>5 DEF Rival
    <3> QED BY <2>5, <3>1
  <2> QED BY <2>3, <2>4, <2>5
<1> QED BY <1>1, CampaignRuns, PTL

================================================================================
