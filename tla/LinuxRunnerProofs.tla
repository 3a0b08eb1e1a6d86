---------------------------- MODULE LinuxRunnerProofs ----------------------------
(***************************************************************************)
(* For every package, request, budget and clock, and whatever libane       *)
(* answers and whenever it is interrupted: handles are closed once, one    *)
(* dispatch at most is late, the first error is the one reported, and a    *)
(* result is reported only for iterations that were all computed from      *)
(* their own inputs.                                                       *)
(***************************************************************************)
EXTENDS LinuxRunner, SequenceTheorems, WellFoundedInduction, TLAPS

Steps ==
  {"contract", "check", "compose", "open", "sizes", "send", "exec", "read",
   "compare", "cleanup", "ended"}

Exceptions ==
  {"request", "deadline", "key", "file", "init", "lost", "size", "interrupt",
   "exec", "mismatch", "free"}

Control ==
  /\ request \in Requests
  /\ clock \in Nat /\ deadline \in Nat /\ late \in Nat
  /\ step \in Steps
  /\ preparing \in BOOLEAN
  /\ position \in DOMAIN request.plan
  /\ iteration \in Nat

Held ==
  /\ handle \in [Programs(request) -> {"none", "open", "freed", "twice"}]
  /\ known \subseteq Programs(request)

Failures == raised \in Seq(Exceptions) /\ error \in Exceptions \cup {"none"}

Types == Control /\ Held /\ Failures

(* Nothing was raised before the clean-up, and what propagates is what was *)
(* raised first, but for a failure of the clean-up, which waits.           *)
Errors ==
  /\ raised # <<>> \/ error # "none" => step \in {"cleanup", "ended"}
  /\ error # "none" => raised # <<>> /\ error = raised[1]
  /\ error = "none" /\ raised # <<>> => raised[1] = "free" /\ step = "cleanup"

(* An open handle is one the runner knows, or the one it lost.             *)
Handles ==
  /\ step \in {"contract", "ended"} => known = {}
  /\ \A n \in Programs(request) :
       /\ handle[n] # "twice"
       /\ n \in known => handle[n] = "open"
       /\ handle[n] = "open" /\ n \notin known =>
            raised # <<>> /\ raised[1] = "lost" /\ n = Program

(* The budget was spent before the dispatch that was late, and every way   *)
(* to the next one leads past the clock.                                   *)
Lateness ==
  /\ step = "contract" => late = 0
  /\ late <= 1
  /\ late = 1 => /\ deadline <= clock
                 /\ step \in {"read", "check", "compare", "cleanup", "ended"}

IInv == Types /\ Errors /\ Handles /\ Lateness

(* The values of k iterations of a plan whose outputs are S. *)
Exact(S, k) == [i \in 1 .. k |-> [v \in S |-> i]]

(* An iteration is compared after its last program and after every earlier *)
(* one; a single run cleans up between its programs.                       *)
Phase ==
  /\ preparing =>
       /\ Benchmarking /\ iteration = 1
       /\ step \in {"contract", "check", "open", "sizes", "cleanup", "ended"}
  /\ step = "compare" => position = 1
  /\ step = "contract" => position = 1 /\ iteration = 1
  /\ request.mode = "dry" /\ raised = <<>> => step \in {"contract", "ended"}
  /\ 1 <= iteration /\ iteration <= request.warmup + request.iterations
  /\ step \notin {"cleanup", "ended"} => checked = Exact(Outputs, iteration - 1)
  /\ step \in {"cleanup", "ended"} /\ raised = <<>> /\ request.mode # "dry" =>
       /\ ~ preparing
       /\ \/ /\ checked = Exact(Outputs, iteration)
             /\ iteration = request.warmup + request.iterations
          \/ /\ step = "cleanup" /\ ~ Benchmarking
             /\ iteration = 1 /\ checked = <<>>

(* What was produced is of this iteration or wrong, and the programs that  *)
(* were passed produced all they should.                                   *)
Regions ==
  /\ \A v \in DOMAIN regions : regions[v] \in {0, iteration}
  /\ ~ preparing /\ raised = <<>> =>
       \A n \in Programs(request) :
         \/ Position(request, n) < position
         \/ step = "compare"
         \/ step \in {"read", "cleanup"} /\ Position(request, n) = position
         => Produced(request, n) \subseteq DOMAIN regions

(* A program is sent values of this iteration or wrong ones. *)
Sent ==
  /\ DOMAIN buffers = Programs(request)
  /\ step \in {"open", "sizes", "send", "exec"} /\ ~ preparing =>
       \A v \in Reads(Program) : buffers[Program][v] \in {0, iteration}

(* Each program has a sample of every iteration it has passed but warmup.  *)
Count(k) == IF k > request.warmup THEN k - request.warmup ELSE 0

Passed(n) ==
  /\ ~ preparing
  /\ step \in {"compare", "cleanup", "ended"} \/ Position(request, n) < position

Counted ==
  /\ DOMAIN samples = Programs(request)
  /\ Benchmarking /\ raised = <<>> =>
       \A n \in Programs(request) :
         samples[n] = Count(IF Passed(n) THEN iteration ELSE iteration - 1)

DInv == Phase /\ Regions /\ Sent /\ Counted

--------------------------------------------------------------------------------
(* Requests, plans and sequences. *)

LEMMA RequestFacts ==
  ASSUME NEW r \in Requests
  PROVE  /\ r.plan \in Seq(Programs(r)) /\ DOMAIN r.plan = Programs(r)
         /\ DOMAIN r.plan = 1 .. Len(r.plan) /\ Len(r.plan) \in Nat \ {0}
         /\ \A k \in DOMAIN r.plan : r.plan[k] \in Programs(r)
         /\ r.warmup \in Nat /\ r.iterations \in Nat \ {0} /\ r.budget \in Nat \ {0}
         /\ r.mode \in {"dry", "once", "benchmark"}
         /\ r.mode # "benchmark" => r.warmup = 0 /\ r.iterations = 1
<1>1. IsRequest(r) /\ IsPackage(r)
  BY RunnerAssumption DEF IsRequest
<1>2. r.programs \in Seq([reads : SUBSET DOMAIN r.role, writes : SUBSET DOMAIN r.role])
      /\ Len(r.programs) > 0 /\ Programs(r) = 1 .. Len(r.programs)
  BY <1>1 DEF IsPackage, Programs
<1>3. r.plan \in Seq(Programs(r)) /\ DOMAIN r.plan = Programs(r)
  BY <1>1 DEF IsPackage
<1>4. DOMAIN r.plan = 1 .. Len(r.plan) /\ Len(r.plan) \in Nat \ {0}
  BY <1>2, <1>3
<1>5. \A k \in DOMAIN r.plan : r.plan[k] \in Programs(r)
  BY <1>3, <1>4
<1> QED
  BY <1>1, <1>3, <1>4, <1>5 DEF IsRequest

(* The position of a program is the one place of the plan that holds it.   *)
LEMMA PositionFacts ==
  ASSUME NEW r \in Requests
  PROVE  /\ \A n \in Programs(r) :
              Position(r, n) \in DOMAIN r.plan /\ r.plan[Position(r, n)] = n
         /\ \A k \in DOMAIN r.plan : Position(r, r.plan[k]) = k
<1>1. IsPackage(r)
  BY RunnerAssumption DEF IsRequest
<1>2. \A n \in Programs(r) : \E k \in DOMAIN r.plan : r.plan[k] = n
  BY <1>1 DEF IsPackage
<1>3. \A j, k \in DOMAIN r.plan : r.plan[j] = r.plan[k] => j = k
  BY <1>1 DEF IsPackage
<1>4. \A n \in Programs(r) :
        Position(r, n) \in DOMAIN r.plan /\ r.plan[Position(r, n)] = n
  BY <1>2 DEF Position
<1>5. \A k \in DOMAIN r.plan : Position(r, r.plan[k]) = k
  BY <1>3, <1>4, RequestFacts
<1> QED
  BY <1>4, <1>5

LEMMA AppendFacts ==
  ASSUME NEW S, NEW s \in Seq(S), NEW e \in S
  PROVE  /\ Append(s, e) \in Seq(S) /\ Append(s, e) # <<>>
         /\ s = <<>> => Append(s, e)[1] = e
         /\ s # <<>> => Append(s, e)[1] = s[1]
<1>1. Append(s, e) \in Seq(S) /\ Len(Append(s, e)) = Len(s) + 1
  OBVIOUS
<1>2. Append(s, e) # <<>>
  BY AppendProperties
<1>3. s = <<>> => Append(s, e)[1] = e
  OBVIOUS
<1>4. ASSUME s # <<>> PROVE Append(s, e)[1] = s[1]
  <2>1. 1 \in 1 .. Len(s)
    BY <1>4
  <2> QED
    BY <2>1
<1> QED
  BY <1>1, <1>2, <1>3, <1>4

LEMMA Least ==
  ASSUME NEW T \in SUBSET Nat, T # {}
  PROVE  \E x \in T : \A y \in T : x <= y
<1> DEFINE R == {ss \in Nat \X Nat : ss[1] < ss[2]}
<1>1. IsWellFoundedOn(R, Nat)
  BY NatLessThanWellFounded DEF OpToRel
<1>2. \E x \in T : \A y \in T : ~ (<<y, x>> \in R)
  <2> HIDE DEF R
  <2> QED
    BY <1>1, WFMin
<1>3. PICK x \in T : \A y \in T : ~ (<<y, x>> \in R)
  BY <1>2
<1>4. \A y \in T : ~ (y < x)
  BY <1>3
<1> QED
  BY <1>4

(* Whoever is closed next is a program the runner knows.                   *)
LEMMA ClosedKnown ==
  ASSUME Types, known # {}
  PROVE  NextClosed \in known
<1>1. CASE preparing /\ Program \in known
  BY <1>1 DEF NextClosed
<1>2. CASE ~ (preparing /\ Program \in known)
  <2> DEFINE T == {Position(request, n) : n \in known}
  <2>1. T \in SUBSET Nat /\ T # {}
    <3>1. request \in Requests /\ known \subseteq Programs(request)
      BY DEF Types, Control, Held
    <3>2. \A n \in known : Position(request, n) \in Nat
      BY <3>1, PositionFacts, RequestFacts
    <3> QED
      BY <3>2
  <2>2. PICK x \in T : \A y \in T : x <= y
    BY <2>1, Least
  <2>3. \E n \in known : \A m \in known : Position(request, n) <= Position(request, m)
    BY <2>2
  <2> QED
    BY <1>2, <2>3 DEF NextClosed
<1> QED
  BY <1>1, <1>2

--------------------------------------------------------------------------------
(* Types. *)

LEMMA RaisedFacts ==
  ASSUME Failures, NEW e \in Exceptions, raised' = Append(raised, e)
  PROVE  /\ raised' \in Seq(Exceptions) /\ raised' # <<>>
         /\ raised = <<>> => raised'[1] = e
         /\ raised # <<>> => raised'[1] = raised[1]
<1>1. raised \in Seq(Exceptions)
  BY DEF Failures
<1> QED
  BY <1>1, AppendFacts

LEMMA NextFacts ==
  ASSUME Control, NextProgram
  PROVE  /\ position' \in DOMAIN request.plan /\ preparing' \in BOOLEAN
         /\ \/ preparing' = preparing /\ position' = position + 1 /\ step' = "check"
            \/ preparing /\ ~ preparing' /\ position' = 1 /\ step' = "check"
            \/ ~ preparing /\ ~ preparing' /\ position' = 1 /\ step' = "compare"
               /\ position = Len(request.plan)
<1>1. /\ DOMAIN request.plan = 1 .. Len(request.plan) /\ Len(request.plan) \in Nat \ {0}
      /\ position \in DOMAIN request.plan /\ preparing \in BOOLEAN
  BY RequestFacts DEF Control
<1>2. CASE position < Len(request.plan)
  BY <1>1, <1>2 DEF NextProgram
<1>3. CASE ~ (position < Len(request.plan))
  <2>1. /\ position' = 1 /\ 1 \in DOMAIN request.plan
        /\ position = Len(request.plan)
        /\ preparing' = FALSE
        /\ step' = IF preparing THEN "check" ELSE "compare"
    <3>1. 1 \in DOMAIN request.plan
      BY <1>1
    <3>2. position = Len(request.plan)
      BY <1>1, <1>3
    <3> QED
      BY <1>3, <3>1, <3>2 DEF NextProgram
  <2>2. ~ preparing' /\ preparing' \in BOOLEAN
    BY <2>1
  <2>3. CASE preparing
    BY <2>1, <2>2, <2>3
  <2>4. CASE ~ preparing
    BY <2>1, <2>2, <2>4
  <2> QED
    BY <2>3, <2>4
<1> QED
  BY <1>1, <1>2, <1>3

LEMMA RequestKept == [Next]_vars => request' = request
  BY
     DEF Next, vars, Contract, RefuseRequest, CheckDeadline, Compose, Open,
         OpenFails, OpenInterrupted, SizesAgree, SizesDiffer, TransferIn, Submit,
         SubmitFails, Interrupted, TransferOut, OutputsMatch, OutputsDiffer,
         HandleClosed, HandleRefused, CleanupDone, Done

LEMMA InitInv == Init => IInv
<1> SUFFICES ASSUME Init PROVE IInv
  OBVIOUS
<1>1. request \in Requests
  BY DEF Init
<1>2. Control
  BY <1>1, RequestFacts DEF Init, Control, Steps
<1>3. Held
  BY <1>1 DEF Init, Held
<1>4. Failures
  BY DEF Init, Failures
<1>5. Errors /\ Handles /\ Lateness
  BY <1>1 DEF Init, Errors, Handles, Lateness
<1> QED
  BY <1>2, <1>3, <1>4, <1>5 DEF IInv, Types

LEMMA ControlStep == ASSUME Control, [Next]_vars PROVE Control'
<1>0. request \in Requests /\ request' = request
  BY RequestKept DEF Types, Control
<1>a. /\ DOMAIN request.plan = 1 .. Len(request.plan) /\ Len(request.plan) \in Nat \ {0}
      /\ request.warmup \in Nat /\ request.iterations \in Nat /\ request.budget \in Nat
      /\ MaxTime \in Nat
  BY RequestFacts, RunnerAssumption DEF Control
<1>1. CASE Contract
  BY <1>1, <1>0, <1>a DEF Contract, Elapses, place, device, unwinding, Control, Steps
<1>2. CASE RefuseRequest
  BY <1>2, <1>0, <1>a DEF RefuseRequest, Elapses, Raise, place, device, Control, Steps
<1>3. CASE CheckDeadline
  BY <1>3, <1>0, <1>a DEF CheckDeadline, Raise, place, device, unwinding, Control, Steps
<1>4. CASE Compose
  BY <1>4, <1>0, <1>a DEF Compose, Raise, place, device, unwinding, Control, Steps
<1>5. CASE Open
  BY <1>5, <1>0, <1>a DEF Open, Elapses, place, unwinding, Control, Steps
<1>6. CASE OpenFails
  BY <1>6, <1>0, <1>a DEF OpenFails, Elapses, Raise, place, device, Control, Steps
<1>7. CASE OpenInterrupted
  BY <1>7, <1>0, <1>a DEF OpenInterrupted, Elapses, Raise, place, Control, Steps
<1>8. CASE SizesAgree
  BY <1>8, <1>0, <1>a, NextFacts DEF SizesAgree, device, unwinding, Control, Steps
<1>9. CASE SizesDiffer
  BY <1>9, <1>0, <1>a DEF SizesDiffer, Raise, place, device, Control, Steps
<1>10. CASE TransferIn
  BY <1>10, <1>0, <1>a DEF TransferIn, Elapses, place, device, unwinding, Control, Steps
<1>11. CASE Submit
  BY <1>11, <1>0, <1>a DEF Submit, Elapses, place, Late, unwinding, Control, Steps
<1>12. CASE SubmitFails
  BY <1>12, <1>0, <1>a DEF SubmitFails, Elapses, Raise, place, Late, Control, Steps
<1>13. CASE Interrupted
  BY <1>13, <1>0, <1>a DEF Interrupted, Elapses, Raise, place, device, Control, Steps
<1>14. CASE TransferOut
  BY <1>14, <1>0, <1>a, NextFacts
     DEF TransferOut, Elapses, device, unwinding, Control, Steps
<1>15. CASE OutputsMatch
  BY <1>15, <1>0, <1>a DEF OutputsMatch, device, unwinding, Control, Steps
<1>16. CASE OutputsDiffer
  BY <1>16, <1>0, <1>a DEF OutputsDiffer, Raise, place, device, Control, Steps
<1>17. CASE HandleClosed
  BY <1>17, <1>0, <1>a DEF HandleClosed, place, unwinding, Control, Steps
<1>18. CASE HandleRefused
  BY <1>18, <1>0, <1>a DEF HandleRefused, place, Control, Steps
<1>19. CASE CleanupDone
  BY <1>19, <1>0, <1>a, NextFacts DEF CleanupDone, device, Propagated, Control, Steps
<1>20. CASE Done
  BY <1>20, <1>0, <1>a DEF Done, vars, Control, Steps
<1>21. CASE UNCHANGED vars
  BY <1>21, <1>0 DEF vars, Control, Steps
<1> QED
  BY <1>1, <1>2, <1>3, <1>4, <1>5, <1>6, <1>7, <1>8, <1>9, <1>10, <1>11, <1>12,
     <1>13, <1>14, <1>15, <1>16, <1>17, <1>18, <1>19, <1>20, <1>21
     DEF Next

LEMMA HeldStep == ASSUME Types, [Next]_vars PROVE Held'
<1>0. request \in Requests /\ request' = request
  BY RequestKept DEF Types, Control
<1>a. Held /\ Program \in Programs(request)
  BY RequestFacts DEF Types, Control, Program
<1>1. CASE Contract
  BY <1>1, <1>0, <1>a DEF Contract, Elapses, place, device, unwinding, Held
<1>2. CASE RefuseRequest
  BY <1>2, <1>0, <1>a DEF RefuseRequest, Elapses, Raise, place, device, Held
<1>3. CASE CheckDeadline
  BY <1>3, <1>0, <1>a DEF CheckDeadline, Raise, place, device, unwinding, Held
<1>4. CASE Compose
  BY <1>4, <1>0, <1>a DEF Compose, Raise, place, device, unwinding, Held
<1>5. CASE Open
  BY <1>5, <1>0, <1>a DEF Open, Elapses, place, unwinding, Held
<1>6. CASE OpenFails
  BY <1>6, <1>0, <1>a DEF OpenFails, Elapses, Raise, place, device, Held
<1>7. CASE OpenInterrupted
  BY <1>7, <1>0, <1>a DEF OpenInterrupted, Elapses, Raise, place, Held
<1>8. CASE SizesAgree
  BY <1>8, <1>0, <1>a DEF SizesAgree, NextProgram, device, unwinding, Held
<1>9. CASE SizesDiffer
  BY <1>9, <1>0, <1>a DEF SizesDiffer, Raise, place, device, Held
<1>10. CASE TransferIn
  BY <1>10, <1>0, <1>a DEF TransferIn, Elapses, place, device, unwinding, Held
<1>11. CASE Submit
  BY <1>11, <1>0, <1>a DEF Submit, Elapses, place, Late, unwinding, Held
<1>12. CASE SubmitFails
  BY <1>12, <1>0, <1>a DEF SubmitFails, Elapses, Raise, place, Late, Held
<1>13. CASE Interrupted
  BY <1>13, <1>0, <1>a DEF Interrupted, Elapses, Raise, place, device, Held
<1>14. CASE TransferOut
  BY <1>14, <1>0, <1>a DEF TransferOut, Elapses, NextProgram, device, unwinding, Held
<1>15. CASE OutputsMatch
  BY <1>15, <1>0, <1>a DEF OutputsMatch, device, unwinding, Held
<1>16. CASE OutputsDiffer
  BY <1>16, <1>0, <1>a DEF OutputsDiffer, Raise, place, device, Held
<1>17. CASE HandleClosed
  BY <1>17, <1>0, <1>a, ClosedKnown DEF HandleClosed, Free, place, unwinding, Held
<1>18. CASE HandleRefused
  BY <1>18, <1>0, <1>a, ClosedKnown DEF HandleRefused, Free, place, Held
<1>19. CASE CleanupDone
  BY <1>19, <1>0, <1>a DEF CleanupDone, NextProgram, device, Propagated, Held
<1>20. CASE Done
  BY <1>20, <1>0, <1>a DEF Done, vars, Held
<1>21. CASE UNCHANGED vars
  BY <1>21, <1>0 DEF vars, Held, Types
<1> QED
  BY <1>1, <1>2, <1>3, <1>4, <1>5, <1>6, <1>7, <1>8, <1>9, <1>10, <1>11, <1>12,
     <1>13, <1>14, <1>15, <1>16, <1>17, <1>18, <1>19, <1>20, <1>21
     DEF Next

LEMMA FailuresStep == ASSUME Failures, Control, [Next]_vars PROVE Failures'
<1>0. request \in Requests /\ request' = request
  BY RequestKept DEF Control
<1>1. CASE Contract
  BY <1>1, <1>0 DEF Contract, Elapses, place, device, unwinding, Failures, Exceptions
<1>2. CASE RefuseRequest
  BY <1>2, <1>0, RaisedFacts
     DEF RefuseRequest, Elapses, Raise, place, device, Failures, Exceptions
<1>3. CASE CheckDeadline
  BY <1>3, <1>0, RaisedFacts
     DEF CheckDeadline, Raise, place, device, unwinding, Failures, Exceptions
<1>4. CASE Compose
  BY <1>4, <1>0, RaisedFacts
     DEF Compose, Raise, place, device, unwinding, Failures, Exceptions
<1>5. CASE Open
  BY <1>5, <1>0 DEF Open, Elapses, place, unwinding, Failures, Exceptions
<1>6. CASE OpenFails
  BY <1>6, <1>0, RaisedFacts
     DEF OpenFails, Elapses, Raise, place, device, Failures, Exceptions
<1>7. CASE OpenInterrupted
  BY <1>7, <1>0, RaisedFacts
     DEF OpenInterrupted, Elapses, Raise, place, Failures, Exceptions
<1>8. CASE SizesAgree
  BY <1>8, <1>0 DEF SizesAgree, NextProgram, device, unwinding, Failures, Exceptions
<1>9. CASE SizesDiffer
  BY <1>9, <1>0, RaisedFacts DEF SizesDiffer, Raise, place, device, Failures, Exceptions
<1>10. CASE TransferIn
  BY <1>10, <1>0 DEF TransferIn, Elapses, place, device, unwinding, Failures, Exceptions
<1>11. CASE Submit
  BY <1>11, <1>0 DEF Submit, Elapses, place, Late, unwinding, Failures, Exceptions
<1>12. CASE SubmitFails
  BY <1>12, <1>0, RaisedFacts
     DEF SubmitFails, Elapses, Raise, place, Late, Failures, Exceptions
<1>13. CASE Interrupted
  BY <1>13, <1>0, RaisedFacts
     DEF Interrupted, Elapses, Raise, place, device, Failures, Exceptions
<1>14. CASE TransferOut
  BY <1>14, <1>0
     DEF TransferOut, Elapses, NextProgram, device, unwinding, Failures, Exceptions
<1>15. CASE OutputsMatch
  BY <1>15, <1>0 DEF OutputsMatch, device, unwinding, Failures, Exceptions
<1>16. CASE OutputsDiffer
  BY <1>16, <1>0, RaisedFacts
     DEF OutputsDiffer, Raise, place, device, Failures, Exceptions
<1>17. CASE HandleClosed
  BY <1>17, <1>0 DEF HandleClosed, place, unwinding, Failures, Exceptions
<1>18. CASE HandleRefused
  BY <1>18, <1>0, RaisedFacts DEF HandleRefused, place, Failures, Exceptions
<1>19. CASE CleanupDone
  BY <1>19, <1>0 DEF CleanupDone, NextProgram, device, Propagated, Failures, Exceptions
<1>20. CASE Done
  BY <1>20, <1>0 DEF Done, vars, Failures, Exceptions
<1>21. CASE UNCHANGED vars
  BY <1>21, <1>0 DEF vars, Failures, Exceptions
<1> QED
  BY <1>1, <1>2, <1>3, <1>4, <1>5, <1>6, <1>7, <1>8, <1>9, <1>10, <1>11, <1>12,
     <1>13, <1>14, <1>15, <1>16, <1>17, <1>18, <1>19, <1>20, <1>21
     DEF Next

--------------------------------------------------------------------------------
(* Errors, handles and the late dispatch. *)

LEMMA TypesStep == ASSUME Types, [Next]_vars PROVE Types'
<1>1. Control'
  BY ControlStep DEF Types
<1>2. Held'
  BY HeldStep
<1>3. Failures'
  BY FailuresStep DEF Types
<1> QED
  BY <1>1, <1>2, <1>3 DEF Types

LEMMA ErrorsStep == ASSUME Types, Errors, [Next]_vars PROVE Errors'
<1>0. request \in Requests /\ request' = request
  BY RequestKept DEF Types, Control
<1>a. Control /\ Failures
  BY DEF Types
<1>1. CASE Contract
  BY <1>1, <1>0 DEF Contract, Elapses, place, device, unwinding, Errors, Exceptions
<1>2. CASE RefuseRequest
  BY <1>2, <1>0, RaisedFacts, <1>a
     DEF RefuseRequest, Elapses, Raise, place, device, Errors, Exceptions
<1>3. CASE CheckDeadline
  BY <1>3, <1>0, RaisedFacts, <1>a
     DEF CheckDeadline, Raise, place, device, unwinding, Errors, Exceptions
<1>4. CASE Compose
  BY <1>4, <1>0, RaisedFacts, <1>a
     DEF Compose, Raise, place, device, unwinding, Errors, Exceptions
<1>5. CASE Open
  BY <1>5, <1>0 DEF Open, Elapses, place, unwinding, Errors, Exceptions
<1>6. CASE OpenFails
  BY <1>6, <1>0, RaisedFacts, <1>a
     DEF OpenFails, Elapses, Raise, place, device, Errors, Exceptions
<1>7. CASE OpenInterrupted
  BY <1>7, <1>0, RaisedFacts, <1>a
     DEF OpenInterrupted, Elapses, Raise, place, Errors, Exceptions
<1>8. CASE SizesAgree
  BY <1>8, <1>0, NextFacts, <1>a DEF SizesAgree, device, unwinding, Errors, Exceptions
<1>9. CASE SizesDiffer
  BY <1>9, <1>0, RaisedFacts, <1>a
     DEF SizesDiffer, Raise, place, device, Errors, Exceptions
<1>10. CASE TransferIn
  BY <1>10, <1>0 DEF TransferIn, Elapses, place, device, unwinding, Errors, Exceptions
<1>11. CASE Submit
  BY <1>11, <1>0 DEF Submit, Elapses, place, Late, unwinding, Errors, Exceptions
<1>12. CASE SubmitFails
  BY <1>12, <1>0, RaisedFacts, <1>a
     DEF SubmitFails, Elapses, Raise, place, Late, Errors, Exceptions
<1>13. CASE Interrupted
  BY <1>13, <1>0, RaisedFacts, <1>a
     DEF Interrupted, Elapses, Raise, place, device, Errors, Exceptions
<1>14. CASE TransferOut
  BY <1>14, <1>0, NextFacts, <1>a
     DEF TransferOut, Elapses, device, unwinding, Errors, Exceptions
<1>15. CASE OutputsMatch
  BY <1>15, <1>0 DEF OutputsMatch, device, unwinding, Errors, Exceptions
<1>16. CASE OutputsDiffer
  BY <1>16, <1>0, RaisedFacts, <1>a
     DEF OutputsDiffer, Raise, place, device, Errors, Exceptions
<1>17. CASE HandleClosed
  BY <1>17, <1>0 DEF HandleClosed, place, unwinding, Errors, Exceptions
<1>18. CASE HandleRefused
  BY <1>18, <1>0, RaisedFacts, <1>a DEF HandleRefused, place, Errors, Exceptions
<1>19. CASE CleanupDone
  BY <1>19, <1>0, NextFacts, <1>a
     DEF CleanupDone, device, Propagated, Errors, Exceptions
<1>20. CASE Done
  BY <1>20, <1>0 DEF Done, vars, Errors, Exceptions
<1>21. CASE UNCHANGED vars
  BY <1>21 DEF vars, Errors
<1> QED
  BY <1>1, <1>2, <1>3, <1>4, <1>5, <1>6, <1>7, <1>8, <1>9, <1>10, <1>11, <1>12,
     <1>13, <1>14, <1>15, <1>16, <1>17, <1>18, <1>19, <1>20, <1>21
     DEF Next

LEMMA HandlesStep == ASSUME Types, Errors, Handles, [Next]_vars PROVE Handles'
<1>0. request \in Requests /\ request' = request
  BY RequestKept DEF Types, Control
<1>a. Control /\ Failures /\ Held /\ Program \in Programs(request)
  BY RequestFacts DEF Types, Control, Program
<1>1. CASE Contract
  BY <1>1, <1>0, <1>a
     DEF Contract, Elapses, place, device, unwinding, Handles, Errors, Held,
         Exceptions
<1>2. CASE RefuseRequest
  BY <1>2, <1>0, <1>a, RaisedFacts
     DEF RefuseRequest, Elapses, Raise, place, device, Handles, Errors, Held,
         Exceptions
<1>3. CASE CheckDeadline
  BY <1>3, <1>0, <1>a, RaisedFacts
     DEF CheckDeadline, Raise, place, device, unwinding, Handles, Errors, Held,
         Exceptions
<1>4. CASE Compose
  BY <1>4, <1>0, <1>a, RaisedFacts
     DEF Compose, Raise, place, device, unwinding, Handles, Errors, Held, Exceptions
<1>5. CASE Open
  BY <1>5, <1>0, <1>a
     DEF Open, Elapses, place, unwinding, Handles, Errors, Held, Exceptions
<1>6. CASE OpenFails
  BY <1>6, <1>0, <1>a, RaisedFacts
     DEF OpenFails, Elapses, Raise, place, device, Handles, Errors, Held, Exceptions
<1>7. CASE OpenInterrupted
  <2>1. /\ handle' = [handle EXCEPT ![Program] = "open"] /\ known' = known
        /\ step' = "cleanup" /\ Program' = Program
        /\ step = "open" /\ raised' = Append(raised, "lost")
    BY <1>7, <1>0 DEF OpenInterrupted, Raise, place, Program
  <2>2. raised = <<>> /\ raised' # <<>> /\ raised'[1] = "lost"
    BY <2>1, <1>a, RaisedFacts DEF Errors, Exceptions
  <2> QED
    BY <2>1, <2>2, <1>a, <1>0 DEF Handles, Held
<1>8. CASE SizesAgree
  BY <1>8, <1>0, <1>a, NextFacts
     DEF SizesAgree, device, unwinding, Handles, Errors, Held, Exceptions
<1>9. CASE SizesDiffer
  BY <1>9, <1>0, <1>a, RaisedFacts
     DEF SizesDiffer, Raise, place, device, Handles, Errors, Held, Exceptions
<1>10. CASE TransferIn
  BY <1>10, <1>0, <1>a
     DEF TransferIn, Elapses, place, device, unwinding, Handles, Errors, Held,
         Exceptions
<1>11. CASE Submit
  BY <1>11, <1>0, <1>a
     DEF Submit, Elapses, place, Late, unwinding, Handles, Errors, Held, Exceptions
<1>12. CASE SubmitFails
  BY <1>12, <1>0, <1>a, RaisedFacts
     DEF SubmitFails, Elapses, Raise, place, Late, Handles, Errors, Held, Exceptions
<1>13. CASE Interrupted
  BY <1>13, <1>0, <1>a, RaisedFacts
     DEF Interrupted, Elapses, Raise, place, device, Handles, Errors, Held,
         Exceptions
<1>14. CASE TransferOut
  BY <1>14, <1>0, <1>a, NextFacts
     DEF TransferOut, Elapses, device, unwinding, Handles, Errors, Held, Exceptions
<1>15. CASE OutputsMatch
  BY <1>15, <1>0, <1>a
     DEF OutputsMatch, device, unwinding, Handles, Errors, Held, Exceptions
<1>16. CASE OutputsDiffer
  BY <1>16, <1>0, <1>a, RaisedFacts
     DEF OutputsDiffer, Raise, place, device, Handles, Errors, Held, Exceptions
<1>17. CASE HandleClosed
  <2>1. /\ NextClosed \in known /\ handle' = Free(NextClosed)
        /\ known' = known \ {NextClosed} /\ step' = "cleanup" /\ Program' = Program
        /\ \/ raised' = raised
           \/ raised' = Append(raised, "free")
    BY <1>17, <1>0, ClosedKnown DEF HandleClosed, place, unwinding, Program
  <2>2. raised # <<>> => raised' # <<>> /\ raised'[1] = raised[1]
    BY <2>1, <1>a, RaisedFacts DEF Exceptions
  <2>4. \A n \in Programs(request) :
          handle'[n] = IF n = NextClosed THEN "freed" ELSE handle[n]
    BY <2>1, <1>a DEF Free, Handles, Held
  <2> QED
    BY <2>1, <2>2, <2>4, <1>0, <1>a DEF Handles, Held
<1>18. CASE HandleRefused
  <2>1. /\ NextClosed \in known /\ handle' = Free(NextClosed)
        /\ known' = known \ {NextClosed} /\ step' = "cleanup" /\ Program' = Program
        /\ \/ raised' = raised
           \/ raised' = Append(raised, "free")
    BY <1>18, <1>0, ClosedKnown DEF HandleRefused, place, unwinding, Program
  <2>2. raised # <<>> => raised' # <<>> /\ raised'[1] = raised[1]
    BY <2>1, <1>a, RaisedFacts DEF Exceptions
  <2>4. \A n \in Programs(request) :
          handle'[n] = IF n = NextClosed THEN "freed" ELSE handle[n]
    BY <2>1, <1>a DEF Free, Handles, Held
  <2> QED
    BY <2>1, <2>2, <2>4, <1>0, <1>a DEF Handles, Held
<1>19. CASE CleanupDone
  <2>1. /\ known = {} /\ known' = known /\ handle' = handle /\ raised' = raised
        /\ step = "cleanup"
    BY <1>19 DEF CleanupDone, device
  <2>2. raised # <<>> => Program' = Program
    BY <1>19, <1>0 DEF CleanupDone, Propagated, Errors, Program
  <2> QED
    BY <2>1, <2>2, <1>0 DEF Handles
<1>20. CASE Done
  <2>1. /\ known' = known /\ handle' = handle /\ raised' = raised /\ step' = step
        /\ Program' = Program
    BY <1>20 DEF Done, vars, Program
  <2> QED
    BY <2>1, <1>0 DEF Handles
<1>21. CASE UNCHANGED vars
  <2>1. /\ known' = known /\ handle' = handle /\ raised' = raised /\ step' = step
        /\ Program' = Program
    BY <1>21 DEF vars, Program
  <2> QED
    BY <2>1, <1>0 DEF Handles
<1> QED
  BY <1>1, <1>2, <1>3, <1>4, <1>5, <1>6, <1>7, <1>8, <1>9, <1>10, <1>11, <1>12,
     <1>13, <1>14, <1>15, <1>16, <1>17, <1>18, <1>19, <1>20, <1>21
     DEF Next

LEMMA LatenessStep == ASSUME Control, Lateness, [Next]_vars PROVE Lateness'
<1>0. request \in Requests /\ request' = request
  BY RequestKept DEF Types, Control
<1>a. MaxTime \in Nat
  BY RunnerAssumption
<1>1. CASE Contract
  BY <1>1, <1>0, <1>a DEF Contract, Elapses, place, device, unwinding, Control, Lateness
<1>2. CASE RefuseRequest
  BY <1>2, <1>0, <1>a
     DEF RefuseRequest, Elapses, Raise, place, device, Control, Lateness
<1>3. CASE CheckDeadline
  BY <1>3, <1>0, <1>a
     DEF CheckDeadline, Raise, place, device, unwinding, Control, Lateness
<1>4. CASE Compose
  BY <1>4, <1>0, <1>a DEF Compose, Raise, place, device, unwinding, Control, Lateness
<1>5. CASE Open
  BY <1>5, <1>0, <1>a DEF Open, Elapses, place, unwinding, Control, Lateness
<1>6. CASE OpenFails
  BY <1>6, <1>0, <1>a DEF OpenFails, Elapses, Raise, place, device, Control, Lateness
<1>7. CASE OpenInterrupted
  BY <1>7, <1>0, <1>a DEF OpenInterrupted, Elapses, Raise, place, Control, Lateness
<1>8. CASE SizesAgree
  BY <1>8, <1>0, <1>a, NextFacts DEF SizesAgree, device, unwinding, Control, Lateness
<1>9. CASE SizesDiffer
  BY <1>9, <1>0, <1>a DEF SizesDiffer, Raise, place, device, Control, Lateness
<1>10. CASE TransferIn
  BY <1>10, <1>0, <1>a
     DEF TransferIn, Elapses, place, device, unwinding, Control, Lateness
<1>11. CASE Submit
  BY <1>11, <1>0, <1>a DEF Submit, Elapses, place, Late, unwinding, Control, Lateness
<1>12. CASE SubmitFails
  BY <1>12, <1>0, <1>a DEF SubmitFails, Elapses, Raise, place, Late, Control, Lateness
<1>13. CASE Interrupted
  BY <1>13, <1>0, <1>a DEF Interrupted, Elapses, Raise, place, device, Control, Lateness
<1>14. CASE TransferOut
  BY <1>14, <1>0, <1>a, NextFacts
     DEF TransferOut, Elapses, device, unwinding, Control, Lateness
<1>15. CASE OutputsMatch
  BY <1>15, <1>0, <1>a DEF OutputsMatch, device, unwinding, Control, Lateness
<1>16. CASE OutputsDiffer
  BY <1>16, <1>0, <1>a DEF OutputsDiffer, Raise, place, device, Control, Lateness
<1>17. CASE HandleClosed
  BY <1>17, <1>0, <1>a DEF HandleClosed, place, unwinding, Control, Lateness
<1>18. CASE HandleRefused
  BY <1>18, <1>0, <1>a DEF HandleRefused, place, Control, Lateness
<1>19. CASE CleanupDone
  BY <1>19, <1>0, <1>a, NextFacts DEF CleanupDone, device, Propagated, Control, Lateness
<1>20. CASE Done
  BY <1>20, <1>0, <1>a DEF Done, vars, Control, Lateness
<1>21. CASE UNCHANGED vars
  BY <1>21, <1>0 DEF vars, Control, Lateness
<1> QED
  BY <1>1, <1>2, <1>3, <1>4, <1>5, <1>6, <1>7, <1>8, <1>9, <1>10, <1>11, <1>12,
     <1>13, <1>14, <1>15, <1>16, <1>17, <1>18, <1>19, <1>20, <1>21
     DEF Next

--------------------------------------------------------------------------------
(* What is computed and compared. *)

LEMMA ExactFacts ==
  ASSUME NEW S, NEW k \in Nat
  PROVE  /\ Exact(S, 0) = <<>>
         /\ Exact(S, k + 1) # <<>>
         /\ Append(Exact(S, k), [v \in S |-> k + 1]) = Exact(S, k + 1)
<1>1. Exact(S, 0) = <<>>
  BY DEF Exact
<1>2. DOMAIN Exact(S, k + 1) = 1 .. k + 1 /\ 1 \in 1 .. k + 1
  BY DEF Exact
<1>3. Exact(S, k + 1) # <<>>
  BY <1>2
<1> DEFINE T == {[v \in S |-> i] : i \in 1 .. k + 1}
<1>4. Exact(S, k) \in Seq(T) /\ Len(Exact(S, k)) = k /\ [v \in S |-> k + 1] \in T
  <2>1. [v \in S |-> k + 1] \in T
    OBVIOUS
  <2>2. \A i \in 1 .. k : [v \in S |-> i] \in T
    OBVIOUS
  <2> QED
    BY <2>1, <2>2 DEF Exact
<1>5. Exact(S, k + 1) \in Seq(T) /\ Len(Exact(S, k + 1)) = k + 1
  BY DEF Exact
<1>6. \A i \in 1 .. k + 1 : Append(Exact(S, k), [v \in S |-> k + 1])[i] = Exact(S, k + 1)[i]
  BY <1>4, <1>5, AppendProperties DEF Exact
<1>7. Append(Exact(S, k), [v \in S |-> k + 1]) \in Seq(T)
      /\ Len(Append(Exact(S, k), [v \in S |-> k + 1])) = k + 1
  <2> HIDE DEF T
  <2> QED
    BY <1>4, AppendProperties
<1>8. Append(Exact(S, k), [v \in S |-> k + 1]) = Exact(S, k + 1)
  <2> HIDE DEF T
  <2> QED
    BY <1>5, <1>6, <1>7, SeqEqual
<1> QED
  BY <1>1, <1>3, <1>8

(* Every output is the product of a program of the plan, and what a        *)
(* program reads as an intermediate that of an earlier one.                *)
LEMMA ProducedFacts ==
  ASSUME request \in Requests
  PROVE  /\ \A v \in Outputs : \E n \in Programs(request) : v \in Produced(request, n)
         /\ \A n \in Programs(request) : \A v \in Reads(n) :
              Role(v) = "intermediate" =>
                \E m \in Programs(request) :
                  v \in Produced(request, m) /\ Position(request, m) < Position(request, n)
<1>1. IsPackage(request)
  BY RunnerAssumption DEF IsRequest
<1> QED
  BY <1>1 DEF IsPackage, Outputs, Values, Role, Reads

LEMMA ComputedFacts ==
  ASSUME Control, Sent, step = "exec", ~ preparing
  PROVE  Computed \in {0, iteration}
<1> DEFINE ages == {buffers[Program][v] : v \in Reads(Program)} \cup {iteration}
<1>1. ages \subseteq {0, iteration} /\ ages # {} /\ iteration \in Nat
  BY DEF Sent, Control
<1>2. ages \in SUBSET Nat
  BY <1>1
<1>3. \E a \in ages : \A b \in ages : a <= b
  <2> HIDE DEF ages
  <2> QED
    BY <1>1, <1>2, Least
<1>4. Computed \in ages
  BY <1>3 DEF Computed
<1> QED
  BY <1>1, <1>4

LEMMA InitData == Init => DInv
<1> SUFFICES ASSUME Init PROVE DInv
  OBVIOUS
<1>1. request \in Requests
  BY DEF Init
<1>2. /\ request.warmup \in Nat /\ request.iterations \in Nat \ {0}
      /\ request.mode \in {"dry", "once", "benchmark"}
  BY <1>1, RequestFacts
<1>3. Phase
  <2>1. checked = Exact(Outputs, iteration - 1)
    <3>1. iteration - 1 = 0 /\ checked = <<>>
      BY DEF Init
    <3>2. \A S : Exact(S, 0) = <<>>
      BY ExactFacts
    <3> QED
      BY <3>1, <3>2
  <2>2. 1 <= iteration /\ iteration <= request.warmup + request.iterations
    BY <1>2 DEF Init
  <2> QED
    BY <2>1, <2>2 DEF Init, Phase, Benchmarking
<1>4. Regions
  <2>1. DOMAIN regions = {}
    BY DEF Init
  <2>2. position = 1 /\ step = "contract"
    BY DEF Init
  <2>3. \A n \in Programs(request) : ~ (Position(request, n) < 1)
    BY <1>1, PositionFacts, RequestFacts
  <2> QED
    BY <2>1, <2>2, <2>3 DEF Regions
<1>5. Sent
  BY DEF Init, Sent
<1>6. Counted
  <2>1. preparing <=> Benchmarking
    BY DEF Init, Benchmarking
  <2>2. \A n \in Programs(request) : Benchmarking => ~ Passed(n)
    BY <2>1 DEF Passed
  <2> QED
    BY <1>2, <2>2 DEF Init, Counted, Count
<1> QED
  BY <1>3, <1>4, <1>5, <1>6 DEF DInv

LEMMA PhaseStep == ASSUME Types, Errors, Phase, Regions, [Next]_vars PROVE Phase'
<1>0. request \in Requests /\ request' = request
  BY RequestKept DEF Types, Control
<1>a. Control /\ Failures /\ request.warmup \in Nat /\ request.iterations \in Nat \ {0}
  BY RequestFacts DEF Types, Control
<1>b. Outputs' = Outputs
  BY <1>0 DEF Outputs, Values, Role
<1>1. CASE Contract
  BY <1>1, <1>0, <1>a, <1>b
     DEF Contract, Elapses, place, device, unwinding, data, Phase, Errors,
         Benchmarking, Exceptions
<1>2. CASE RefuseRequest
  BY <1>2, <1>0, <1>a, <1>b, RaisedFacts
     DEF RefuseRequest, Elapses, Raise, place, device, data, Phase, Errors,
         Benchmarking, Exceptions
<1>3. CASE CheckDeadline
  BY <1>3, <1>0, <1>a, <1>b, RaisedFacts
     DEF CheckDeadline, Raise, place, device, unwinding, data, Phase, Errors,
         Benchmarking, Exceptions
<1>4. CASE Compose
  BY <1>4, <1>0, <1>a, <1>b, RaisedFacts
     DEF Compose, Raise, place, device, unwinding, data, Phase, Errors, Benchmarking,
         Exceptions
<1>5. CASE Open
  BY <1>5, <1>0, <1>a, <1>b
     DEF Open, Elapses, place, unwinding, data, Phase, Errors, Benchmarking,
         Exceptions
<1>6. CASE OpenFails
  BY <1>6, <1>0, <1>a, <1>b, RaisedFacts
     DEF OpenFails, Elapses, Raise, place, device, data, Phase, Errors, Benchmarking,
         Exceptions
<1>7. CASE OpenInterrupted
  BY <1>7, <1>0, <1>a, <1>b, RaisedFacts
     DEF OpenInterrupted, Elapses, Raise, place, data, Phase, Errors, Benchmarking,
         Exceptions
<1>8. CASE SizesAgree
  BY <1>8, <1>0, <1>a, <1>b, NextFacts
     DEF SizesAgree, device, unwinding, data, Phase, Errors, Benchmarking, Exceptions
<1>9. CASE SizesDiffer
  BY <1>9, <1>0, <1>a, <1>b, RaisedFacts
     DEF SizesDiffer, Raise, place, device, data, Phase, Errors, Benchmarking,
         Exceptions
<1>10. CASE TransferIn
  BY <1>10, <1>0, <1>a, <1>b
     DEF TransferIn, Elapses, place, device, unwinding, data, Phase, Errors,
         Benchmarking, Exceptions
<1>11. CASE Submit
  BY <1>11, <1>0, <1>a, <1>b
     DEF Submit, Elapses, place, Late, unwinding, data, Phase, Errors, Benchmarking,
         Exceptions
<1>12. CASE SubmitFails
  BY <1>12, <1>0, <1>a, <1>b, RaisedFacts
     DEF SubmitFails, Elapses, Raise, place, Late, data, Phase, Errors, Benchmarking,
         Exceptions
<1>13. CASE Interrupted
  BY <1>13, <1>0, <1>a, <1>b, RaisedFacts
     DEF Interrupted, Elapses, Raise, place, device, data, Phase, Errors,
         Benchmarking, Exceptions
<1>14. CASE TransferOut
  <2>1. CASE Benchmarking
    BY <1>14, <2>1, <1>0, <1>a, <1>b, NextFacts
       DEF TransferOut, device, unwinding, data, Phase, Errors, Benchmarking
  <2>2. CASE ~ Benchmarking
    <3>1. request.warmup = 0 /\ request.iterations = 1
      BY <2>2, <1>0, RequestFacts DEF Benchmarking
    <3>2. iteration = 1 /\ checked = <<>> /\ ~ preparing
      <4>1. iteration = 1 /\ ~ preparing /\ checked = Exact(Outputs, iteration - 1)
        BY <1>14, <2>2, <3>1, <1>a DEF TransferOut, Phase, Control
      <4>2. Exact(Outputs, 0) = <<>>
        BY ExactFacts
      <4> QED
        BY <4>1, <4>2
    <3> QED
      BY <1>14, <2>2, <3>1, <3>2, <1>0, <1>a, <1>b
         DEF TransferOut, device, unwinding, data, Phase, Errors, Benchmarking
  <2> QED
    BY <2>1, <2>2
<1>15. CASE OutputsMatch
  <2>1. /\ step = "compare" /\ position = 1 /\ ~ preparing /\ raised = <<>>
        /\ position' = position /\ preparing' = preparing /\ raised' = raised
        /\ checked = Exact(Outputs, iteration - 1) /\ request.mode # "dry"
        /\ checked' = Append(checked, [v \in Outputs |-> regions[v]])
    BY <1>15 DEF OutputsMatch, unwinding, Phase, Errors
  <2>2. \A v \in Outputs : regions[v] = iteration
    <3> SUFFICES ASSUME NEW v \in Outputs PROVE regions[v] = iteration
      OBVIOUS
    <3>1. PICK n \in Programs(request) : v \in Produced(request, n)
      BY <1>0, ProducedFacts
    <3>2. v \in DOMAIN regions
      BY <2>1, <3>1 DEF Regions
    <3>3. regions[v] \in {0, iteration}
      BY <3>2 DEF Regions
    <3> QED
      BY <3>3, <1>15 DEF OutputsMatch
  <2>3. checked' = Exact(Outputs, iteration)
    <3>1. iteration - 1 \in Nat /\ iteration - 1 + 1 = iteration
      BY <1>a DEF Control, Phase
    <3>2. [v \in Outputs |-> regions[v]] = [v \in Outputs |-> iteration]
      BY <2>2
    <3>3. Append(Exact(Outputs, iteration - 1), [v \in Outputs |-> iteration - 1 + 1])
          = Exact(Outputs, iteration - 1 + 1)
      BY <3>1, ExactFacts
    <3> QED
      BY <2>1, <3>1, <3>2, <3>3
  <2>4. CASE iteration < request.warmup + request.iterations
    <3>1. iteration' = iteration + 1 /\ step' = "check" /\ iteration' - 1 = iteration
      BY <1>15, <2>4, <1>a DEF OutputsMatch, Control
    <3>2. 1 <= iteration' /\ iteration' <= request.warmup + request.iterations
      BY <3>1, <2>4, <1>a DEF Control, Phase
    <3> QED
      BY <2>1, <2>3, <3>1, <3>2, <1>0, <1>b DEF Phase
  <2>5. CASE ~ (iteration < request.warmup + request.iterations)
    <3>1. iteration' = iteration /\ step' = "cleanup"
      BY <1>15, <2>5 DEF OutputsMatch
    <3>2. 1 <= iteration /\ iteration = request.warmup + request.iterations
      BY <2>5, <1>a DEF Control, Phase
    <3> QED
      BY <2>1, <2>3, <3>1, <3>2, <1>0, <1>b DEF Phase
  <2> QED
    BY <2>4, <2>5
<1>16. CASE OutputsDiffer
  BY <1>16, <1>0, <1>a, <1>b, RaisedFacts
     DEF OutputsDiffer, Raise, place, device, data, Phase, Errors, Benchmarking,
         Exceptions
<1>17. CASE HandleClosed
  BY <1>17, <1>0, <1>a, <1>b
     DEF HandleClosed, place, unwinding, data, Phase, Errors, Benchmarking,
         Exceptions
<1>18. CASE HandleRefused
  BY <1>18, <1>0, <1>a, <1>b, RaisedFacts
     DEF HandleRefused, place, data, Phase, Errors, Benchmarking, Exceptions
<1>19. CASE CleanupDone
  <2>1. /\ step = "cleanup" /\ iteration' = iteration /\ checked' = checked
        /\ raised' = raised /\ error' = Propagated
    BY <1>19 DEF CleanupDone, data
  <2>2. CASE Propagated = "none" /\ ~ Benchmarking /\ checked = <<>>
    <3>1. NextProgram /\ raised = <<>>
      BY <1>19, <2>2 DEF CleanupDone, Propagated, Errors
    <3>2. request.mode # "dry"
      BY <3>1, <2>1 DEF Phase
    <3>3. ~ preparing /\ iteration = 1
      <4>1. iteration # 0 /\ Exact(Outputs, iteration) # <<>>
        <5>1. iteration - 1 \in Nat /\ iteration - 1 + 1 = iteration
          BY <1>a DEF Control, Phase
        <5> QED
          BY <5>1, ExactFacts
      <4> QED
        BY <3>1, <3>2, <2>1, <2>2, <4>1 DEF Phase
    <3>4. checked' = Exact(Outputs, iteration - 1)
      <4>1. Exact(Outputs, 0) = <<>>
        BY ExactFacts
      <4> QED
        BY <2>1, <2>2, <3>3, <4>1
    <3> QED
      BY <3>1, <3>2, <3>3, <3>4, <2>1, <1>0, <1>a, <1>b, NextFacts DEF Phase
  <2>3. CASE ~ (Propagated = "none" /\ ~ Benchmarking /\ checked = <<>>)
    <3>1. step' = "ended" /\ preparing' = preparing /\ position' = position
      BY <1>19, <2>3 DEF CleanupDone
    <3>2. raised = <<>> => Propagated = "none"
      BY DEF Propagated, Errors
    <3> QED
      BY <2>1, <2>3, <3>1, <3>2, <1>0, <1>b DEF Phase, Benchmarking
  <2> QED
    BY <2>2, <2>3
<1>20. CASE Done
  BY <1>20, <1>0, <1>a, <1>b DEF Done, vars, Phase, Errors, Benchmarking, Exceptions
<1>21. CASE UNCHANGED vars
  BY <1>21, <1>0, <1>a, <1>b DEF vars, Phase, Errors, Benchmarking, Exceptions
<1> QED
  BY <1>1, <1>2, <1>3, <1>4, <1>5, <1>6, <1>7, <1>8, <1>9, <1>10, <1>11, <1>12,
     <1>13, <1>14, <1>15, <1>16, <1>17, <1>18, <1>19, <1>20, <1>21
     DEF Next

LEMMA RegionsStep == ASSUME Types, Errors, Phase, Regions, Sent, [Next]_vars PROVE Regions'
<1>0. request \in Requests /\ request' = request
  BY RequestKept DEF Types, Control
<1>a. Control /\ Failures /\ request.warmup \in Nat /\ request.iterations \in Nat \ {0}
  BY RequestFacts DEF Types, Control
<1>c. /\ \A n \in Programs(request) :
           /\ Position(request, n) \in 1 .. Len(request.plan)
           /\ Position(request, n) = position => n = Program
      /\ Position(request, Program) = position /\ Program \in Programs(request)
      /\ DOMAIN request.plan = 1 .. Len(request.plan) /\ Len(request.plan) \in Nat
  BY <1>0, <1>a, PositionFacts, RequestFacts DEF Program, Control
<1>d. \A n \in Programs(request) :
        Position(request, n) \in Nat /\ ~ (Position(request, n) < 1)
  BY <1>c
<1>1. CASE Contract
  BY <1>1, <1>0, <1>a
     DEF Contract, Elapses, place, device, unwinding, data, Regions, Errors, Phase,
         Exceptions
<1>2. CASE RefuseRequest
  BY <1>2, <1>0, <1>a, RaisedFacts
     DEF RefuseRequest, Elapses, Raise, place, device, data, Regions, Errors, Phase,
         Exceptions
<1>3. CASE CheckDeadline
  BY <1>3, <1>0, <1>a, RaisedFacts
     DEF CheckDeadline, Raise, place, device, unwinding, data, Regions, Errors,
         Phase, Exceptions
<1>4. CASE Compose
  BY <1>4, <1>0, <1>a, RaisedFacts
     DEF Compose, Raise, place, device, unwinding, data, Regions, Errors, Phase,
         Exceptions
<1>5. CASE Open
  BY <1>5, <1>0, <1>a
     DEF Open, Elapses, place, unwinding, data, Regions, Errors, Phase, Exceptions
<1>6. CASE OpenFails
  BY <1>6, <1>0, <1>a, RaisedFacts
     DEF OpenFails, Elapses, Raise, place, device, data, Regions, Errors, Phase,
         Exceptions
<1>7. CASE OpenInterrupted
  BY <1>7, <1>0, <1>a, RaisedFacts
     DEF OpenInterrupted, Elapses, Raise, place, data, Regions, Errors, Phase,
         Exceptions
<1>8. CASE SizesAgree
  <2>1. /\ regions' = regions /\ iteration' = iteration /\ raised' = raised
        /\ step = "sizes"
    BY <1>8 DEF SizesAgree, unwinding
  <2>2. CASE preparing
    <3>1. preparing' \/ (~ preparing' /\ position' = 1 /\ step' = "check")
      BY <1>8, <2>2, <1>a, NextFacts DEF SizesAgree
    <3> QED
      BY <2>1, <3>1, <1>0, <1>d DEF Regions
  <2>3. CASE ~ preparing
    <3>1. preparing' = preparing /\ position' = position /\ step' = "send"
      BY <1>8, <2>3 DEF SizesAgree
    <3> QED
      BY <2>1, <3>1, <1>0 DEF Regions
  <2> QED
    BY <2>2, <2>3
<1>9. CASE SizesDiffer
  BY <1>9, <1>0, <1>a, RaisedFacts
     DEF SizesDiffer, Raise, place, device, data, Regions, Errors, Phase, Exceptions
<1>10. CASE TransferIn
  BY <1>10, <1>0, <1>a
     DEF TransferIn, Elapses, place, device, unwinding, data, Regions, Errors, Phase,
         Exceptions
<1>11. CASE Submit
  <2>1. /\ ~ preparing /\ raised = <<>> /\ step = "exec" /\ step' = "read"
        /\ position' = position /\ iteration' = iteration /\ preparing' = preparing
    BY <1>11 DEF Submit, place, Phase, Errors
  <2>2. Computed \in {0, iteration}
    BY <2>1, <1>a, ComputedFacts
  <2>3. PICK result \in {Computed, 0} :
          regions' = [v \in DOMAIN regions \cup Produced(request, Program) |->
                        IF v \in Produced(request, Program) THEN result ELSE regions[v]]
    BY <1>11 DEF Submit
  <2>4. \A v \in DOMAIN regions' : regions'[v] \in {0, iteration}
    BY <2>2, <2>3 DEF Regions
  <2>5. \A n \in Programs(request) :
          Position(request, n) < position => Produced(request, n) \subseteq DOMAIN regions
    BY <2>1 DEF Regions
  <2>6. /\ DOMAIN regions \subseteq DOMAIN regions'
        /\ Produced(request, Program) \subseteq DOMAIN regions'
    BY <2>3
  <2> QED
    BY <2>1, <2>4, <2>5, <2>6, <1>0, <1>c DEF Regions
<1>12. CASE SubmitFails
  BY <1>12, <1>0, <1>a, RaisedFacts
     DEF SubmitFails, Elapses, Raise, place, Late, data, Regions, Errors, Phase,
         Exceptions
<1>13. CASE Interrupted
  BY <1>13, <1>0, <1>a, RaisedFacts
     DEF Interrupted, Elapses, Raise, place, device, data, Regions, Errors, Phase,
         Exceptions
<1>14. CASE TransferOut
  <2>1. /\ regions' = regions /\ iteration' = iteration /\ raised' = raised
        /\ step = "read" /\ raised = <<>> /\ ~ preparing
    BY <1>14 DEF TransferOut, unwinding, Errors, Phase
  <2>2. CASE Benchmarking
    <3>0. NextProgram
      BY <1>14, <2>2 DEF TransferOut
    <3>1. \A n \in Programs(request) :
            Position(request, n) < position \/ Position(request, n) = position =>
              Produced(request, n) \subseteq DOMAIN regions
      BY <2>1, <2>1 DEF Regions
    <3>2. CASE preparing' = preparing /\ position' = position + 1 /\ step' = "check"
      <4>1. position \in Nat
        BY <1>a, <1>c DEF Control
      <4>2. \A n \in Programs(request) : Position(request, n) < position + 1 =>
              Position(request, n) < position \/ Position(request, n) = position
        BY <4>1, <1>d
      <4> QED
        BY <2>1, <3>1, <3>2, <4>2, <1>0 DEF Regions
    <3>3. CASE ~ preparing' /\ position' = 1 /\ step' = "compare" /\ position = Len(request.plan)
      <4>1. \A n \in Programs(request) :
              Position(request, n) < position \/ Position(request, n) = position
        BY <3>3, <1>c
      <4> QED
        BY <2>1, <3>1, <3>3, <4>1, <1>0 DEF Regions
    <3> QED
      BY <2>1, <3>0, <1>a, <3>2, <3>3, NextFacts
  <2>3. CASE ~ Benchmarking
    BY <1>14, <2>1, <2>3, <1>0 DEF TransferOut, Regions
  <2> QED
    BY <2>2, <2>3
<1>15. CASE OutputsMatch
  <2>1. /\ step = "compare" /\ position = 1 /\ ~ preparing /\ raised = <<>>
        /\ position' = position /\ preparing' = preparing /\ raised' = raised
    BY <1>15 DEF OutputsMatch, unwinding, Phase, Errors
  <2>2. CASE iteration < request.warmup + request.iterations
    <3>1. DOMAIN regions' = {} /\ step' = "check"
      BY <1>15, <2>2 DEF OutputsMatch
    <3> QED
      BY <2>1, <3>1, <1>0, <1>d DEF Regions
  <2>3. CASE ~ (iteration < request.warmup + request.iterations)
    <3>1. regions' = regions /\ iteration' = iteration
      BY <1>15, <2>3 DEF OutputsMatch
    <3> QED
      BY <2>1, <3>1, <1>0 DEF Regions
  <2> QED
    BY <2>2, <2>3
<1>16. CASE OutputsDiffer
  BY <1>16, <1>0, <1>a, RaisedFacts
     DEF OutputsDiffer, Raise, place, device, data, Regions, Errors, Phase,
         Exceptions
<1>17. CASE HandleClosed
  BY <1>17, <1>0, <1>a
     DEF HandleClosed, place, unwinding, data, Regions, Errors, Phase, Exceptions
<1>18. CASE HandleRefused
  BY <1>18, <1>0, <1>a, RaisedFacts
     DEF HandleRefused, place, data, Regions, Errors, Phase, Exceptions
<1>19. CASE CleanupDone
  <2>1. /\ step = "cleanup" /\ iteration' = iteration /\ regions' = regions
        /\ raised' = raised
    BY <1>19 DEF CleanupDone, data
  <2>2. CASE Propagated = "none" /\ ~ Benchmarking /\ checked = <<>>
    <3>0. NextProgram /\ raised = <<>> /\ ~ preparing
      BY <1>19, <2>2 DEF CleanupDone, Propagated, Errors, Phase
    <3>1. \A n \in Programs(request) :
            Position(request, n) < position \/ Position(request, n) = position =>
              Produced(request, n) \subseteq DOMAIN regions
      BY <2>1, <3>0 DEF Regions
    <3>2. CASE preparing' = preparing /\ position' = position + 1 /\ step' = "check"
      <4>1. position \in Nat
        BY <1>a, <1>c DEF Control
      <4>2. \A n \in Programs(request) : Position(request, n) < position + 1 =>
              Position(request, n) < position \/ Position(request, n) = position
        BY <4>1, <1>d
      <4> QED
        BY <2>1, <3>1, <3>2, <4>2, <1>0 DEF Regions
    <3>3. CASE ~ preparing' /\ position' = 1 /\ step' = "compare" /\ position = Len(request.plan)
      <4>1. \A n \in Programs(request) :
              Position(request, n) < position \/ Position(request, n) = position
        BY <3>3, <1>c
      <4> QED
        BY <2>1, <3>1, <3>3, <4>1, <1>0 DEF Regions
    <3> QED
      BY <3>0, <1>a, <3>2, <3>3, NextFacts
  <2>3. CASE ~ (Propagated = "none" /\ ~ Benchmarking /\ checked = <<>>)
    <3>1. step' = "ended" /\ preparing' = preparing /\ position' = position
      BY <1>19, <2>3 DEF CleanupDone
    <3> QED
      BY <2>1, <3>1, <1>0 DEF Regions
  <2> QED
    BY <2>2, <2>3
<1>20. CASE Done
  BY <1>20, <1>0, <1>a DEF Done, vars, Regions, Errors, Phase, Exceptions
<1>21. CASE UNCHANGED vars
  BY <1>21, <1>0, <1>a DEF vars, Regions, Errors, Phase, Exceptions
<1> QED
  BY <1>1, <1>2, <1>3, <1>4, <1>5, <1>6, <1>7, <1>8, <1>9, <1>10, <1>11, <1>12,
     <1>13, <1>14, <1>15, <1>16, <1>17, <1>18, <1>19, <1>20, <1>21
     DEF Next

LEMMA SentStep == ASSUME Types, Phase, Regions, Sent, Errors, [Next]_vars PROVE Sent'
<1>0. request \in Requests /\ request' = request
  BY RequestKept DEF Types, Control
<1>a. Control /\ Failures /\ request.warmup \in Nat /\ request.iterations \in Nat \ {0}
  BY RequestFacts DEF Types, Control
<1>c. /\ \A n \in Programs(request) :
           /\ Position(request, n) \in 1 .. Len(request.plan)
           /\ Position(request, n) = position => n = Program
      /\ Position(request, Program) = position /\ Program \in Programs(request)
      /\ DOMAIN request.plan = 1 .. Len(request.plan) /\ Len(request.plan) \in Nat
  BY <1>0, <1>a, PositionFacts, RequestFacts DEF Program, Control
<1>d. \A n \in Programs(request) :
        Position(request, n) \in Nat /\ ~ (Position(request, n) < 1)
  BY <1>c
<1>1. CASE Contract
  BY <1>1, <1>0, <1>a
     DEF Contract, Elapses, place, device, unwinding, data, Sent, Reads, Program,
         Phase
<1>2. CASE RefuseRequest
  BY <1>2, <1>0, <1>a
     DEF RefuseRequest, Elapses, Raise, place, device, data, Sent, Reads, Program,
         Phase
<1>3. CASE CheckDeadline
  BY <1>3, <1>0, <1>a
     DEF CheckDeadline, Raise, place, device, unwinding, data, Sent, Reads, Program,
         Phase
<1>4. CASE Compose
  <2>1. CASE \E v \in Reads(Program) : Role(v) = "output"
    BY <1>4, <2>1, <1>0 DEF Compose, Raise, place, Sent
  <2>2. CASE ~ \E v \in Reads(Program) : Role(v) = "output"
    <3>1. /\ buffers' = [buffers EXCEPT ![Program] = Composed]
          /\ iteration' = iteration /\ step = "compose" /\ raised = <<>> /\ ~ preparing
          /\ position' = position
      BY <1>4, <2>2 DEF Compose, place, Errors, Phase
    <3>2. \A v \in Reads(Program) : Composed[v] \in {0, iteration}
      <4> SUFFICES ASSUME NEW v \in Reads(Program) PROVE Composed[v] \in {0, iteration}
        OBVIOUS
      <4>1. CASE Role(v) = "intermediate"
        <5>1. PICK m \in Programs(request) :
                v \in Produced(request, m) /\ Position(request, m) < Position(request, Program)
          BY <4>1, <1>0, <1>c, ProducedFacts
        <5>2. v \in DOMAIN regions
          BY <5>1, <3>1, <1>c DEF Regions
        <5>3. regions[v] \in {0, iteration}
          BY <5>2 DEF Regions
        <5> QED
          BY <4>1, <5>3 DEF Composed
      <4>2. CASE Role(v) # "intermediate"
        BY <4>2 DEF Composed
      <4> QED
        BY <4>1, <4>2
    <3>3. DOMAIN buffers' = Programs(request) /\ buffers'[Program] = Composed
      BY <3>1, <1>c DEF Sent
    <3>4. Program' = Program /\ Reads(Program)' = Reads(Program)
      BY <3>1, <1>0 DEF Program, Reads
    <3> QED
      BY <3>1, <3>2, <3>3, <3>4, <1>0 DEF Sent
  <2> QED
    BY <2>1, <2>2
<1>5. CASE Open
  BY <1>5, <1>0, <1>a
     DEF Open, Elapses, place, unwinding, data, Sent, Reads, Program, Phase
<1>6. CASE OpenFails
  BY <1>6, <1>0, <1>a
     DEF OpenFails, Elapses, Raise, place, device, data, Sent, Reads, Program, Phase
<1>7. CASE OpenInterrupted
  BY <1>7, <1>0, <1>a
     DEF OpenInterrupted, Elapses, Raise, place, data, Sent, Reads, Program, Phase
<1>8. CASE SizesAgree
  BY <1>8, <1>0, <1>a, NextFacts
     DEF SizesAgree, device, unwinding, data, Sent, Reads, Program, Phase
<1>9. CASE SizesDiffer
  BY <1>9, <1>0, <1>a
     DEF SizesDiffer, Raise, place, device, data, Sent, Reads, Program, Phase
<1>10. CASE TransferIn
  BY <1>10, <1>0, <1>a
     DEF TransferIn, Elapses, place, device, unwinding, data, Sent, Reads, Program,
         Phase
<1>11. CASE Submit
  BY <1>11, <1>0, <1>a
     DEF Submit, Elapses, place, Late, unwinding, data, Sent, Reads, Program, Phase
<1>12. CASE SubmitFails
  BY <1>12, <1>0, <1>a
     DEF SubmitFails, Elapses, Raise, place, Late, data, Sent, Reads, Program, Phase
<1>13. CASE Interrupted
  BY <1>13, <1>0, <1>a
     DEF Interrupted, Elapses, Raise, place, device, data, Sent, Reads, Program,
         Phase
<1>14. CASE TransferOut
  BY <1>14, <1>0, <1>a, NextFacts
     DEF TransferOut, Elapses, device, unwinding, data, Sent, Reads, Program, Phase
<1>15. CASE OutputsMatch
  BY <1>15, <1>0, <1>a
     DEF OutputsMatch, device, unwinding, data, Sent, Reads, Program, Phase
<1>16. CASE OutputsDiffer
  BY <1>16, <1>0, <1>a
     DEF OutputsDiffer, Raise, place, device, data, Sent, Reads, Program, Phase
<1>17. CASE HandleClosed
  BY <1>17, <1>0, <1>a
     DEF HandleClosed, place, unwinding, data, Sent, Reads, Program, Phase
<1>18. CASE HandleRefused
  BY <1>18, <1>0, <1>a DEF HandleRefused, place, data, Sent, Reads, Program, Phase
<1>19. CASE CleanupDone
  BY <1>19, <1>0, <1>a, NextFacts
     DEF CleanupDone, device, Propagated, data, Sent, Reads, Program, Phase
<1>20. CASE Done
  BY <1>20, <1>0, <1>a DEF Done, vars, Sent, Reads, Program, Phase
<1>21. CASE UNCHANGED vars
  BY <1>21, <1>0, <1>a DEF vars, Sent, Reads, Program, Phase
<1> QED
  BY <1>1, <1>2, <1>3, <1>4, <1>5, <1>6, <1>7, <1>8, <1>9, <1>10, <1>11, <1>12,
     <1>13, <1>14, <1>15, <1>16, <1>17, <1>18, <1>19, <1>20, <1>21
     DEF Next

LEMMA CountedStep == ASSUME Types, Errors, Phase, Counted, [Next]_vars PROVE Counted'
<1>0. request \in Requests /\ request' = request
  BY RequestKept DEF Types, Control
<1>a. Control /\ Failures /\ request.warmup \in Nat /\ request.iterations \in Nat \ {0}
  BY RequestFacts DEF Types, Control
<1>c. /\ \A n \in Programs(request) :
           /\ Position(request, n) \in 1 .. Len(request.plan)
           /\ Position(request, n) = position => n = Program
      /\ Position(request, Program) = position /\ Program \in Programs(request)
      /\ DOMAIN request.plan = 1 .. Len(request.plan) /\ Len(request.plan) \in Nat
  BY <1>0, <1>a, PositionFacts, RequestFacts DEF Program, Control
<1>d. \A n \in Programs(request) :
        Position(request, n) \in Nat /\ ~ (Position(request, n) < 1)
  BY <1>c
<1>e. ASSUME samples' = samples, iteration' = iteration, preparing' = preparing, position' = position,
          step \in {"compare", "cleanup", "ended"} <=> step' \in {"compare", "cleanup", "ended"}
      PROVE  raised' = raised => Counted'
  BY <1>e, <1>0 DEF Counted, Passed, Count, Benchmarking
<1>f. ASSUME samples' = samples, raised' # <<>> PROVE Counted'
  BY <1>f, <1>0 DEF Counted
<1>1. CASE Contract
  <2>1. samples' = samples /\ iteration' = iteration /\ preparing' = preparing /\ position' = position
        /\ raised' = raised /\ step = "contract"
    BY <1>1 DEF Contract, place, data, unwinding
  <2>2. CASE request.mode = "dry"
    BY <2>1, <2>2, <1>0 DEF Counted, Benchmarking
  <2>3. CASE request.mode # "dry"
    <3>1. step' = "check"
      BY <1>1, <2>3 DEF Contract
    <3> QED
      BY <2>1, <3>1, <1>e
  <2> QED
    BY <2>2, <2>3
<1>2. CASE RefuseRequest
  BY <1>2, <1>a, <1>f, RaisedFacts DEF RefuseRequest, Raise, data, Exceptions
<1>3. CASE CheckDeadline
  <2>1. CASE clock >= deadline
    BY <1>3, <2>1, <1>a, <1>f, RaisedFacts DEF CheckDeadline, Raise, data, Exceptions
  <2>2. CASE ~ (clock >= deadline)
    BY <1>3, <2>2, <1>e DEF CheckDeadline, place, data, unwinding
  <2> QED
    BY <2>1, <2>2
<1>4. CASE Compose
  <2>1. CASE \E v \in Reads(Program) : Role(v) = "output"
    BY <1>4, <2>1, <1>a, <1>f, RaisedFacts DEF Compose, Raise, data, Exceptions
  <2>2. CASE ~ (\E v \in Reads(Program) : Role(v) = "output")
    BY <1>4, <2>2, <1>e DEF Compose, place, data, unwinding
  <2> QED
    BY <2>1, <2>2
<1>5. CASE Open
  BY <1>5, <1>e DEF Open, place, data, unwinding
<1>6. CASE OpenFails
  BY <1>6, <1>a, <1>f, RaisedFacts DEF OpenFails, Raise, data, Exceptions
<1>7. CASE OpenInterrupted
  BY <1>7, <1>a, <1>f, RaisedFacts DEF OpenInterrupted, Raise, data, Exceptions
<1>8. CASE SizesAgree
  <2>1. samples' = samples /\ iteration' = iteration /\ raised' = raised /\ step = "sizes"
    BY <1>8 DEF SizesAgree, unwinding
  <2>2. CASE preparing
    <3>1. preparing' \/ (position' = 1 /\ step' = "check")
      BY <1>8, <2>2, <1>a, NextFacts DEF SizesAgree
    <3>2. \A n \in Programs(request) : ~ Passed(n) /\ ~ Passed(n)'
      BY <2>1, <2>2, <3>1, <1>0, <1>d DEF Passed
    <3> QED
      BY <2>1, <3>2, <1>0 DEF Counted, Count, Benchmarking
  <2>3. CASE ~ preparing
    <3>1. preparing' = preparing /\ position' = position /\ step' = "send"
      BY <1>8, <2>3 DEF SizesAgree
    <3> QED
      BY <2>1, <3>1, <1>e
  <2> QED
    BY <2>2, <2>3
<1>9. CASE SizesDiffer
  BY <1>9, <1>a, <1>f, RaisedFacts DEF SizesDiffer, Raise, data, Exceptions
<1>10. CASE TransferIn
  BY <1>10, <1>e DEF TransferIn, place, data, unwinding
<1>11. CASE Submit
  BY <1>11, <1>e DEF Submit, place, data, unwinding
<1>12. CASE SubmitFails
  BY <1>12, <1>a, <1>f, RaisedFacts DEF SubmitFails, Raise, data, Exceptions
<1>13. CASE Interrupted
  BY <1>13, <1>a, <1>f, RaisedFacts DEF Interrupted, Raise, data, Exceptions
<1>14. CASE TransferOut
  <2>1. /\ step = "read" /\ raised = <<>> /\ ~ preparing /\ samples' = Sampled
        /\ raised' = raised /\ iteration' = iteration /\ iteration \in Nat
    BY <1>14, <1>a DEF TransferOut, unwinding, Errors, Phase, Control
  <2>2. CASE Benchmarking
    <3>1. NextProgram
      BY <1>14, <2>2 DEF TransferOut
    <3>2. \A n \in Programs(request) :
            samples[n] = Count(IF Position(request, n) < position THEN iteration ELSE iteration - 1)
      BY <2>1, <2>2 DEF Counted, Passed
    <3>3. /\ DOMAIN samples' = Programs(request)
          /\ \A n \in Programs(request) :
               samples'[n] = IF n = Program /\ iteration > request.warmup
                               THEN samples[n] + 1 ELSE samples[n]
      BY <2>1, <2>2, <1>c DEF Sampled, Counted
    <3>4. /\ position \in Nat
          /\ iteration > request.warmup => Count(iteration) = Count(iteration - 1) + 1
          /\ ~ (iteration > request.warmup) => Count(iteration) = Count(iteration - 1)
      BY <2>1, <1>a, <1>c DEF Count, Control
    <3>5. \A n \in Programs(request) :
            samples'[n] = Count(IF Position(request, n) <= position THEN iteration ELSE iteration - 1)
      <4> SUFFICES ASSUME NEW n \in Programs(request)
                   PROVE samples'[n] = Count(IF Position(request, n) <= position THEN iteration ELSE iteration - 1)
        OBVIOUS
      <4>1. CASE n = Program
        <5>1. Position(request, n) = position /\ samples[n] = Count(iteration - 1)
          BY <4>1, <3>2, <3>4, <1>c
        <5>2. samples'[n] = Count(iteration)
          BY <5>1, <4>1, <3>3, <3>4
        <5> QED
          BY <5>1, <5>2, <3>4
      <4>2. CASE n # Program
        <5>1. Position(request, n) \in Nat /\ Position(request, n) # position
          BY <4>2, <1>c, <1>d
        <5>2. Position(request, n) <= position <=> Position(request, n) < position
          BY <5>1, <3>4
        <5> QED
          BY <5>2, <4>2, <3>2, <3>3
      <4> QED
        BY <4>1, <4>2
    <3>6. \A n \in Programs(request) : Passed(n)' <=> Position(request, n) <= position
      <4>1. CASE preparing' = preparing /\ position' = position + 1 /\ step' = "check"
        BY <2>1, <4>1, <3>4, <1>0, <1>d DEF Passed
      <4>2. CASE ~ preparing' /\ step' = "compare" /\ position = Len(request.plan)
        BY <4>2, <1>0, <1>c DEF Passed
      <4> QED
        BY <2>1, <3>1, <1>a, <4>1, <4>2, NextFacts
    <3>7. \A k : Count(k)' = Count(k)
      BY <1>0 DEF Count
    <3> QED
      BY <2>1, <3>3, <3>5, <3>6, <3>7, <1>0 DEF Counted
  <2>3. CASE ~ Benchmarking
    BY <2>1, <2>3, <1>0 DEF Sampled, Counted, Benchmarking
  <2> QED
    BY <2>2, <2>3
<1>15. CASE OutputsMatch
  <2>1. /\ step = "compare" /\ ~ preparing /\ preparing' = preparing
        /\ position' = position /\ raised' = raised /\ samples' = samples
        /\ iteration \in Nat /\ position = 1
    BY <1>15, <1>a DEF OutputsMatch, unwinding, Phase, Control
  <2>2. CASE iteration < request.warmup + request.iterations
    <3>1. step' = "check" /\ iteration' = iteration + 1 /\ iteration' - 1 = iteration
      BY <1>15, <2>1, <2>2 DEF OutputsMatch
    <3>2. \A n \in Programs(request) : Passed(n) /\ ~ Passed(n)'
      BY <2>1, <3>1, <1>0, <1>d DEF Passed
    <3> QED
      BY <2>1, <3>1, <3>2, <1>0 DEF Counted, Count, Benchmarking
  <2>3. CASE ~ (iteration < request.warmup + request.iterations)
    <3>1. step' = "cleanup" /\ iteration' = iteration
      BY <1>15, <2>3 DEF OutputsMatch
    <3> QED
      BY <2>1, <3>1, <1>e
  <2> QED
    BY <2>2, <2>3
<1>16. CASE OutputsDiffer
  BY <1>16, <1>a, <1>f, RaisedFacts DEF OutputsDiffer, Raise, data, Exceptions
<1>17. CASE HandleClosed
  BY <1>17, <1>e DEF HandleClosed, place, data, unwinding
<1>18. CASE HandleRefused
  BY <1>18, <1>a, <1>f, RaisedFacts DEF HandleRefused, data, Exceptions
<1>19. CASE CleanupDone
  <2>1. /\ step = "cleanup" /\ iteration' = iteration /\ samples' = samples
        /\ raised' = raised
    BY <1>19 DEF CleanupDone, data
  <2>2. CASE Benchmarking
    <3>1. step' = "ended" /\ preparing' = preparing /\ position' = position
      BY <1>19, <2>2 DEF CleanupDone
    <3> QED
      BY <2>1, <3>1, <1>e
  <2>3. CASE ~ Benchmarking
    BY <2>1, <2>3, <1>0 DEF Counted, Benchmarking
  <2> QED
    BY <2>2, <2>3
<1>20. CASE Done
  BY <1>20, <1>e DEF Done, vars
<1>21. CASE UNCHANGED vars
  BY <1>21, <1>e DEF vars
<1> QED
  BY <1>1, <1>2, <1>3, <1>4, <1>5, <1>6, <1>7, <1>8, <1>9, <1>10, <1>11, <1>12,
     <1>13, <1>14, <1>15, <1>16, <1>17, <1>18, <1>19, <1>20, <1>21
     DEF Next

--------------------------------------------------------------------------------
(* Every run. *)

(* The control state keeps its types, an error is the first that was       *)
(* raised, an open handle is one the runner knows or lost, and nothing is  *)
(* submitted after a late dispatch (PreparedProgram, _check_deadline,      *)
(* _close_all).                                                            *)
THEOREM RunnerInvariant == Spec => []IInv
<1>1. IInv /\ [Next]_vars => IInv'
  BY TypesStep, ErrorsStep, HandlesStep, LatenessStep DEF IInv, Types
<1> QED
  BY InitInv, <1>1, PTL DEF Spec

(* What is compared, produced, sent and counted is of its own iteration    *)
(* (_program_inputs, refill, _collect_outputs, _check_outputs).            *)
THEOREM RunnerData == Spec => [](IInv /\ DInv)
<1>1. Init => IInv /\ DInv
  BY InitInv, InitData
<1>2. (IInv /\ DInv) /\ [Next]_vars => (IInv /\ DInv)'
  <2> SUFFICES ASSUME IInv, DInv, [Next]_vars PROVE IInv' /\ DInv'
    OBVIOUS
  <2>1. IInv'
    BY TypesStep, ErrorsStep, HandlesStep, LatenessStep DEF IInv, Types
  <2>2. Phase' /\ Regions' /\ Sent' /\ Counted'
    BY PhaseStep, RegionsStep, SentStep, CountedStep DEF IInv, DInv
  <2> QED
    BY <2>1, <2>2 DEF DInv
<1> QED
  BY <1>1, <1>2, PTL DEF Spec

(* However a run ends, no handle was freed twice and none is open but one  *)
(* whose creation was interrupted (PreparedProgram, _close_all).           *)
THEOREM HandlesAreReleased == Spec => []HandlesReleased
<1>1. IInv => HandlesReleased
  BY DEF IInv, Handles, HandlesReleased
<1> QED
  BY RunnerInvariant, <1>1, PTL

(* Whatever the clock does, at most one dispatch is submitted with the     *)
(* budget spent (_check_deadline).                                         *)
THEOREM OneLateDispatch == Spec => []LateWork
<1>1. IInv => LateWork
  BY DEF IInv, Lateness, LateWork
<1> QED
  BY RunnerInvariant, <1>1, PTL

(* A result or a report is of iterations that all passed, each computed    *)
(* from what it sent, with a sample of every program per requested         *)
(* iteration; else the caller gets the first error (_check_outputs,        *)
(* benchmark_package, _close_all).                                         *)
THEOREM ReportsAreGated == Spec => []ReportGated
<1>1. IInv /\ DInv => ReportGated
  <2> SUFFICES ASSUME IInv, DInv PROVE ReportGated
    OBVIOUS
  <2>1. PrimaryKept
    BY DEF IInv, Errors, PrimaryKept
  <2>2. ASSUME step = "ended", error = "none", request.mode # "dry"
        PROVE  /\ checked = Exact(Outputs, request.warmup + request.iterations)
               /\ Benchmarking =>
                    \A n \in Programs(request) : samples[n] = request.iterations
    <3>1. raised = <<>>
      BY <2>2 DEF IInv, Errors
    <3>2. /\ ~ preparing /\ checked = Exact(Outputs, iteration)
          /\ iteration = request.warmup + request.iterations
      BY <2>2, <3>1 DEF DInv, Phase
    <3>3. request.warmup \in Nat /\ request.iterations \in Nat \ {0}
      BY RequestFacts DEF IInv, Types, Control
    <3>4. Count(iteration) = request.iterations
      BY <3>2, <3>3 DEF Count
    <3>5. \A n \in Programs(request) : Passed(n)
      BY <2>2, <3>2 DEF Passed
    <3>6. Benchmarking => \A n \in Programs(request) : samples[n] = Count(iteration)
      BY <3>1, <3>5 DEF DInv, Counted
    <3> QED
      BY <3>2, <3>4, <3>6
  <2> QED
    BY <2>1, <2>2 DEF ReportGated, Exact
<1> QED
  BY RunnerData, <1>1, PTL

================================================================================
