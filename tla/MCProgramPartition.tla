--------------------------- MODULE MCProgramPartition ---------------------------
(* Bounded instance of ProgramPartition: every schedule of TaskCount tasks  *)
(* in which a task reads one or two values, each the output of an earlier   *)
(* task or an external of its own, with every choice of returned values;    *)
(* and the schedules with their second and third task exchanged.            *)
EXTENDS ProgramPartition

CONSTANT TaskLimit

TaskCount == 4

MCInputs(k) ==
  {S \in SUBSET ({-k} \cup 1 .. k - 1) : Cardinality(S) \in 1 .. 2}

MCReads ==
  {<<a, b, c, d>> : a \in MCInputs(1), b \in MCInputs(2),
                    c \in MCInputs(3), d \in MCInputs(4)}

MCExchange(S) == {IF v = 2 THEN 3 ELSE IF v = 3 THEN 2 ELSE v : v \in S}

MCExchanged(r) ==
  <<MCExchange(r[1]), MCExchange(r[3]), MCExchange(r[2]), MCExchange(r[4])>>

(* Sizes that make each limit bind: three tasks fit the task limit; two do  *)
(* not fit the working set; the count passes NSUIntegerMax.                 *)
MCSizes ==
  {[encoded |-> 2, contribution |-> 1, bytes |-> 1],
   [encoded |-> 1, contribution |-> 1, bytes |-> WorkingSet - 1],
   [encoded |-> MaxUInt, contribution |-> 1, bytes |-> 0]}

MCTask(S, z) ==
  [inputs |-> S, encoded |-> z.encoded, contribution |-> z.contribution,
   bytes |-> z.bytes]

MCUnread(r) == (1 .. TaskCount) \ (r[1] \cup r[2] \cup r[3] \cup r[4])

MCProblem(r, z, returned, composable, limit) ==
  [tasks |-> <<MCTask(r[1], z), MCTask(r[2], z), MCTask(r[3], z),
               MCTask(r[4], z)>>,
   finals |-> returned \cup MCUnread(r),
   composable |-> composable, taskLimit |-> limit]

MCComposable == {2 .. TaskCount, 2 .. TaskCount - 1, 3 .. TaskCount}

MCProblems ==
  {MCProblem(r, z, returned, composable, TaskLimit) :
     r \in MCReads, z \in MCSizes, returned \in SUBSET (1 .. TaskCount - 1),
     composable \in MCComposable}
  \cup
  {MCProblem(r, z, {}, 2 .. TaskCount, NoLimit) : r \in MCReads, z \in MCSizes}
  \cup
  {MCProblem(MCExchanged(r), z, {}, 2 .. TaskCount, TaskLimit) :
     r \in MCReads, z \in MCSizes}

================================================================================
