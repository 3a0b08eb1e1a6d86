----------------------------- MODULE MCLinuxRunner -----------------------------
(***************************************************************************)
(* Three packages of two programs: a pipeline over an intermediate, with a *)
(* constant; the same, listed against its dispatch order; one whose second *)
(* program reads an output that the package also returns.                  *)
(***************************************************************************)
EXTENDS LinuxRunner

Role1 == [x |-> "input", c |-> "constant", t |-> "intermediate", y |-> "output"]
First == [reads |-> {"x", "c"}, writes |-> {"t"}]
Second == [reads |-> {"t", "x"}, writes |-> {"y"}]

Packages ==
  { [programs |-> <<First, Second>>, plan |-> <<1, 2>>, role |-> Role1],
    [programs |-> <<Second, First>>, plan |-> <<2, 1>>, role |-> Role1],
    [programs |-> << [reads |-> {"x"}, writes |-> {"y"}],
                     [reads |-> {"x", "y"}, writes |-> {"z"}] >>,
     plan |-> <<1, 2>>,
     role |-> [x |-> "input", y |-> "output", z |-> "output"]] }

Request(p, mode, w, i, b) ==
  [programs |-> p.programs, plan |-> p.plan, role |-> p.role,
   mode |-> mode, warmup |-> w, iterations |-> i, budget |-> b]

MCRequests ==
  {Request(p, mode, 0, 1, b) : p \in Packages, mode \in {"dry", "once"}, b \in 1 .. 2}
    \cup {Request(p, "benchmark", w, i, b) :
            p \in Packages, w \in 0 .. 1, i \in 1 .. 2, b \in 1 .. 2}

================================================================================
