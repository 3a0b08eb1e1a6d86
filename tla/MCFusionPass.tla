------------------------------ MODULE MCFusionPass ------------------------------
(* Graphs of four nodes, as legalisation leaves them: every node but the   *)
(* constants is supported, and every node reaches an output.  An operand   *)
(* that is not a node is the graph input -1.                                *)
EXTENDS FusionPass

Arguments(n) ==
  {<<>>} \cup {<<a>> : a \in 1 .. n - 1}
    \cup {<<a, b>> : a, b \in 1 .. n - 1}

MCGraph(first, second, third, fourth, outputs, big) ==
  LET args == <<<<>>, second, third, fourth>> IN
  [op |-> <<first, "add", "add", "add">>, inputs |-> args,
   externals |-> [n \in 1 .. 4 |->
                    IF Len(args[n]) = 2 \/ (n = 1 /\ first = "const")
                      THEN {} ELSE {-1}],
   outputs |-> outputs,
   bytes |-> [n \in 1 .. 4 |-> IF n = big THEN 3 ELSE 1]]

AllLive(g) == \A n \in 1 .. 4 : n \in g.outputs \/ Users(g, n) # {}

MCGraphs ==
  {g \in {MCGraph(first, b, c, d, outs, big) :
            first \in {"conv", "const"},
            b \in Arguments(2), c \in Arguments(3), d \in Arguments(4),
            outs \in {s \in SUBSET (1 .. 4) : 4 \in s},
            big \in {2, 3}} :
     AllLive(g) /\ (g.op[1] = "const" => 1 \notin g.outputs)}

================================================================================
