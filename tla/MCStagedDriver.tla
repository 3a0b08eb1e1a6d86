------------------------------ MODULE MCStagedDriver ------------------------------
(* Bounded instance of StagedDriver: every graph of MCProgramAssembler, and  *)
(* one without a task, as a correct H16G text; texts that fail on the way,   *)
(* and payloads for H13 and H14; over directories that earlier commands left *)
(* whole or unfinished, with programs of equal and of other lengths.         *)
EXTENDS StagedDriver, MCProgramAssembler

EmptyGraph == Returning(Empty, {})

SampleGraph == Returning(Product(Empty, 128, -1, -2), {})

MCDriverGraphs == MCGraphs \cup {EmptyGraph}

MCDriverProblems ==
  {PlanningProblem(g, Capabilities(g), off) : g \in MCDriverGraphs, off \in BOOLEAN}

Text(target, g, bad, front, payloads) ==
  [target |-> target, graph |-> g, bad |-> bad, front |-> front, payloads |-> payloads]

Image2(i, length) == [of |-> i, length |-> length]

Payloads == {<<Image2(1, 3)>>, <<Image2(1, 4), Image2(2, 3)>>}

MCCommands ==
  {Text("H16G", g, FALSE, "graph", <<>>) : g \in MCDriverGraphs}
  \cup {Text("H16G", g, TRUE, "graph", <<>>) : g \in {EmptyGraph, SampleGraph}}
  \cup {Text("H16G", EmptyGraph, bad, front, <<>>) :
          bad \in BOOLEAN, front \in Fronts \ {"graph"}}
  \cup {Text(target, EmptyGraph, bad, front, payloads) :
          target \in Packaged, bad \in BOOLEAN, front \in Fronts, payloads \in Payloads}
  \cup {Text("other", EmptyGraph, FALSE, "graph", <<>>)}

Stored(lengths) == [i \in DOMAIN lengths |-> Image2(- i, lengths[i])]

Complete(lengths) == Contents(TRUE, Stored(lengths), Stored(lengths), FALSE)

Unfinished(lengths) == Contents(TRUE, Stored(lengths), <<>>, TRUE)

MCEarlier ==
  {Nowhere, [Nowhere EXCEPT !.there = TRUE, !.litter = TRUE],
   Complete(<<3, 4>>), Unfinished(<<3>>)}

================================================================================
