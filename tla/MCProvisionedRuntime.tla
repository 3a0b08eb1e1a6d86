-------------------------- MODULE MCProvisionedRuntime --------------------------
(* Bounded instance of ProvisionedRuntime.  x is the graph input; the       *)
(* programs are a chain x -> t -> y, a chain whose end also reads x and is   *)
(* listed first, and a single program.  Each is tried with every plan, and  *)
(* others are bundles the runtime has to reject.                            *)
EXTENDS ProvisionedRuntime

Surface(id, role, index) ==
  [id |-> id, role |-> role, layout |-> "plain", index |-> index]

Weight == [id |-> "w", role |-> "Weight", layout |-> "plain", index |-> -1]

Scratch == [id |-> "s", role |-> "Intermediate", layout |-> "plain", index |-> -1]

First == {Surface("x", "Input", 0), Surface("t", "Output", 1), Weight}
Second == {Surface("t", "Input", 0), Surface("y", "Output", 1)}
Short ==
  {[Surface("t", "Input", 0) EXCEPT !.layout = "short"], Surface("y", "Output", 1)}
Unsound ==
  {Surface("t", "Input", 0), [Surface("y", "Output", 1) EXCEPT !.layout = "unsound"]}
Join == {Surface("t", "Input", 0), Surface("x", "Input", 1),
         Surface("y", "Output", 2)}
Overwrite == {Surface("t", "Input", 0), Surface("x", "Output", 1)}
SecondWriter == {Surface("x", "Input", 0), Surface("y", "Output", 1)}
H13First == {Surface("x", "Input", 5), Surface("t", "Output", 4)}
H13Last == {Surface("t", "Input", 5), Surface("y", "Output", 4)}
H13Second ==
  {Surface("x", "Input", 5), Surface("t", "Input", 6), Surface("y", "Output", 4)}

Plans(n) == [1 .. n -> 1 .. n]

MCBundle(target, artifacts, plan) ==
  [target |-> target, artifacts |-> artifacts, plan |-> plan,
   hashes |-> Len(artifacts)]

MCBundles ==
  {MCBundle("H16G", a, p) :
     a \in {<<Join, First>>, <<First, Overwrite>>, <<H13First, H13Second>>},
     p \in Plans(2)}
  \cup {MCBundle("H13", a, p) :
          a \in {<<H13First, H13Last>>, <<First, Second>>}, p \in Plans(2)}
  \cup {MCBundle("H16G", <<First, Second, SecondWriter>>, p) :
          p \in {<<1, 2, 3>>, <<3, 1, 2>>}}
  \cup {MCBundle("H16G", <<First, a>>, <<1, 2>>) : a \in {Short, Unsound}}
  \cup {MCBundle("H16G", <<First \cup {Scratch}>>, <<1>>)}

================================================================================
