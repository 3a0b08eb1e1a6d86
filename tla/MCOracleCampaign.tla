----------------------------- MODULE MCOracleCampaign -----------------------------
(***************************************************************************)
(* Two runs over the shared directory: one of any driver and mode, one     *)
(* that may meet it on the same cases, with records from before the runs   *)
(* whole, cut short or missing.                                            *)
(***************************************************************************)
EXTENDS OracleCampaign

MCRuns == {"r1", "r2"}

Ask(driver, remote, force) ==
  [driver |-> driver, remote |-> remote, force |-> force, listing |-> FALSE, layout |-> FALSE,
   pattern |-> ToSet(driver.campaign), limit |-> 9]

Start(first, second, before) == [requests |-> [r1 |-> first, r2 |-> second], before |-> before]

Earlier == "earlier"
Nothing == [c1 |-> Absent, c2 |-> Absent]
Listing == [Ask(Chain, FALSE, FALSE) EXCEPT !.listing = TRUE]
LayoutOf(remote, pattern) == [Ask(Conv, remote, FALSE) EXCEPT !.layout = TRUE, !.pattern = pattern]
OnlyProbe(remote, force) == [Ask(Chain, remote, force) EXCEPT !.pattern = {"c2"}]

(* Two runs of the chain probes, alone or meeting on the ceiling probe.    *)
Meetings ==
  {Start(Ask(Chain, remote, force), second, [c1 |-> Absent, c2 |-> b]) :
     remote \in BOOLEAN, force \in BOOLEAN,
     second \in {Listing, OnlyProbe(FALSE, FALSE), OnlyProbe(FALSE, TRUE), OnlyProbe(TRUE, FALSE)},
     b \in {Absent, Whole("refused", Earlier)}}
  \cup {Start(Ask(Chain, remote, force), Listing, [c1 |-> a, c2 |-> b]) :
          remote \in BOOLEAN, force \in BOOLEAN, a \in {Whole("rejected", Earlier), Open(Earlier)},
          b \in {Whole("accepted", Earlier), Whole("refused", Earlier)}}

(* The other drivers, listings and layout runs.                            *)
Rest ==
  {Start(Ask(d, TRUE, FALSE), Listing, Nothing) : d \in {Conv, Norm, H14Norm, Matvec, H14Matvec}}
  \cup {Start([Ask(Envelope, remote, FALSE) EXCEPT !.limit = n], Listing, Nothing) : remote \in BOOLEAN, n \in 0..1}
  \cup {Start([Listing EXCEPT !.remote = TRUE], Listing, Nothing)}
  \cup {Start(LayoutOf(remote, p), second, Nothing) :
          remote \in BOOLEAN, p \in {{}, {"v1"}}, second \in {Listing, LayoutOf(TRUE, {"v1", "v2"})}}
  \cup {Start([LayoutOf(remote, {"v1"}) EXCEPT !.listing = TRUE], Listing, Nothing) : remote \in BOOLEAN}

MCStarts == Meetings \cup Rest
=============================================================================
