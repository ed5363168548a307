---------------------------- MODULE MCPanelListing ----------------------------
(* PanelListing on small instances for TLC.                                *)
EXTENDS PanelListing

CONSTANTS a, b, t1, u1, tok, h1, h2, f, g

TwoNames == {a, b}
OneType == {t1}
OneUser == {u1}
OneToken == {tok}
OneHandle == {h1}
TwoHandles == {h1, h2}
TwoFiles == {f, g}
OneFile == {f}

Distinct == [n \in Name |-> n]
Default == [x \in Type \X User |-> a]

(* Handles share nothing but the registry, and the rows of a directory not *)
(* even that: a directory with rows is listed while nothing else is open,  *)
(* and one root at a time.                                                 *)
Roots == {h \in Handle : handles[h].kind = "root"}
Rows == {h \in Handle : handles[h].kind = "dir" /\ handles[h].asked # << >>}
Few == /\ Cardinality(Roots) <= 1
       /\ Rows # {} => /\ Cardinality({h \in Handle : handles[h] # Closed}) = 1
                       /\ dialogs = 0 /\ calls = << >>

(* All handles are alike: one is served to its end.                        *)
FewFair == Init /\ [][Next /\ Few']_vars /\ Fairness(h1)

(* A panel that keeps asking is told the end of its listing, whatever the  *)
(* other panel and the dialog do meanwhile (ndpluginw.c:190-230).          *)
ListingEnds == EndsAt(h1)
=============================================================================
