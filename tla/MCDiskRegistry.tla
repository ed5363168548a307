--------------------------- MODULE MCDiskRegistry ---------------------------
(* DiskRegistry on small instances for TLC.                                *)
EXTENDS DiskRegistry

CONSTANTS a, b, c, t1, u1, u2, tok

ThreeNames == {a, b, c}
OneType == {t1}
TwoUsers == {u1, u2}
OneToken == {tok}

(* The names a and b differ only in case.                                  *)
SameCase == [n \in Name |-> IF n = b THEN a ELSE n]

(* The name c is not in the OEM code page, which makes b of it.            *)
Lossy == [n \in Name |-> IF n = c THEN b ELSE n]

(* What the dialog offers when the title is left empty.                    *)
Default == [x \in Type \X User |-> a]

(* There are two users as long as no call is inside another.               *)
Few == dialogs + Len(calls) > 1 =>
           /\ \A i \in DOMAIN disks : disks[i].value # NULL => disks[i].value.username = u1
           /\ \A i \in DOMAIN calls : calls[i].is = "confirm" => calls[i].disk.username = u1
           /\ \A i \in DOMAIN file : file[i].username # u2
FewSpec == Init /\ [][Next /\ Few']_vars
=============================================================================
