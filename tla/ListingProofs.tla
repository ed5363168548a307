--------------------------- MODULE ListingProofs ----------------------------
(***************************************************************************)
(* The panels' listings (PanelListing.tla) for any number of handles,      *)
(* disks and rows: the registry below them behaves as DiskRegistry says, a *)
(* root listing misses no disk and shows names that open, and a directory  *)
(* shows the answer of its script.                                         *)
(***************************************************************************)
EXTENDS PanelListing, SequenceFacts, FiniteSetTheorems, TLAPS

P == INSTANCE DiskRegistryProofs

-----------------------------------------------------------------------------
(* The registry below the listings                                         *)

(* R, the registry of PanelListing, is the one the proofs are about.       *)
LEMMA SameStart == /\ R!Init <=> P!Init
                   /\ R!vars = P!vars
  BY DEF R!Init, P!Init, R!vars, P!vars

(* Its operations are the same ones.                                       *)
LEMMA SameSteps == R!Next <=> P!Next
  <1>1. R!Attach <=> P!Attach
    BY DEF R!Attach, P!Attach, R!LoadOf, P!LoadOf, R!Selected, P!Selected, R!Readable, P!Readable,
           R!DiskOf, P!DiskOf, R!ReadString, P!ReadString, R!Entry, P!Entry
  <1>2. R!Gone <=> P!Gone
    BY DEF R!Gone, P!Gone
  <1>3. R!DeleteOld <=> P!DeleteOld
    BY DEF R!DeleteOld, P!DeleteOld
  <1>4. R!WriteField <=> P!WriteField
    BY DEF R!WriteField, P!WriteField, R!WriteString, P!WriteString, R!SectionsOf, P!SectionsOf,
           R!EmptySection, P!EmptySection, R!Fields, P!Fields, R!Advance, P!Advance
  <1>5. ASSUME NEW d, NEW cs PROVE R!Store(d, cs) <=> P!Store(d, cs)
    <2>1. R!Replaced(cs) = P!Replaced(cs)
      BY DEF R!Replaced, P!Replaced, R!Last, P!Last
    <2> QED
      BY <2>1 DEF R!Store, P!Store, R!SetElement, P!SetElement, R!Has, P!Has, R!OverwriteLast,
                  P!OverwriteLast, R!Insert, P!Insert, R!Entry, P!Entry, R!StartSave, P!StartSave
  <1>6. ASSUME NEW t, NEW u, NEW n PROVE R!PressOk(t, u, n) <=> P!PressOk(t, u, n)
    BY <1>5 DEF R!PressOk, P!PressOk, R!Has, P!Has, R!NewDisk, P!NewDisk, R!Asking, P!Asking
  <1>7. ASSUME NEW k PROVE R!ListDisk(k) <=> P!ListDisk(k)
    BY DEF R!ListDisk, P!ListDisk, R!Opens, P!Opens, R!Room, P!Room, R!Has, P!Has,
           R!ValueOf, P!ValueOf, R!PlaceOf, P!PlaceOf, R!NeedsToken, P!NeedsToken,
           R!Authorizing, P!Authorizing, R!Entry, P!Entry
  <1>8. ASSUME NEW is PROVE R!Innermost(is) <=> P!Innermost(is)
    BY DEF R!Innermost, P!Innermost, R!Last, P!Last
  <1>9. ASSUME NEW t PROVE R!SaveToken(t) <=> P!SaveToken(t)
    BY <1>8 DEF R!SaveToken, P!SaveToken, R!Has, P!Has, R!ValueOf, P!ValueOf, R!PlaceOf, P!PlaceOf,
           R!StartSave, P!StartSave, R!Last, P!Last, R!Front, P!Front
  <1>10. /\ R!OpenDialog <=> P!OpenDialog
         /\ R!CancelDialog <=> P!CancelDialog
         /\ R!ConfirmNo <=> P!ConfirmNo
         /\ R!AuthFails <=> P!AuthFails
    BY <1>8 DEF R!OpenDialog, P!OpenDialog, R!CancelDialog, P!CancelDialog, R!ConfirmNo, P!ConfirmNo,
                R!AuthFails, P!AuthFails, R!Room, P!Room, R!Front, P!Front
  <1>11. R!ConfirmYes <=> P!ConfirmYes
    BY <1>5, <1>8 DEF R!ConfirmYes, P!ConfirmYes, R!Last, P!Last, R!Front, P!Front
  <1>12. R!Unwind <=> P!Unwind
    BY DEF R!Unwind, P!Unwind, R!Auths, P!Auths
  <1>13. /\ R!Detach <=> P!Detach
         /\ R!Crash <=> P!Crash
         /\ R!WriteCrashes <=> P!WriteCrashes
    BY <1>2 DEF R!Detach, P!Detach, R!Crash, P!Crash, R!WriteCrashes, P!WriteCrashes
  <1> QED
    BY <1>1, <1>3, <1>4, <1>6, <1>7, <1>9, <1>10, <1>11, <1>12, <1>13, Zenon
       DEF R!Next, P!Next, R!Saving, P!Saving

(* What DiskRegistry assumes of its constants is assumed here too.         *)
LEMMA Assumed == NULL \notin P!Disk
  BY NullAssumption DEF R!Disk, P!Disk

(* A call of the file manager moves the registry by one of its own steps   *)
(* or not at all.                                                          *)
LEMMA RegistryStep == ASSUME [Next]_vars PROVE [R!Next]_(R!vars)
  <1>1. ASSUME UNCHANGED registry PROVE UNCHANGED R!vars
    BY <1>1 DEF registry, R!vars
  <1>2. ASSUME NEW h \in Handle, Panel(h) PROVE [R!Next]_(R!vars)
    <2>1. ASSUME NEW k \in Name, FindFirstAuth(h, k) PROVE R!Next
      BY <2>1 DEF FindFirstAuth, R!Next
    <2>2. ASSUME FindNextCrashes(h) PROVE R!Next
      BY <2>2 DEF FindNextCrashes, Ends, R!Next
    <2> QED
      BY <1>1, <1>2, <2>1, <2>2
         DEF Panel, FindNext, FindFirstRoot, FindFirstDisk, FindNextRoot, FindNextDir, FindClose
  <1>3. ASSUME Attach \/ Dialog PROVE R!Next
    BY <1>3 DEF Attach, Dialog, R!Next
  <1>4. ASSUME Saving \/ Ends PROVE R!Next
    BY <1>4 DEF Saving, Ends, R!Next, R!Saving
  <1>5. ASSUME AuthFails \/ AuthDone \/ Unwind PROVE R!Next
    BY <1>5 DEF AuthFails, AuthDone, Unwind, R!Next
  <1>6. ASSUME FindFirstEnds PROVE UNCHANGED R!vars
    BY <1>1, <1>6 DEF FindFirstEnds
  <1>7. ASSUME UNCHANGED vars PROVE UNCHANGED R!vars
    BY <1>1, <1>7 DEF vars
  <1> QED
    BY <1>2, <1>3, <1>4, <1>5, <1>6, <1>7 DEF Next

(* The listings use the registry as DiskRegistry describes it: whatever    *)
(* panels, dialog and authorization do, it takes one of its own steps or   *)
(* none (ndpluginw.c:116-263, disk.c:12-75).                               *)
THEOREM RegistryBelow == Spec => R!Spec
  <1>1. Init => R!Init
    BY DEF Init
  <1>2. [Next]_vars => [R!Next]_(R!vars)
    BY RegistryStep
  <1> QED
    BY <1>1, <1>2, PTL DEF Spec, R!Spec

(* What is proved of the registry holds below the listings.                *)
LEMMA RegistryHolds ==
  Spec => /\ []P!IInv
          /\ [][pc # "down" /\ pc' # "down" => P!KeysStay]_(P!vars)
  <1>1. R!Init => P!Init
    BY SameStart
  <1>2. [R!Next]_(R!vars) => [P!Next]_(P!vars)
    BY SameSteps DEF R!vars, P!vars
  <1>3. R!Spec => P!Spec
    BY <1>1, <1>2, PTL DEF R!Spec, P!Spec
  <1>4. P!Spec => []P!IInv
    BY Assumed, RegistryAssumption, P!Invariant
  <1>5. P!Spec => [][pc # "down" /\ pc' # "down" => P!KeysStay]_(P!vars)
    BY Assumed, RegistryAssumption, P!EntriesStay
  <1> QED
    BY <1>3, <1>4, <1>5, RegistryBelow, PTL

-----------------------------------------------------------------------------
(* The invariant                                                           *)

(* Before the library is attached nothing is open.                         *)
Quiet == pc = "down" => waiting = << >> /\ ready = NULL /\ \A h \in Handle : handles[h] = Closed

(* How many disks a root handle has handed out.                            *)
Passed(hd) == IF hd.isLast THEN Len(hd.shown) - 1 ELSE Len(hd.shown)

IsKey(d, n) == \E i \in 1 .. Len(d) : d[i].key = n

(* A root handle over the registry d.                                      *)
RootKept(hd, d) ==
    /\ hd.known <= Len(d)
    /\ hd.isLast => /\ hd.next = 0 /\ Len(hd.shown) # 0
                    /\ hd.shown[Len(hd.shown)] = NewDiskItem
    /\ hd.next # 0 => hd.next = Passed(hd) + 1 /\ hd.next <= Len(d)
    /\ hd.next = 0 => hd.known <= Passed(hd) /\ Passed(hd) <= Len(d)
    /\ \A i \in 1 .. Passed(hd) : hd.shown[i] \in Name /\ IsKey(d, hd.shown[i])

(* The rows of an answer, those of them that are to be shown.              *)
RowsOf(asked) == [i \in DOMAIN asked |-> [name |-> asked[i].name, row |-> i]]
Told(asked) == Selected(RowsOf(asked), {i \in DOMAIN RowsOf(asked) : asked[i].kept})
Different(rows) == \A i, j \in 1 .. Len(rows) : rows[i].name = rows[j].name => i = j

(* A handle of a directory.                                                *)
DirKept(hd) ==
    /\ hd.next \in 0 .. Len(hd.dict)
    /\ Len(hd.shown) = IF hd.next = 0 THEN Len(hd.dict) ELSE hd.next - 1
    /\ \A i \in 1 .. Len(hd.shown) : hd.shown[i] = hd.dict[i].value
    /\ RowsOf(hd.asked) \in Seq(Row)
    /\ Different(RowsOf(hd.asked)) =>
          /\ Len(hd.dict) = Len(Told(hd.asked))
          /\ \A i \in 1 .. Len(hd.dict) : hd.dict[i].value = Told(hd.asked)[i]

Kept(hd, d) == (hd \in RootHandles => RootKept(hd, d)) /\ (hd \in DirHandles => DirKept(hd))

(* The handles that wait are those of the calls that do.                   *)
Paired ==
    /\ waiting \in Seq(Handle \cup {NULL}) /\ Len(waiting) = Len(calls)
    /\ \A i \in 1 .. Len(calls) : calls[i].is = "auth" => waiting[i] # NULL

Typed ==
    /\ handles \in [Handle -> {Closed} \cup RootHandles \cup DirHandles]
    /\ ready \in Ready \cup {NULL}

LInv == Typed /\ Paired /\ Quiet /\ \A h \in Handle : Kept(handles[h], disks)

-----------------------------------------------------------------------------
(* What the listings need to know of the registry                          *)

(* While the plugin can be entered every entry has its disk, whose name is *)
(* some entry's key.                                                       *)
NamesOpen(d) == \A i \in 1 .. Len(d) : d[i].value.nickname \in Name /\ IsKey(d, d[i].value.nickname)

(* The invariant of the registry, as far as a listing looks.               *)
LEMMA RegistryFacts ==
  ASSUME P!IInv
  PROVE  /\ Len(disks) \in Nat /\ DOMAIN disks = 1 .. Len(disks)
         /\ pc = "idle" => NamesOpen(disks)
         /\ calls \in Seq(P!Calls)
  <1>1. disks \in Seq(P!Entries)
    BY DEF P!IInv, P!TypeOK
  <1>2. Len(disks) \in Nat /\ DOMAIN disks = 1 .. Len(disks)
    BY <1>1
  <1>3. ASSUME pc = "idle", NEW i \in 1 .. Len(disks)
        PROVE  disks[i].value.nickname \in Name /\ IsKey(disks, disks[i].value.nickname)
    <2>1. disks[i].value # NULL
      BY <1>2, <1>3 DEF P!IInv, P!Whole, P!NoLostValueAtRest
    <2>2. disks[i] \in P!Entries
      BY <1>1
    <2>3. disks[i].value.nickname \in Name
      BY <2>1, <2>2 DEF P!Entries, P!Disk
    <2>4. \E j \in DOMAIN disks : disks[j].key = disks[i].value.nickname
      BY <2>1 DEF P!IInv, P!Sound, P!Has
    <2> QED
      BY <1>2, <2>3, <2>4 DEF IsKey
  <1>4. calls \in Seq(P!Calls)
    BY DEF P!IInv, P!TypeOK
  <1> QED
    BY <1>2, <1>3, <1>4 DEF NamesOpen

(* A handle that is not touched, while the list grows.                     *)
LEMMA KeptOn ==
  ASSUME NEW hd, NEW d, NEW e, Len(d) \in Nat, Len(e) \in Nat, Kept(hd, d),
         \A i \in 1 .. Len(d) : i \in 1 .. Len(e) /\ e[i].key = d[i].key
  PROVE  Kept(hd, e)
  <1>1. Len(d) <= Len(e)
    <2>1. CASE Len(d) = 0
      BY <2>1
    <2>2. CASE Len(d) # 0
      <3>1. Len(d) \in 1 .. Len(d)
        BY <2>2
      <3> QED
        BY <3>1
    <2> QED
      BY <2>1, <2>2
  <1>2. ASSUME NEW n, IsKey(d, n) PROVE IsKey(e, n)
    BY <1>2 DEF IsKey
  <1>3. ASSUME hd \in RootHandles PROVE RootKept(hd, e)
    <2>1. RootKept(hd, d)
      BY <1>3 DEF Kept
    <2>2. hd.next \in Nat /\ hd.known \in Nat /\ Len(hd.shown) \in Nat /\ hd.isLast \in BOOLEAN
      BY <1>3 DEF RootHandles
    <2>3. Passed(hd) \in Int
      BY <2>2 DEF Passed
    <2> QED
      BY <1>1, <1>2, <2>1, <2>2, <2>3 DEF RootKept
  <1> QED
    BY <1>3 DEF Kept

-----------------------------------------------------------------------------
(* The root directory                                                      *)

(* The three kinds of handle are told apart.                               *)
LEMMA Kinds ==
  /\ Closed \notin RootHandles /\ Closed \notin DirHandles
  /\ \A hd \in RootHandles : hd.kind = "root" /\ hd \notin DirHandles /\ hd # Closed
  /\ \A hd \in DirHandles : hd.kind = "dir" /\ hd \notin RootHandles /\ hd # Closed
  <1>1. Closed.kind = "closed"
    BY DEF Closed
  <1>2. \A hd \in RootHandles : hd.kind = "root"
    BY DEF RootHandles
  <1>3. \A hd \in DirHandles : hd.kind = "dir"
    BY DEF DirHandles
  <1> QED
    BY <1>1, <1>2, <1>3

(* A handle that is made stands on the first disk (ndpluginw.c:168).       *)
LEMMA FreshRoot ==
  ASSUME NEW d, Len(d) \in Nat
  PROVE  RootHandle(Len(d)) \in RootHandles /\ RootKept(RootHandle(Len(d)), d)
  <1> DEFINE hd == RootHandle(Len(d))
  <1>1. /\ hd.kind = "root" /\ hd.next = (IF Len(d) = 0 THEN 0 ELSE 1) /\ hd.isLast = FALSE
        /\ hd.shown = << >> /\ hd.known = Len(d)
    BY DEF RootHandle
  <1>2. hd \in RootHandles
    BY DEF RootHandle, RootHandles
  <1> HIDE DEF hd
  <1>3. Passed(hd) = 0 /\ Len(hd.shown) = 0
    BY <1>1 DEF Passed
  <1>4. RootKept(hd, d)
    BY <1>1, <1>3 DEF RootKept
  <1> QED
    BY <1>2, <1>4 DEF hd

(* The item that adds a disk is handed out last (ndpluginw.c:197-205).     *)
LEMMA RootEnds ==
  ASSUME NEW hd \in RootHandles, NEW d, Len(d) \in Nat, RootKept(hd, d), ~hd.isLast, hd.next = 0,
         NEW e, e = [hd EXCEPT !.shown = Append(@, NewDiskItem), !.isLast = TRUE]
  PROVE  e \in RootHandles /\ RootKept(e, d)
  <1>1. hd.shown \in Seq(Name \cup {NewDiskItem}) /\ Len(hd.shown) \in Nat
    BY DEF RootHandles
  <1>2. e.next = 0 /\ e.isLast = TRUE /\ e.shown = Append(hd.shown, NewDiskItem) /\ e.known = hd.known
    BY DEF RootHandles
  <1>3. e \in RootHandles
    <2>1. Append(hd.shown, NewDiskItem) \in Seq(Name \cup {NewDiskItem})
      BY <1>1
    <2> QED
      BY <2>1 DEF RootHandles
  <1>4. /\ Len(e.shown) = Len(hd.shown) + 1 /\ e.shown[Len(e.shown)] = NewDiskItem
        /\ \A i \in 1 .. Len(hd.shown) : e.shown[i] = hd.shown[i]
    BY <1>1, <1>2
  <1>5. Passed(hd) = Len(hd.shown) /\ Passed(e) = Len(hd.shown)
    BY <1>1, <1>2, <1>4 DEF Passed
  <1> QED
    BY <1>1, <1>2, <1>3, <1>4, <1>5 DEF RootKept

(* A disk is handed out by its nickname, and the next pointer followed     *)
(* (ndpluginw.c:207-213).                                                  *)
LEMMA RootGoesOn ==
  ASSUME NEW hd \in RootHandles, NEW d, Len(d) \in Nat, RootKept(hd, d), ~hd.isLast, hd.next # 0,
         NamesOpen(d),
         NEW e, e = [hd EXCEPT !.shown = Append(@, d[hd.next].value.nickname), !.next = NextPlace(d, @)]
  PROVE  e \in RootHandles /\ RootKept(e, d)
  <1> DEFINE n == d[hd.next].value.nickname
  <1>1. /\ hd.shown \in Seq(Name \cup {NewDiskItem}) /\ Len(hd.shown) \in Nat
        /\ hd.next \in Nat /\ hd.known \in Nat
    BY DEF RootHandles
  <1>2. Passed(hd) = Len(hd.shown) /\ hd.next = Len(hd.shown) + 1 /\ hd.next \in 1 .. Len(d)
    BY <1>1 DEF Passed, RootKept
  <1>3. n \in Name /\ IsKey(d, n)
    BY <1>2 DEF NamesOpen
  <1> HIDE DEF n
  <1>4. NextPlace(d, hd.next) = IF hd.next < Len(d) THEN hd.next + 1 ELSE 0
    BY DEF NextPlace
  <1>5. /\ e.next = NextPlace(d, hd.next) /\ e.isLast = FALSE /\ e.shown = Append(hd.shown, n)
        /\ e.known = hd.known /\ e.kind = "root"
    BY DEF RootHandles, n
  <1>6. NextPlace(d, hd.next) \in Nat
    BY <1>1, <1>4
  <1>7. e \in RootHandles
    <2>1. Append(hd.shown, n) \in Seq(Name \cup {NewDiskItem})
      BY <1>1, <1>3
    <2> QED
      BY <1>6, <2>1 DEF RootHandles, n
  <1>8. /\ Len(e.shown) = Len(hd.shown) + 1 /\ e.shown[Len(e.shown)] = n
        /\ \A i \in 1 .. Len(hd.shown) : e.shown[i] = hd.shown[i]
    BY <1>1, <1>5
  <1>9. Passed(e) = Len(hd.shown) + 1
    BY <1>1, <1>5, <1>8 DEF Passed
  <1>10. \A i \in 1 .. Passed(e) : e.shown[i] \in Name /\ IsKey(d, e.shown[i])
    BY <1>1, <1>2, <1>3, <1>8, <1>9 DEF RootKept
  <1>11. hd.known <= Len(d)
    BY DEF RootKept
  <1> QED
    BY <1>1, <1>2, <1>4, <1>5, <1>7, <1>9, <1>10, <1>11 DEF RootKept

-----------------------------------------------------------------------------
(* A directory                                                             *)

(* A row is handed out, and the next pointer followed                      *)
(* (ndpluginw.c:216-226).                                                  *)
LEMMA DirGoesOn ==
  ASSUME NEW hd \in DirHandles, DirKept(hd), hd.next # 0, hd.dict[hd.next].value # NULL,
         NEW e, e = [hd EXCEPT !.shown = Append(@, hd.dict[hd.next].value),
                               !.next = NextPlace(hd.dict, @)]
  PROVE  e \in DirHandles /\ DirKept(e)
  <1> DEFINE r == hd.dict[hd.next].value
  <1>1. /\ hd.shown \in Seq(Row) /\ Len(hd.shown) \in Nat /\ hd.next \in Nat
        /\ hd.dict \in Seq(Stored) /\ Len(hd.dict) \in Nat
    BY DEF DirHandles
  <1>2. hd.next \in 1 .. Len(hd.dict) /\ Len(hd.shown) = hd.next - 1
    BY <1>1 DEF DirKept
  <1>3. r \in Row
    <2>1. hd.dict[hd.next] \in Stored
      BY <1>1, <1>2
    <2> QED
      BY <2>1 DEF Stored
  <1>4. NextPlace(hd.dict, hd.next) = IF hd.next < Len(hd.dict) THEN hd.next + 1 ELSE 0
    BY DEF NextPlace
  <1>5. /\ e.next = NextPlace(hd.dict, hd.next) /\ e.dict = hd.dict /\ e.shown = Append(hd.shown, r)
        /\ e.asked = hd.asked
    BY DEF DirHandles
  <1>6. NextPlace(hd.dict, hd.next) \in Nat
    BY <1>1, <1>4
  <1>7. Append(hd.shown, r) \in Seq(Row)
    BY <1>1, <1>3
  <1>8. e \in DirHandles
    BY <1>6, <1>7 DEF DirHandles
  <1> HIDE DEF r
  <1>9. /\ Len(e.shown) = hd.next /\ e.shown[hd.next] = r
        /\ \A i \in 1 .. Len(hd.shown) : e.shown[i] = hd.shown[i]
    BY <1>1, <1>2, <1>5
  <1>10. \A i \in 1 .. Len(e.shown) : e.shown[i] = e.dict[i].value
    BY <1>1, <1>2, <1>5, <1>9 DEF DirKept, r
  <1>11. e.next \in 0 .. Len(e.dict) /\ Len(e.shown) = IF e.next = 0 THEN Len(e.dict) ELSE e.next - 1
    BY <1>1, <1>2, <1>4, <1>5, <1>9
  <1>12. /\ RowsOf(e.asked) \in Seq(Row)
         /\ Different(RowsOf(e.asked)) =>
              /\ Len(e.dict) = Len(Told(e.asked))
              /\ \A i \in 1 .. Len(e.dict) : e.dict[i].value = Told(e.asked)[i]
    BY <1>5 DEF DirKept
  <1> QED
    BY <1>8, <1>10, <1>11, <1>12 DEF DirKept

-----------------------------------------------------------------------------
(* The listing built from an answer (disk.c:174-241)                       *)

(* The recursion of Listing, for a given solution.                         *)
BuiltOf(rows, good, b) ==
    b = [i \in 0 .. Len(rows) |-> IF i = 0 THEN << >> ELSE Place(b[i - 1], rows[i], i \in good)]

(* The same, row by row.                                                   *)
Builds(rows, good, b) ==
    b[0] = << >> /\ \A i \in 1 .. Len(rows) : b[i] = Place(b[i - 1], rows[i], i \in good)

(* A row put in a list of rows gives a list of rows.                       *)
LEMMA PlaceType ==
  ASSUME NEW es \in Seq(Stored), NEW r \in Row, NEW g \in BOOLEAN
  PROVE  Place(es, r, g) \in Seq(Stored)
  <1>1. r.name \in FileName /\ Len(es) \in Nat /\ DOMAIN es = 1 .. Len(es)
    BY DEF Row
  <1>2. ASSUME NEW v \in Row \cup {NULL}, Has(es, r.name) PROVE OverwriteLast(es, v) \in Seq(Stored)
    <2>1. Len(es) \in 1 .. Len(es) /\ es[Len(es)] \in Stored
      BY <1>1, <1>2 DEF Has
    <2> DEFINE e == [es[Len(es)] EXCEPT !.value = v]
    <2>2. e \in Stored
      BY <2>1 DEF Stored
    <2>3. OverwriteLast(es, v) = [es EXCEPT ![Len(es)] = e]
      BY DEF OverwriteLast
    <2> HIDE DEF e
    <2> QED
      BY <2>1, <2>2, <2>3
  <1>3. Insert(es, r.name, r) \in Seq(Stored)
    <2>1. Entry(r.name, r) \in Stored
      BY <1>1 DEF Entry, Stored
    <2> QED
      BY <2>1 DEF Insert
  <1> QED
    BY <1>2, <1>3 DEF Place, SetElement

(* A solution of the recursion is built row by row.                        *)
LEMMA BuiltSteps ==
  ASSUME NEW rows, Len(rows) \in Nat, NEW good, NEW b, BuiltOf(rows, good, b)
  PROVE  Builds(rows, good, b)
  <1> DEFINE F(i) == IF i = 0 THEN << >> ELSE Place(b[i - 1], rows[i], i \in good)
  <1>1. b = [i \in 0 .. Len(rows) |-> F(i)]
    BY DEF BuiltOf
  <1>2. \A i \in 0 .. Len(rows) : b[i] = F(i)
    <2> HIDE DEF F
    <2> QED
      BY <1>1
  <1>3. 0 \in 0 .. Len(rows) /\ \A i \in 1 .. Len(rows) : i \in 0 .. Len(rows) /\ i # 0
    OBVIOUS
  <1> QED
    BY <1>2, <1>3 DEF Builds

(* The recursion has a solution, a list of rows at every step.             *)
LEMMA ListingBuilt ==
  ASSUME NEW rows \in Seq(Row), NEW good
  PROVE  \E b \in [0 .. Len(rows) -> Seq(Stored)] :
            Builds(rows, good, b) /\ Listing(rows, good) = b[Len(rows)]
  <1> DEFINE n == Len(rows)
             Q == Seq(Stored)
             step == [i \in 1 .. n |-> [t \in Q |-> Place(t, rows[i], i \in good)]]
  <1>1. n \in Nat /\ << >> \in Q /\ \A i \in 1 .. n : rows[i] \in Row
    OBVIOUS
  <1>2. ASSUME NEW i \in 1 .. n, NEW t \in Q PROVE Place(t, rows[i], i \in good) \in Q
    <2>1. Place(t, rows[i], TRUE) \in Q /\ Place(t, rows[i], FALSE) \in Q
      BY <1>1, PlaceType
    <2>2. CASE i \in good
      BY <2>1, <2>2 DEF Place
    <2>3. CASE i \notin good
      BY <2>1, <2>3 DEF Place
    <2> QED
      BY <2>2, <2>3
  <1>3. step \in [1 .. n -> [Q -> Q]]
    BY <1>2
  <1>4. \A i \in 1 .. n : \A t \in Q : step[i][t] = Place(t, rows[i], i \in good)
    OBVIOUS
  <1> HIDE DEF step, n, Q
  <1>5. PICK f \in [0 .. n -> Q] : f[0] = << >> /\ \A i \in 1 .. n : f[i] = step[i][f[i - 1]]
    <2> DEFINE e == << >>
    <2>1. n \in Nat /\ e \in Q /\ step \in [1 .. n -> [Q -> Q]]
      BY <1>1, <1>3
    <2> HIDE DEF e
    <2>2. \E f \in [0 .. n -> Q] : f[0] = e /\ \A i \in 1 .. n : f[i] = step[i][f[i - 1]]
      BY <2>1, Recursion
    <2> QED
      BY <2>2 DEF e
  <1>6. \A i \in 1 .. n : f[i - 1] \in Q
    BY <1>1, <1>5
  <1>7. \A i \in 1 .. n : f[i] = Place(f[i - 1], rows[i], i \in good)
    BY <1>4, <1>5, <1>6
  <1>8. BuiltOf(rows, good, f)
    <2> DEFINE F(i) == IF i = 0 THEN << >> ELSE Place(f[i - 1], rows[i], i \in good)
    <2>1. ASSUME NEW i \in 0 .. n PROVE f[i] = F(i)
      <3>1. CASE i = 0
        BY <1>5, <3>1
      <3>2. CASE i # 0
        <4>1. i \in 1 .. n
          BY <1>1, <3>2
        <4> QED
          BY <1>7, <3>2, <4>1
      <3> QED
        BY <3>1, <3>2
    <2>2. f = [i \in 0 .. n |-> f[i]]
      BY <1>5
    <2> HIDE DEF F
    <2>3. f = [i \in 0 .. n |-> F(i)]
      BY <2>1, <2>2
    <2> QED
      BY <2>3 DEF F, BuiltOf, n
  <1> DEFINE b == CHOOSE q : BuiltOf(rows, good, q)
  <1>9. BuiltOf(rows, good, b)
    BY <1>8
  <1>10. Listing(rows, good) = b[n]
    BY DEF Listing, BuiltOf, n
  <1>11. b = [i \in 0 .. n |-> b[i]]
    BY <1>9 DEF BuiltOf, n
  <1> HIDE DEF b
  <1>12. b[0] = << >> /\ \A i \in 1 .. n : b[i] = Place(b[i - 1], rows[i], i \in good)
    BY <1>1, <1>9, BuiltSteps DEF n, Builds
  <1>13. \A i \in 0 .. n : b[i] = f[i]
    <2> DEFINE T == {i \in 0 .. n : b[i] = f[i]}
    <2>1. 0 \in T
      BY <1>1, <1>5, <1>12
    <2>2. ASSUME NEW i \in 0 .. n - 1, i \in T PROVE i + 1 \in T
      <3>1. i + 1 \in 1 .. n /\ (i + 1) - 1 = i /\ b[i] = f[i]
        BY <1>1, <2>2
      <3>2. b[i + 1] = f[i + 1]
        BY <1>7, <1>12, <3>1
      <3> QED
        BY <1>1, <3>1, <3>2
    <2> HIDE DEF T
    <2>3. \A i \in 0 .. n : i \in T
      BY <1>1, <2>1, <2>2, UpTo
    <2> QED
      BY <2>3 DEF T
  <1>14. b = f
    BY <1>5, <1>11, <1>13
  <1>15. Builds(rows, good, f)
    BY <1>5, <1>7 DEF Builds, n
  <1> QED
    BY <1>5, <1>10, <1>14, <1>15 DEF n, Q

(* Rows with different names are all new entries: the list holds those     *)
(* there was memory for, in the answer's order.                            *)
LEMMA ListingKeeps ==
  ASSUME NEW rows \in Seq(Row), NEW good, Different(rows)
  PROVE  /\ Listing(rows, good) \in Seq(Stored) /\ Selected(rows, good) \in Seq(Row)
         /\ Len(Listing(rows, good)) = Len(Selected(rows, good))
         /\ \A i \in 1 .. Len(Listing(rows, good)) :
               Listing(rows, good)[i].value = Selected(rows, good)[i]
  <1> DEFINE n == Len(rows)
  <1>1. n \in Nat /\ \A i \in 1 .. n : rows[i] \in Row
    OBVIOUS
  <1>2. PICK b \in [0 .. n -> Seq(Stored)] : Builds(rows, good, b) /\ Listing(rows, good) = b[n]
    BY ListingBuilt
  <1>3. PICK p \in [0 .. n -> Seq(Row)] : Grown(rows, good, p) /\ Selected(rows, good) = p[n]
    BY SelectedParts
  <1> DEFINE Alike(i) == /\ Len(b[i]) = Len(p[i])
                         /\ \A j \in 1 .. Len(b[i]) : b[i][j].value = p[i][j] /\ b[i][j].key = p[i][j].name
                         /\ \A j \in 1 .. Len(p[i]) : \E k \in 1 .. i : p[i][j] = rows[k]
             T == {i \in 0 .. n : Alike(i)}
  <1>4. 0 \in T
    <2>1. b[0] = << >> /\ p[0] = << >>
      BY <1>2, <1>3 DEF Builds, Grown
    <2> QED
      BY <1>1, <2>1
  <1>5. ASSUME NEW i \in 0 .. n - 1, i \in T PROVE i + 1 \in T
    <2> DEFINE r == rows[i + 1]
               s == b[i]
               t == p[i]
    <2>1. i + 1 \in 1 .. n /\ (i + 1) - 1 = i /\ i \in 0 .. n /\ i + 1 \in 0 .. n /\ r \in Row
      BY <1>1
    <2>2. /\ b[i + 1] = Place(s, r, i + 1 \in good)
          /\ p[i + 1] = IF i + 1 \in good THEN Append(t, r) ELSE t
      BY <1>2, <1>3, <2>1 DEF Builds, Grown
    <2>3. s \in Seq(Stored) /\ t \in Seq(Row) /\ Alike(i)
      BY <1>2, <1>3, <1>5, <2>1
    <2>4. ~Has(s, r.name)
      <3> SUFFICES ASSUME NEW j \in DOMAIN s, s[j].key = r.name PROVE FALSE
        BY DEF Has
      <3>1. j \in 1 .. Len(s) /\ j \in 1 .. Len(t)
        BY <2>3
      <3>2. PICK k \in 1 .. i : t[j] = rows[k]
        BY <2>3, <3>1
      <3>3. rows[k].name = rows[i + 1].name
        BY <2>3, <3>1, <3>2
      <3>4. k \in 1 .. Len(rows) /\ i + 1 \in 1 .. Len(rows)
        BY <1>1, <2>1
      <3>5. k = i + 1
        BY <3>3, <3>4 DEF Different
      <3> QED
        BY <2>1, <3>5
    <2>5. CASE i + 1 \in good
      <3> DEFINE e == Entry(r.name, r)
      <3>1. b[i + 1] = Append(s, e) /\ p[i + 1] = Append(t, r)
        BY <2>2, <2>4, <2>5 DEF Place, SetElement, Insert
      <3>2. e.key = r.name /\ e.value = r /\ e \in Stored
        BY <2>1 DEF Entry, Stored, Row
      <3> HIDE DEF e, r, s, t
      <3>3. /\ Len(b[i + 1]) = Len(s) + 1 /\ b[i + 1][Len(s) + 1] = e
            /\ \A j \in 1 .. Len(s) : b[i + 1][j] = s[j]
            /\ Len(p[i + 1]) = Len(t) + 1 /\ p[i + 1][Len(t) + 1] = r
            /\ \A j \in 1 .. Len(t) : p[i + 1][j] = t[j]
        BY <2>1, <2>3, <3>1, <3>2
      <3>4. Len(s) = Len(t) /\ Len(s) \in Nat
        BY <2>3 DEF s, t
      <3>5. \A j \in 1 .. Len(b[i + 1]) : b[i + 1][j].value = p[i + 1][j] /\ b[i + 1][j].key = p[i + 1][j].name
        <4> TAKE j \in 1 .. Len(b[i + 1])
        <4>1. CASE j = Len(s) + 1
          BY <3>2, <3>3, <3>4, <4>1
        <4>2. CASE j # Len(s) + 1
          <5>1. j \in 1 .. Len(s) /\ j \in 1 .. Len(t)
            BY <3>3, <3>4, <4>2
          <5>2. s[j].value = t[j] /\ s[j].key = t[j].name
            BY <2>3, <5>1 DEF s, t
          <5> QED
            BY <3>3, <5>1, <5>2
        <4> QED
          BY <4>1, <4>2
      <3>6. \A j \in 1 .. Len(p[i + 1]) : \E k \in 1 .. i + 1 : p[i + 1][j] = rows[k]
        <4> TAKE j \in 1 .. Len(p[i + 1])
        <4>1. CASE j = Len(t) + 1
          <5>1. p[i + 1][j] = rows[i + 1] /\ i + 1 \in 1 .. i + 1
            BY <2>1, <3>3, <4>1 DEF r
          <5> QED
            BY <5>1
        <4>2. CASE j # Len(t) + 1
          <5>1. j \in 1 .. Len(t)
            BY <3>3, <3>4, <4>2
          <5>2. PICK k \in 1 .. i : t[j] = rows[k]
            BY <2>3, <5>1 DEF t
          <5>3. k \in 1 .. i + 1 /\ p[i + 1][j] = rows[k]
            BY <2>1, <3>3, <5>1, <5>2
          <5> QED
            BY <5>3
        <4> QED
          BY <4>1, <4>2
      <3> QED
        BY <2>1, <3>3, <3>4, <3>5, <3>6
    <2>6. CASE i + 1 \notin good
      <3>1. b[i + 1] = s /\ p[i + 1] = t
        BY <2>2, <2>4, <2>6 DEF Place
      <3>2. \A k \in 1 .. i : k \in 1 .. i + 1
        BY <2>1
      <3>3. Alike(i + 1)
        BY <2>3, <3>1, <3>2
      <3> QED
        BY <2>1, <3>3
    <2> QED
      BY <2>5, <2>6
  <1> HIDE DEF T
  <1>6. \A i \in 0 .. n : i \in T
    BY <1>1, <1>4, <1>5, UpTo
  <1>7. n \in 0 .. n /\ n \in T
    BY <1>1, <1>6
  <1>8. Alike(n)
    BY <1>7 DEF T
  <1>9. b[n] \in Seq(Stored) /\ p[n] \in Seq(Row)
    BY <1>2, <1>3, <1>7
  <1> QED
    BY <1>2, <1>3, <1>8, <1>9

(* An answer is a sequence of rows, each with its number.                  *)
LEMMA AnswerRows ==
  ASSUME NEW rows \in Answers
  PROVE  /\ rows \in Seq(Row) /\ Len(rows) \in Nat /\ DOMAIN rows = 1 .. Len(rows)
         /\ \A i \in 1 .. Len(rows) : rows[i] = [name |-> rows[i].name, row |-> i]
  <1>1. PICK n \in 0 .. MaxFiles, f \in [1 .. MaxFiles -> FileName] :
           rows = [i \in 1 .. n |-> [name |-> f[i], row |-> i]]
    BY DEF Answers
  <1>2. n \in Nat /\ \A i \in 1 .. n : i \in 1 .. MaxFiles
    BY ListingAssumption
  <1>3. \A i \in 1 .. n : [name |-> f[i], row |-> i] \in Row
    BY <1>2 DEF Row
  <1>4. rows \in Seq(Row) /\ Len(rows) = n
    BY <1>1, <1>2, <1>3
  <1>5. \A i \in 1 .. n : rows[i] = [name |-> f[i], row |-> i]
    BY <1>1
  <1> QED
    BY <1>2, <1>4, <1>5

(* What a handle remembers of an answer is the answer.                     *)
LEMMA AskedRows ==
  ASSUME NEW rows \in Answers, NEW good \in SUBSET (DOMAIN rows),
         NEW asked, asked = [i \in DOMAIN rows |-> [name |-> rows[i].name, kept |-> i \in good]]
  PROVE  /\ asked \in Seq([name : FileName, kept : BOOLEAN])
         /\ RowsOf(asked) = rows
         /\ Told(asked) = Selected(rows, good)
  <1> DEFINE n == Len(rows)
  <1>1. /\ rows \in Seq(Row) /\ n \in Nat /\ DOMAIN rows = 1 .. n
        /\ \A i \in 1 .. n : rows[i] = [name |-> rows[i].name, row |-> i]
    BY AnswerRows
  <1>2. DOMAIN asked = 1 .. n
    BY <1>1
  <1>3. ASSUME NEW i \in 1 .. n
        PROVE  /\ asked[i] \in [name : FileName, kept : BOOLEAN]
               /\ asked[i].name = rows[i].name
               /\ asked[i].kept <=> i \in good
    <2>1. rows[i].name \in FileName /\ i \in DOMAIN rows
      BY <1>1 DEF Row
    <2>2. CASE i \in good
      <3>1. (i \in good) = TRUE
        BY <2>2
      <3>2. asked[i] = [name |-> rows[i].name, kept |-> i \in good]
        BY <2>1, Zenon
      <3>3. asked[i] = [name |-> rows[i].name, kept |-> TRUE]
        BY <3>1, <3>2, Zenon
      <3> QED
        BY <2>1, <2>2, <3>3
    <2>3. CASE i \notin good
      <3>1. (i \in good) = FALSE
        BY <2>3
      <3>2. asked[i] = [name |-> rows[i].name, kept |-> i \in good]
        BY <2>1, Zenon
      <3>3. asked[i] = [name |-> rows[i].name, kept |-> FALSE]
        BY <3>1, <3>2, Zenon
      <3> QED
        BY <2>1, <2>3, <3>3
    <2> QED
      BY <2>2, <2>3
  <1>4. asked = [i \in 1 .. n |-> asked[i]]
    BY <1>1, Zenon
  <1>5. asked \in Seq([name : FileName, kept : BOOLEAN])
    <2> DEFINE A == [name : FileName, kept : BOOLEAN]
    <2>1. \A i \in 1 .. n : asked[i] \in A
      BY <1>3
    <2> HIDE DEF A
    <2> HIDE DEF n
    <2>2. asked \in [1 .. n -> A]
      BY <1>4, <2>1, Zenon
    <2>3. asked \in Seq(A)
      BY <1>1, <2>2
    <2> QED
      BY <2>3 DEF A
  <1>6. RowsOf(asked) = rows
    <2> DEFINE F(i) == [name |-> asked[i].name, row |-> i]
    <2>1. RowsOf(asked) = [i \in 1 .. n |-> F(i)]
      BY <1>2, Zenon DEF RowsOf
    <2>2. \A i \in 1 .. n : F(i) = rows[i]
      BY <1>1, <1>3
    <2>3. rows = [i \in 1 .. n |-> rows[i]]
      BY <1>1
    <2> HIDE DEF F
    <2> QED
      BY <2>1, <2>2, <2>3
  <1>7. {i \in 1 .. n : asked[i].kept} = good
    <2>1. good \subseteq 1 .. n
      BY <1>1
    <2> QED
      BY <1>3, <2>1, Zenon
  <1>8. Told(asked) = Selected(rows, good)
    <2>1. Told(asked) = Selected(rows, {i \in 1 .. n : asked[i].kept})
      BY <1>1, <1>6, Zenon DEF Told
    <2> QED
      BY <1>7, <2>1, Zenon
  <1> QED
    BY <1>5, <1>6, <1>8

(* A directory whose script gave a table is listed from its first row.     *)
LEMMA FreshDir ==
  ASSUME NEW rows \in Answers, NEW good \in SUBSET (DOMAIN rows),
         NEW asked, asked = [i \in DOMAIN rows |-> [name |-> rows[i].name, kept |-> i \in good]],
         NEW run \in {"ended", "failed"},
         NEW hd, hd = DirHandle(Listing(rows, good), asked, run)
  PROVE  hd \in DirHandles /\ DirKept(hd)
  <1> DEFINE d == Listing(rows, good)
             A == [name : FileName, kept : BOOLEAN]
  <1>1. asked \in Seq(A) /\ RowsOf(asked) = rows /\ Told(asked) = Selected(rows, good)
    BY AskedRows
  <1>2. rows \in Seq(Row)
    BY AnswerRows
  <1>3. d \in Seq(Stored)
    <2>1. PICK b \in [0 .. Len(rows) -> Seq(Stored)] : d = b[Len(rows)]
      BY <1>2, ListingBuilt
    <2>2. Len(rows) \in 0 .. Len(rows)
      BY <1>2
    <2> QED
      BY <2>1, <2>2
  <1>4. Different(rows) => /\ Len(d) = Len(Selected(rows, good))
                           /\ \A i \in 1 .. Len(d) : d[i].value = Selected(rows, good)[i]
    BY <1>2, ListingKeeps
  <1> HIDE DEF d, A
  <1>5. /\ hd.kind = "dir" /\ hd.next = (IF d = << >> THEN 0 ELSE 1) /\ hd.dict = d /\ hd.shown = << >>
        /\ hd.asked = asked /\ hd.run = run
    BY DEF DirHandle, d
  <1>6. hd \in DirHandles
    BY <1>1, <1>3 DEF DirHandle, DirHandles, d, A
  <1>7. Len(hd.shown) = 0 /\ Len(d) \in Nat /\ (d = << >> <=> Len(d) = 0)
    BY <1>3, <1>5
  <1>8. RowsOf(hd.asked) = rows /\ Told(hd.asked) = Selected(rows, good)
    BY <1>1, <1>5
  <1>9. RowsOf(hd.asked) \in Seq(Row)
    BY <1>2, <1>8, Zenon
  <1>10. /\ hd.next \in 0 .. Len(hd.dict)
         /\ Len(hd.shown) = IF hd.next = 0 THEN Len(hd.dict) ELSE hd.next - 1
         /\ \A i \in 1 .. Len(hd.shown) : hd.shown[i] = hd.dict[i].value
    BY <1>5, <1>7
  <1>11. Different(RowsOf(hd.asked)) =>
            /\ Len(hd.dict) = Len(Told(hd.asked))
            /\ \A i \in 1 .. Len(hd.dict) : hd.dict[i].value = Told(hd.asked)[i]
    BY <1>4, <1>5, <1>8
  <1>12. DirKept(hd)
    BY <1>9, <1>10, <1>11, Zenon DEF DirKept
  <1> QED
    BY <1>6, <1>12

(* One whose script gave nothing is empty.                                 *)
LEMMA EmptyDir ==
  ASSUME NEW run \in {"ended", "failed"}
  PROVE  DirHandle(<< >>, << >>, run) \in DirHandles /\ DirKept(DirHandle(<< >>, << >>, run))
  <1> DEFINE hd == DirHandle(<< >>, << >>, run)
             none == << >>
  <1>1. none \in Seq(Row) /\ Len(none) = 0 /\ DOMAIN none = {}
    OBVIOUS
  <1>2. Selected(none, {}) = SubSeq(none, 1, 0)
    <2>1. \A i \in 1 .. Len(none) : i \in {} <=> i <= 0
      BY <1>1
    <2>2. 0 \in 0 .. Len(none)
      BY <1>1
    <2> HIDE DEF none
    <2> QED
      BY <1>1, <2>1, <2>2, SelectedPrefix
  <1>3. RowsOf(none) = none
    BY <1>1 DEF RowsOf
  <1>4. {i \in DOMAIN none : none[i].kept} = {}
    BY <1>1
  <1>5. Told(none) = SubSeq(none, 1, 0)
    BY <1>2, <1>3, <1>4, Zenon DEF Told
  <1>6. Len(Told(none)) = 0
    BY <1>1, <1>5
  <1>7. /\ hd.kind = "dir" /\ hd.next = 0 /\ hd.dict = none /\ hd.shown = none
        /\ hd.asked = none /\ hd.run = run
    BY DEF DirHandle
  <1>8. hd \in DirHandles
    BY DEF DirHandle, DirHandles
  <1> HIDE DEF hd, none
  <1>9. RowsOf(hd.asked) \in Seq(Row)
    BY <1>1, <1>3, <1>7, Zenon
  <1>10. /\ hd.next \in 0 .. Len(hd.dict)
         /\ Len(hd.shown) = IF hd.next = 0 THEN Len(hd.dict) ELSE hd.next - 1
         /\ \A i \in 1 .. Len(hd.shown) : hd.shown[i] = hd.dict[i].value
    BY <1>1, <1>7
  <1>11. /\ Len(hd.dict) = Len(Told(hd.asked))
         /\ \A i \in 1 .. Len(hd.dict) : hd.dict[i].value = Told(hd.asked)[i]
    BY <1>1, <1>6, <1>7
  <1>12. DirKept(hd)
    BY <1>9, <1>10, <1>11, Zenon DEF DirKept
  <1> QED
    BY <1>8, <1>12 DEF hd

-----------------------------------------------------------------------------
(* Steps                                                                   *)

Handles == {Closed} \cup RootHandles \cup DirHandles

Handled(hs, d) == hs \in [Handle -> Handles] /\ \A h \in Handle : Kept(hs[h], d)

(* A closed handle keeps nothing.                                          *)
LEMMA ClosedKept == ASSUME NEW d PROVE Closed \in Handles /\ Kept(Closed, d)
  BY Kinds DEF Handles, Kept

(* One handle is made, moved on or closed.                                 *)
LEMMA HandleSet ==
  ASSUME NEW hs, NEW d, Handled(hs, d), NEW h \in Handle, NEW hd \in Handles, Kept(hd, d)
  PROVE  Handled([hs EXCEPT ![h] = hd], d)
  <1> DEFINE ht == [hs EXCEPT ![h] = hd]
  <1>1. hs \in [Handle -> Handles]
    BY DEF Handled
  <1>2. ht \in [Handle -> Handles] /\ \A g \in Handle : ht[g] = IF g = h THEN hd ELSE hs[g]
    BY <1>1
  <1> HIDE DEF ht
  <1>3. ASSUME NEW g \in Handle PROVE Kept(ht[g], d)
    BY <1>2 DEF Handled
  <1> QED
    BY <1>2, <1>3 DEF Handled, ht

(* All are closed when the process ends.                                   *)
LEMMA HandlesGone == ASSUME NEW d PROVE Handled([h \in Handle |-> Closed], d)
  BY ClosedKept DEF Handled

(* The panels' list stays while the registry grows.                        *)
LEMMA HandlesStay ==
  ASSUME NEW hs, NEW d, NEW e, Handled(hs, d), Len(d) \in Nat, Len(e) \in Nat,
         \A i \in 1 .. Len(d) : i \in 1 .. Len(e) /\ e[i].key = d[i].key
  PROVE  Handled(hs, e)
  <1>1. ASSUME NEW h \in Handle PROVE Kept(hs[h], e)
    <2>1. Kept(hs[h], d)
      BY DEF Handled
    <2> QED
      BY <2>1, KeptOn
  <1> QED
    BY <1>1 DEF Handled

(* The handle of a directory is made.                                      *)
LEMMA DirOpens ==
  ASSUME Handled(handles, disks), NEW h \in Handle,
         OpenEmpty(h, "ended") \/ OpenEmpty(h, "failed") \/ OpenWithAnswer(h)
  PROVE  Handled(handles', disks)
  <1>1. ASSUME NEW hd \in DirHandles, DirKept(hd), handles' = [handles EXCEPT ![h] = hd]
        PROVE  Handled(handles', disks)
    <2>1. hd \in Handles /\ Kept(hd, disks)
      BY <1>1, Kinds DEF Handles, Kept
    <2>2. Handled([handles EXCEPT ![h] = hd], disks)
      BY <2>1, HandleSet
    <2> QED
      BY <1>1, <2>2
  <1>2. ASSUME NEW run \in {"ended", "failed"}, handles' = [handles EXCEPT ![h] = DirHandle(<< >>, << >>, run)]
        PROVE  Handled(handles', disks)
    <2> DEFINE hd == DirHandle(<< >>, << >>, run)
    <2>1. hd \in DirHandles /\ DirKept(hd)
      BY EmptyDir
    <2> HIDE DEF hd
    <2> QED
      BY <1>1, <1>2, <2>1 DEF hd
  <1>3. ASSUME NEW rows \in Answers, NEW good \in SUBSET (DOMAIN rows), NEW run \in {"ended", "failed"},
               handles' = [handles EXCEPT ![h] =
                  DirHandle(Listing(rows, good), [i \in DOMAIN rows |->
                      [name |-> rows[i].name, kept |-> i \in good]], run)]
        PROVE  Handled(handles', disks)
    <2> DEFINE asked == [i \in DOMAIN rows |-> [name |-> rows[i].name, kept |-> i \in good]]
               hd == DirHandle(Listing(rows, good), asked, run)
    <2>1. hd \in DirHandles /\ DirKept(hd)
      BY FreshDir
    <2>2. handles' = [handles EXCEPT ![h] = hd]
      BY <1>3
    <2> HIDE DEF hd
    <2> QED
      BY <1>1, <2>1, <2>2
  <1> QED
    BY <1>2, <1>3 DEF OpenEmpty, OpenWithAnswer

(* A call of a panel that leaves the registry alone.                       *)
LEMMA PanelStep ==
  ASSUME Handled(handles, disks), Len(disks) \in Nat, NamesOpen(disks), NEW h \in Handle,
         \/ FindFirstRoot(h) \/ FindNextRoot(h) \/ FindNextDir(h) \/ FindClose(h)
         \/ \E k \in Name : FindFirstDisk(h, k)
  PROVE  Handled(handles', disks)
  <1> DEFINE hd == handles[h]
  <1>1. hd \in Handles /\ Kept(hd, disks) /\ handles \in [Handle -> Handles]
    BY DEF Handled
  <1>2. hd.kind = "root" => hd \in RootHandles /\ RootKept(hd, disks)
    BY <1>1, Kinds DEF Handles, Kept, Closed
  <1>3. hd.kind = "dir" => hd \in DirHandles /\ DirKept(hd)
    BY <1>1, Kinds DEF Handles, Kept, Closed
  <1>4. ASSUME NEW e \in Handles, Kept(e, disks), handles' = [handles EXCEPT ![h] = e]
        PROVE  Handled(handles', disks)
    BY <1>4, HandleSet
  <1>5. CASE FindFirstRoot(h)
    <2> DEFINE e == RootHandle(Len(disks))
    <2>1. e \in RootHandles /\ RootKept(e, disks)
      BY FreshRoot
    <2>2. handles' = [handles EXCEPT ![h] = e]
      BY <1>5 DEF FindFirstRoot
    <2> HIDE DEF e
    <2>3. e \in Handles /\ Kept(e, disks)
      BY <2>1, Kinds DEF Handles, Kept
    <2> QED
      BY <1>4, <2>2, <2>3
  <1>6. CASE FindNextRoot(h)
    <2> DEFINE e == RootItem(hd)
    <2>1. hd.kind = "root" /\ ~hd.isLast /\ handles' = [handles EXCEPT ![h] = e]
      BY <1>6 DEF FindNextRoot
    <2>2. e \in RootHandles /\ RootKept(e, disks)
      <3>1. CASE hd.next = 0
        BY <1>2, <2>1, <3>1, RootEnds DEF RootItem
      <3>2. CASE hd.next # 0
        BY <1>2, <2>1, <3>2, RootGoesOn DEF RootItem
      <3> QED
        BY <3>1, <3>2
    <2> HIDE DEF e
    <2>3. e \in Handles /\ Kept(e, disks)
      BY <2>2, Kinds DEF Handles, Kept
    <2> QED
      BY <1>4, <2>1, <2>3
  <1>7. CASE FindNextDir(h)
    <2> DEFINE e == DirItem(hd)
    <2>1. /\ hd.kind = "dir" /\ hd.next # 0 /\ hd.dict[hd.next].value # NULL
          /\ handles' = [handles EXCEPT ![h] = e]
      BY <1>7 DEF FindNextDir
    <2>2. e \in DirHandles /\ DirKept(e)
      BY <1>3, <2>1, DirGoesOn DEF DirItem
    <2> HIDE DEF e
    <2>3. e \in Handles /\ Kept(e, disks)
      BY <2>2, Kinds DEF Handles, Kept
    <2> QED
      BY <1>4, <2>1, <2>3
  <1>8. CASE FindClose(h)
    <2>1. handles' = [handles EXCEPT ![h] = Closed]
      BY <1>8 DEF FindClose
    <2> QED
      BY <1>4, <2>1, ClosedKept
  <1>9. CASE \E k \in Name : FindFirstDisk(h, k)
    <2>1. OpenEmpty(h, "ended") \/ OpenWithAnswer(h)
      BY <1>9 DEF FindFirstDisk
    <2> QED
      BY <2>1, DirOpens
  <1> QED
    BY <1>5, <1>6, <1>7, <1>8, <1>9
-----------------------------------------------------------------------------
(* The invariant is inductive                                              *)

(* What the step lemmas have to show of the step's end.                    *)
LEMMA Enough ==
  ASSUME Handled(handles', disks'), Paired', ready' \in Ready \cup {NULL},
         pc' = "down" => waiting' = << >> /\ ready' = NULL /\ \A h \in Handle : handles'[h] = Closed
  PROVE  LInv'
  BY DEF LInv, Typed, Quiet, Handled, Handles

(* The process ends.                                                       *)
LEMMA AllGone ==
  ASSUME NothingOpen, pc' = "down", calls' = << >>
  PROVE  LInv'
  <1>1. Handled(handles', disks')
    BY HandlesGone DEF NothingOpen
  <1>2. Paired'
    BY DEF NothingOpen, Paired
  <1> QED
    BY <1>1, <1>2, Enough DEF NothingOpen

(* It ends through the registry's own steps.                               *)
LEMMA EndsGone == ASSUME Ends PROVE LInv'
  BY AllGone DEF Ends, R!Detach, R!Crash, R!Gone

(* One call more at most, for handle h if it waits for an authorization;   *)
(* those below are of the kind they were.                                  *)
Moved(h) ==
    /\ Len(calls') <= Len(calls) + 1
    /\ \A i \in 1 .. Len(calls') : i <= Len(calls) => calls'[i].is = calls[i].is
    /\ Len(calls') > Len(calls) => (calls'[Len(calls')].is = "auth" => h # NULL)

(* A handle is entered, or left, with its call.                            *)
LEMMA PairsMove ==
  ASSUME Paired, calls \in Seq(P!Calls), calls' \in Seq(P!Calls),
         NEW h \in Handle \cup {NULL}, Moved(h), Along(h)
  PROVE  Paired'
  <1> DEFINE H == Handle \cup {NULL}
             n == Len(calls')
  <1>1. waiting \in Seq(H) /\ Len(waiting) = Len(calls) /\ Len(calls) \in Nat /\ n \in Nat
    BY DEF Paired
  <1> HIDE DEF H
  <1>2. h \in H
    BY DEF H
  <1>3. CASE n > Len(calls)
    <2>1. n = Len(calls) + 1 /\ waiting' = Append(waiting, h)
      BY <1>1, <1>3 DEF Moved, Along
    <2>2. /\ waiting' \in Seq(H) /\ Len(waiting') = n /\ waiting'[n] = h
          /\ \A i \in 1 .. Len(calls) : waiting'[i] = waiting[i]
      BY <1>1, <1>2, <2>1
    <2>3. ASSUME NEW i \in 1 .. n, calls'[i].is = "auth" PROVE waiting'[i] # NULL
      <3>1. CASE i = n
        BY <1>3, <2>2, <2>3, <3>1 DEF Moved
      <3>2. CASE i # n
        <4>1. i \in 1 .. Len(calls)
          BY <1>1, <2>1, <3>2
        <4>2. calls[i].is = "auth"
          BY <2>3, <4>1 DEF Moved
        <4> QED
          BY <2>2, <4>1, <4>2 DEF Paired
      <3> QED
        BY <3>1, <3>2
    <2> QED
      BY <2>2, <2>3 DEF Paired, H
  <1>4. CASE n <= Len(calls)
    <2>1. waiting' = SubSeq(waiting, 1, n)
      BY <1>1, <1>4 DEF Along
    <2>2. waiting' \in Seq(H) /\ Len(waiting') = n /\ \A i \in 1 .. n : waiting'[i] = waiting[i]
      BY <1>1, <1>4, <2>1
    <2>3. ASSUME NEW i \in 1 .. n, calls'[i].is = "auth" PROVE waiting'[i] # NULL
      <3>1. i \in 1 .. Len(calls) /\ calls[i].is = "auth"
        BY <1>1, <1>4, <2>3 DEF Moved
      <3> QED
        BY <2>2, <3>1 DEF Paired
    <2> QED
      BY <2>2, <2>3 DEF Paired, H
  <1> QED
    BY <1>1, <1>3, <1>4

(* An overwrite changes what a call knows, not what it is.                 *)
LEMMA StoreMoves ==
  ASSUME NEW d, NEW cs \in Seq(P!Calls), R!Store(d, cs)
  PROVE  /\ Len(calls') = Len(cs)
         /\ \A i \in 1 .. Len(cs) : calls'[i].is = cs[i].is
         /\ pc' \in {"idle", "delete"}
  <1>1. DOMAIN cs = 1 .. Len(cs) /\ Len(cs) \in Nat /\ \A i \in 1 .. Len(cs) : cs[i] \in P!Calls
    OBVIOUS
  <1>2. calls' = R!Replaced(cs) \/ calls' = cs
    BY DEF R!Store
  <1>3. pc' \in {"idle", "delete"}
    BY DEF R!Store, R!StartSave
  <1>4. CASE calls' = R!Replaced(cs)
    <2>1. DOMAIN calls' = 1 .. Len(cs)
      BY <1>1, <1>4 DEF R!Replaced
    <2>2. Len(calls') = Len(cs)
      <3>1. calls' = [i \in 1 .. Len(cs) |-> calls'[i]]
        BY <1>1, <1>4 DEF R!Replaced
      <3> QED
        BY <1>1, <3>1
    <2>3. ASSUME NEW i \in 1 .. Len(cs) PROVE calls'[i].is = cs[i].is
      <3>1. calls'[i] = cs[i] \/ calls'[i] = [cs[i] EXCEPT !.replaced = TRUE]
        BY <1>1, <1>4 DEF R!Replaced
      <3> QED
        BY <1>1, <3>1 DEF P!Calls
    <2> QED
      BY <1>3, <2>2, <2>3
  <1> QED
    BY <1>2, <1>3, <1>4

(* The calls without the innermost.                                        *)
LEMMA Left ==
  ASSUME calls \in Seq(P!Calls), calls # << >>
  PROVE  /\ R!Front(calls) \in Seq(P!Calls) /\ Len(R!Front(calls)) = Len(calls) - 1
         /\ \A i \in 1 .. Len(calls) - 1 : R!Front(calls)[i] = calls[i]
         /\ Len(calls) \in Nat \ {0}
  <1>1. R!Front(calls) = Front(calls)
    BY DEF R!Front, Front
  <1>2. /\ Front(calls) \in Seq(P!Calls) /\ Len(Front(calls)) = Len(calls) - 1
        /\ \A i \in 1 .. Len(calls) - 1 : Front(calls)[i] = calls[i]
        /\ Len(calls) \in Nat \ {0}
    BY Popped
  <1> QED
    BY <1>1, <1>2

(* A step of the dialog.                                                   *)
LEMMA DialogMoves ==
  ASSUME calls \in Seq(P!Calls), Dialog
  PROVE  Moved(NULL) /\ pc # "down" /\ pc' # "down"
  <1>1. Len(calls) \in Nat
    OBVIOUS
  <1>2. CASE R!OpenDialog \/ R!CancelDialog
    BY <1>1, <1>2 DEF R!OpenDialog, R!CancelDialog, Moved
  <1>3. CASE R!ConfirmNo
    <2>1. calls # << >> /\ calls' = R!Front(calls) /\ pc = "idle" /\ pc' = pc
      BY <1>3 DEF R!ConfirmNo, R!Innermost
    <2> QED
      BY <2>1, Left DEF Moved
  <1>4. CASE R!ConfirmYes
    <2>1. calls # << >> /\ pc = "idle" /\ R!Store(R!Last(calls).disk, R!Front(calls))
      BY <1>4 DEF R!ConfirmYes, R!Innermost
    <2>2. /\ Len(calls') = Len(R!Front(calls)) /\ pc' \in {"idle", "delete"}
          /\ \A i \in 1 .. Len(R!Front(calls)) : calls'[i].is = R!Front(calls)[i].is
      BY <2>1, Left, StoreMoves
    <2> QED
      BY <2>1, <2>2, Left DEF Moved
  <1>5. CASE \E t \in Type, u \in User, n \in Name \cup {Empty} : R!PressOk(t, u, n)
    <2>1. PICK d : /\ pc = "idle"
                   /\ \/ calls' = Append(calls, R!Asking(d)) /\ pc' = pc
                      \/ R!Store(d, calls)
      BY <1>5 DEF R!PressOk
    <2>2. CASE calls' = Append(calls, R!Asking(d)) /\ pc' = pc
      <3>1. R!Asking(d).is = "confirm"
        BY DEF R!Asking
      <3> QED
        BY <1>1, <2>1, <2>2, <3>1 DEF Moved
    <2>3. CASE R!Store(d, calls)
      BY <1>1, <2>1, <2>3, StoreMoves DEF Moved
    <2> QED
      BY <2>1, <2>2, <2>3
  <1> QED
    BY <1>2, <1>3, <1>4, <1>5 DEF Dialog

(* A call of a panel.                                                      *)
LEMMA PanelKeeps ==
  ASSUME LInv, P!IInv, P!IInv', NEW h \in Handle, Panel(h)
  PROVE  LInv'
  <1>1. Handled(handles, disks) /\ ready \in Ready \cup {NULL}
    BY DEF LInv, Typed, Handled, Handles
  <1>2. Len(disks) \in Nat /\ calls \in Seq(P!Calls) /\ calls' \in Seq(P!Calls)
    BY RegistryFacts DEF P!IInv, P!TypeOK
  <1>3. MayEnter => NamesOpen(disks) /\ pc # "down"
    BY RegistryFacts DEF MayEnter
  <1>4. ASSUME \/ FindFirstRoot(h) \/ FindNextRoot(h) \/ FindNextDir(h) \/ FindClose(h)
               \/ \E k \in Name : FindFirstDisk(h, k)
        PROVE  LInv'
    <2>1. MayEnter /\ UNCHANGED <<registry, waiting, ready>>
      BY <1>4 DEF FindFirstRoot, FindNextRoot, FindNextDir, FindClose, FindFirstDisk
    <2>2. disks' = disks /\ pc' = pc /\ calls' = calls /\ waiting' = waiting /\ ready' = ready
      BY <2>1 DEF registry
    <2>3. Handled(handles', disks)
      BY <1>1, <1>2, <1>3, <1>4, <2>1, PanelStep
    <2>4. Paired'
      BY <2>2 DEF LInv, Paired
    <2> QED
      BY <1>1, <1>3, <2>1, <2>2, <2>3, <2>4, Enough
  <1>5. ASSUME NEW k \in Name, FindFirstAuth(h, k) PROVE LInv'
    <2>1. PICK c : /\ handles' = handles /\ disks' = disks /\ pc # "down" /\ pc' = pc /\ ready' = ready
                   /\ calls' = Append(calls, c) /\ Along(h)
      BY <1>5 DEF FindFirstAuth, R!ListDisk
    <2>2. h # NULL
      BY ListingAssumption
    <2>3. Moved(h)
      BY <1>2, <2>1, <2>2 DEF Moved
    <2>4. Paired'
      BY <1>2, <2>1, <2>3, PairsMove DEF LInv
    <2> QED
      BY <1>1, <2>1, <2>4, Enough
  <1>6. CASE FindNextCrashes(h)
    BY <1>6, EndsGone DEF FindNextCrashes
  <1> QED
    BY <1>4, <1>5, <1>6 DEF Panel, FindNext

(* A step of the registry that the handles outlive.                        *)
LEMMA RegistryKeeps ==
  ASSUME LInv, P!IInv, P!IInv', disks' = disks \/ P!KeysStay,
         handles' = handles, Paired', ready' \in Ready \cup {NULL}, pc' # "down"
  PROVE  LInv'
  <1>1. Len(disks) \in Nat /\ Len(disks') \in Nat
    <2>1. disks \in Seq(P!Entries) /\ disks' \in Seq(P!Entries)
      BY DEF P!IInv, P!TypeOK, P!Entries, P!Disk
    <2> QED
      BY <2>1
  <1>2. Handled(handles, disks)
    BY DEF LInv, Typed, Handled, Handles
  <1>3. \A i \in 1 .. Len(disks) : i \in 1 .. Len(disks') /\ disks'[i].key = disks[i].key
    BY DEF P!KeysStay
  <1>4. Handled(handles', disks')
    BY <1>1, <1>2, <1>3, HandlesStay
  <1> QED
    BY <1>4, Enough

(* The authorization's ends, and the opening that waited for it.           *)
LEMMA OpeningKeeps ==
  ASSUME LInv, P!IInv, P!IInv', pc # "down" /\ pc' # "down" => P!KeysStay \/ disks' = disks,
         AuthFails \/ AuthDone \/ FindFirstEnds \/ Unwind
  PROVE  LInv'
  <1>1. Handled(handles, disks) /\ ready \in Ready \cup {NULL}
    BY DEF LInv, Typed, Handled, Handles
  <1>2. /\ calls \in Seq(P!Calls) /\ calls' \in Seq(P!Calls) /\ DOMAIN calls = 1 .. Len(calls)
        /\ Len(calls) \in Nat
    BY DEF P!IInv, P!TypeOK
  <1>3. ASSUME NEW h \in Handle, OpenEmpty(h, "ended") \/ OpenEmpty(h, "failed") \/ OpenWithAnswer(h),
               disks' = disks, ready' = NULL, pc' = "idle", Paired'
        PROVE  LInv'
    <2>1. Handled(handles', disks)
      BY <1>1, <1>3, DirOpens
    <2> QED
      BY <1>3, <2>1, Enough
  <1>4. ASSUME NEW i \in 1 .. Len(calls), calls[i].is = "auth"
        PROVE  waiting[i] \in Handle
    BY <1>2, <1>4 DEF LInv, Paired
  <1>5. ASSUME R!Innermost("auth"), calls' = R!Front(calls), Along(NULL)
        PROVE  Paired' /\ Last(waiting) \in Handle
    <2>1. calls # << >> /\ R!Last(calls).is = "auth"
      BY <1>5 DEF R!Innermost
    <2>2. Len(calls) \in 1 .. Len(calls) /\ calls[Len(calls)].is = "auth"
      BY <1>2, <2>1, Left DEF R!Last
    <2>3. Len(waiting) = Len(calls)
      BY DEF LInv, Paired
    <2>4. Last(waiting) \in Handle
      BY <1>4, <2>2, <2>3 DEF Last
    <2>5. Moved(NULL)
      BY <1>2, <1>5, <2>1, Left DEF Moved
    <2>6. Paired'
      BY <1>2, <1>5, <2>5, PairsMove DEF LInv
    <2> QED
      BY <2>4, <2>6
  <1>6. CASE AuthFails
    <2>1. /\ R!Innermost("auth") /\ calls' = R!Front(calls) /\ Along(NULL)
          /\ disks' = disks /\ pc' = pc /\ pc = "idle" /\ ready' = ready /\ ready = NULL
          /\ OpenEmpty(Last(waiting), "ended")
      BY <1>6 DEF AuthFails, MayEnter, R!AuthFails
    <2> QED
      BY <1>3, <1>5, <2>1
  <1>7. CASE AuthDone
    <2>1. PICK t \in Token \cup {Empty} : R!SaveToken(t) /\ ready' = [handle |-> Last(waiting), token |-> t]
      BY <1>7 DEF AuthDone
    <2>2. R!Innermost("auth") /\ calls' = R!Front(calls) /\ pc' \in {pc, "idle", "delete"}
      BY <2>1 DEF R!SaveToken, R!StartSave
    <2>3. handles' = handles /\ Along(NULL) /\ pc = "idle"
      BY <1>7 DEF AuthDone, MayEnter
    <2>4. Paired' /\ Last(waiting) \in Handle
      BY <1>5, <2>2, <2>3
    <2>5. ready' \in Ready
      BY <2>1, <2>4 DEF Ready
    <2> QED
      BY <2>2, <2>3, <2>4, <2>5, RegistryKeeps
  <1>8. CASE FindFirstEnds
    <2>1. /\ pc = "idle" /\ ready # NULL /\ ready' = NULL /\ disks' = disks /\ pc' = pc
          /\ calls' = calls /\ waiting' = waiting
          /\ OpenEmpty(ready.handle, "ended") \/ OpenWithAnswer(ready.handle)
      BY <1>8 DEF FindFirstEnds, registry
    <2>2. ready.handle \in Handle
      BY <1>1, <2>1 DEF Ready
    <2>3. Paired'
      BY <2>1 DEF LInv, Paired
    <2> QED
      BY <1>3, <2>1, <2>2, <2>3
  <1>9. CASE Unwind
    <2>1. PICK i \in R!Auths : calls' = SubSeq(calls, 1, i - 1)
      BY <1>9 DEF Unwind, R!Unwind
    <2>2. i \in 1 .. Len(calls) /\ calls[i].is = "auth"
      BY <1>2 DEF R!Auths
    <2>3. Len(calls') = i - 1 /\ \A j \in 1 .. i - 1 : calls'[j] = calls[j]
      BY <1>2, <2>1, <2>2
    <2>4. Moved(NULL)
      BY <1>2, <2>2, <2>3 DEF Moved
    <2>5. Paired'
      BY <1>2, <1>9, <2>4, PairsMove DEF LInv, Unwind
    <2>6. waiting[Len(calls') + 1] \in Handle
      BY <1>4, <2>2, <2>3
    <2>7. /\ disks' = disks /\ pc' = pc /\ pc = "idle" /\ ready' = NULL
          /\ OpenEmpty(waiting[Len(calls') + 1], "failed")
      BY <1>9 DEF Unwind, R!Unwind
    <2> QED
      BY <1>3, <2>5, <2>6, <2>7
  <1> QED
    BY <1>6, <1>7, <1>8, <1>9

(* The dialog and the steps of a save.                                     *)
LEMMA RegistrySteps ==
  ASSUME LInv, P!IInv, P!IInv', pc # "down" /\ pc' # "down" => P!KeysStay \/ disks' = disks,
         Attach \/ Dialog \/ Saving \/ Ends
  PROVE  LInv'
  <1>1. ready \in Ready \cup {NULL} /\ calls \in Seq(P!Calls) /\ calls' \in Seq(P!Calls)
    BY DEF LInv, Typed, P!IInv, P!TypeOK
  <1>2. ASSUME calls' = calls, waiting' = waiting PROVE Paired'
    BY <1>2 DEF LInv, Paired
  <1>3. CASE Attach
    <2>1. /\ pc = "down" /\ pc' = "idle" /\ calls' = calls
          /\ handles' = handles /\ waiting' = waiting /\ ready' = ready
      BY <1>3 DEF Attach, R!Attach
    <2>2. \A h \in Handle : handles[h] = Closed
      BY <2>1 DEF LInv, Quiet
    <2>3. handles = [h \in Handle |-> Closed]
      BY <2>2 DEF LInv, Typed
    <2>4. Handled(handles', disks')
      BY <2>1, <2>3, HandlesGone
    <2> QED
      BY <1>1, <1>2, <2>1, <2>4, Enough
  <1>4. CASE Dialog
    <2>1. Moved(NULL) /\ pc # "down" /\ pc' # "down"
      BY <1>1, <1>4, DialogMoves
    <2>2. Along(NULL) /\ handles' = handles /\ ready' = ready
      BY <1>4 DEF Dialog
    <2>3. Paired'
      BY <1>1, <2>1, <2>2, PairsMove DEF LInv
    <2> QED
      BY <1>1, <2>1, <2>2, <2>3, RegistryKeeps
  <1>5. CASE Saving
    <2>1. CASE R!WriteCrashes /\ NothingOpen
      BY <2>1, AllGone DEF R!WriteCrashes, R!Gone
    <2>2. CASE (R!DeleteOld \/ R!WriteField) /\ UNCHANGED <<handles, waiting, ready>>
      <3>1. pc # "down" /\ pc' # "down" /\ calls' = calls
        BY <2>2 DEF R!DeleteOld, R!WriteField, R!Advance
      <3> QED
        BY <1>1, <1>2, <2>2, <3>1, RegistryKeeps
    <2> QED
      BY <1>5, <2>1, <2>2 DEF Saving
  <1>6. CASE Ends
    BY <1>6, EndsGone
  <1> QED
    BY <1>3, <1>4, <1>5, <1>6

(* Every step keeps it.                                                    *)
LEMMA Step ==
  ASSUME LInv, P!IInv, P!IInv', [Next]_vars, [pc # "down" /\ pc' # "down" => P!KeysStay]_(P!vars)
  PROVE  LInv'
  <1>1. pc # "down" /\ pc' # "down" => P!KeysStay \/ disks' = disks
    BY DEF P!vars
  <1>2. CASE Attach \/ Dialog \/ Saving \/ Ends
    BY <1>1, <1>2, RegistrySteps
  <1>3. CASE AuthFails \/ AuthDone \/ FindFirstEnds \/ Unwind
    BY <1>1, <1>3, OpeningKeeps
  <1>4. CASE \E h \in Handle : Panel(h)
    BY <1>4, PanelKeeps
  <1>5. CASE UNCHANGED vars
    BY <1>5 DEF vars, registry, LInv, Typed, Paired, Quiet
  <1> QED
    BY <1>2, <1>3, <1>4, <1>5 DEF Next

(* The invariant of the listings, over that of the registry: it is         *)
(* inductive, and the invariants below follow from it (ndpluginw.c:116-    *)
(* 263).                                                                   *)
LEMMA Invariant == Spec => []LInv
  <1>1. Init => LInv
    <2>1. ASSUME Init PROVE LInv
      <3>1. /\ handles = [h \in Handle |-> Closed] /\ waiting = << >> /\ ready = NULL
            /\ pc = "down" /\ calls = << >>
        BY <2>1 DEF Init, R!Init
      <3>2. Handled(handles, disks)
        BY <3>1, HandlesGone
      <3>3. Paired
        BY <3>1 DEF Paired
      <3> QED
        BY <3>1, <3>2, <3>3 DEF LInv, Typed, Quiet, Handled, Handles
    <2> QED
      BY <2>1
  <1>2. ASSUME LInv, P!IInv, P!IInv', [Next]_vars,
               [pc # "down" /\ pc' # "down" => P!KeysStay]_(P!vars)
        PROVE  LInv'
    BY <1>2, Step
  <1> QED
    BY <1>1, <1>2, RegistryHolds, PTL DEF Spec
-----------------------------------------------------------------------------
(* What follows                                                            *)

(* Every variable keeps to its type, for any number of handles, disks and  *)
(* rows (ndpluginw.c:153-161).                                             *)
THEOREM ListingTypes == Spec => []TypeOK
  <1>1. P!TypeOK => R!TypeOK
    BY DEF P!TypeOK, R!TypeOK, P!Entries, R!Entries, P!Disk, R!Disk, P!Section, R!Section,
           P!Fields, R!Fields, P!Calls, R!Calls
  <1>2. ASSUME LInv, P!IInv PROVE TypeOK
    <2>1. DOMAIN calls = 1 .. Len(calls)
      BY <1>2 DEF P!IInv, P!TypeOK
    <2> QED
      BY <1>1, <1>2, <2>1 DEF LInv, Typed, Paired, P!IInv, TypeOK
  <1> QED
    BY <1>2, Invariant, RegistryHolds, PTL

(* The disks a root handle has shown, without the item behind them.        *)
LEMMA Shown ==
  ASSUME NEW hd \in RootHandles, NEW d, RootKept(hd, d)
  PROVE  /\ Len(ShownDisks(hd)) = Passed(hd) /\ Passed(hd) \in Nat
         /\ DOMAIN ShownDisks(hd) = 1 .. Passed(hd)
         /\ \A i \in 1 .. Passed(hd) : ShownDisks(hd)[i] \in Name /\ IsKey(d, ShownDisks(hd)[i])
         /\ hd.isLast => Last(hd.shown) = NewDiskItem
  <1> DEFINE F == Name \cup {NewDiskItem}
  <1>1. hd.shown \in Seq(F) /\ Len(hd.shown) \in Nat
    BY DEF RootHandles
  <1> HIDE DEF F
  <1>2. CASE hd.isLast
    <2>1. Len(hd.shown) # 0 /\ hd.shown[Len(hd.shown)] = NewDiskItem /\ Passed(hd) = Len(hd.shown) - 1
      BY <1>2 DEF RootKept, Passed
    <2>2. hd.shown # << >>
      BY <1>1, <2>1
    <2>3. /\ Last(hd.shown) = hd.shown[Len(hd.shown)] /\ Len(hd.shown) \in Nat \ {0}
          /\ Front(hd.shown) \in Seq(F) /\ Len(Front(hd.shown)) = Len(hd.shown) - 1
          /\ \A i \in 1 .. Len(hd.shown) - 1 : Front(hd.shown)[i] = hd.shown[i]
      BY <1>1, <2>2, Popped
    <2>4. ShownDisks(hd) = Front(hd.shown)
      BY <1>2 DEF ShownDisks
    <2>5. DOMAIN Front(hd.shown) = 1 .. Len(Front(hd.shown))
      BY <2>3
    <2> QED
      BY <2>1, <2>3, <2>4, <2>5 DEF RootKept
  <1>3. CASE ~hd.isLast
    <2>1. ShownDisks(hd) = hd.shown /\ Passed(hd) = Len(hd.shown)
      BY <1>3 DEF ShownDisks, Passed
    <2>2. DOMAIN hd.shown = 1 .. Len(hd.shown)
      BY <1>1
    <2> QED
      BY <1>1, <1>3, <2>1, <2>2 DEF RootKept
  <1> QED
    BY <1>2, <1>3

(* An open root handle.                                                    *)
LEMMA OpenRoot ==
  ASSUME LInv, NEW h \in Handle, handles[h].kind = "root"
  PROVE  handles[h] \in RootHandles /\ RootKept(handles[h], disks)
  BY Kinds DEF LInv, Typed, Kept, Closed

(* A root listing shows every disk that was there when it began, in order, *)
(* then the item that adds one, and never leaves the registry, however     *)
(* many disks are added meanwhile (ndpluginw.c:168, 197-213).              *)
THEOREM RootIsListed == Spec => []RootListing
  <1>1. ASSUME LInv, P!IInv, NEW h \in Handle, handles[h].kind = "root",
               NEW hd, hd = handles[h], NEW m, m = Len(ShownDisks(hd))
        PROVE  /\ hd.next # 0 => hd.next = m + 1 /\ hd.next \in DOMAIN disks /\ ~hd.isLast
               /\ hd.next = 0 => hd.known <= m /\ m <= Len(disks)
               /\ hd.isLast => Last(hd.shown) = NewDiskItem
               /\ NewDiskItem \notin Range(ShownDisks(hd))
    <2>1. hd \in RootHandles /\ RootKept(hd, disks)
      BY <1>1, OpenRoot
    <2>2. /\ m = Passed(hd) /\ Passed(hd) \in Nat /\ DOMAIN ShownDisks(hd) = 1 .. m
          /\ \A i \in 1 .. m : ShownDisks(hd)[i] \in Name
          /\ hd.isLast => Last(hd.shown) = NewDiskItem
      BY <1>1, <2>1, Shown
    <2>3. Len(disks) \in Nat /\ DOMAIN disks = 1 .. Len(disks)
      BY <1>1, RegistryFacts
    <2>4. hd.next \in Nat /\ hd.isLast \in BOOLEAN
      BY <2>1 DEF RootHandles
    <2>5. NewDiskItem \notin Range(ShownDisks(hd))
      BY <2>2, ListingAssumption DEF Range
    <2> QED
      BY <2>1, <2>2, <2>3, <2>4, <2>5 DEF RootKept
  <1>2. LInv /\ P!IInv => RootListing
    BY <1>1 DEF RootListing
  <1> QED
    BY <1>2, Invariant, RegistryHolds, PTL

(* A name on a panel's root leads to a disk for as long as the plugin is   *)
(* loaded, and opens it, unless that disk is one the file brought whose    *)
(* script is not loaded (ndpluginw.c:211, disk.c:89-99).                   *)
THEOREM ShownDisksOpen == Spec => []ShownNamesOpen
  <1>1. ASSUME LInv, P!IInv, pc = "idle", NEW h \in Handle, handles[h].kind = "root",
               NEW i \in DOMAIN ShownDisks(handles[h])
        PROVE  R!Leads(ShownDisks(handles[h])[i])
    <2>1. handles[h] \in RootHandles /\ RootKept(handles[h], disks)
      BY <1>1, OpenRoot
    <2>2. IsKey(disks, ShownDisks(handles[h])[i])
      BY <1>1, <2>1, Shown
    <2>3. DOMAIN disks = 1 .. Len(disks)
      BY <1>1, RegistryFacts
    <2> DEFINE n == ShownDisks(handles[h])[i]
    <2>4. P!Has(disks, n)
      BY <2>2, <2>3 DEF IsKey, P!Has
    <2> HIDE DEF n
    <2>5. P!Leads(n)
      BY <1>1, <2>4, Assumed, RegistryAssumption, P!KeysLead
    <2>6. R!Leads(n)
      BY <2>5 DEF R!Leads, P!Leads, R!Opens, P!Opens, R!Has, P!Has, R!ValueOf, P!ValueOf,
                  R!PlaceOf, P!PlaceOf
    <2> QED
      BY <2>6 DEF n
  <1>2. LInv /\ P!IInv => ShownNamesOpen
    BY <1>1 DEF ShownNamesOpen
  <1> QED
    BY <1>2, Invariant, RegistryHolds, PTL

(* How many places a sequence has.                                         *)
LEMMA IntervalSize ==
  ASSUME NEW n \in Nat
  PROVE  IsFiniteSet(1 .. n) /\ Cardinality(1 .. n) = n
  <1>1. 1 \in Int /\ n \in Int
    OBVIOUS
  <1>2. IsFiniteSet(1 .. n) /\ Cardinality(1 .. n) = IF 1 > n THEN 0 ELSE n - 1 + 1
    BY <1>1, FS_Interval, Zenon
  <1>3. \A c : c = (IF 1 > n THEN 0 ELSE n - 1 + 1) => c = n
    OBVIOUS
  <1> QED
    BY <1>2, <1>3, Zenon

(* As many names as rows: the names are different.                         *)
LEMMA AllDifferent ==
  ASSUME NEW rows \in Seq(Row), Cardinality({rows[i].name : i \in DOMAIN rows}) = Len(rows)
  PROVE  Different(rows)
  <1> DEFINE n == Len(rows)
             T == {rows[i].name : i \in 1 .. n}
             f == [i \in 1 .. n |-> rows[i].name]
  <1>1. n \in Nat /\ DOMAIN rows = 1 .. n
    OBVIOUS
  <1>2. Cardinality(T) = n
    BY <1>1
  <1>3. f \in Surjection(1 .. n, T)
    BY DEF Surjection
  <1> HIDE DEF n, T
  <1>4. IsFiniteSet(1 .. n) /\ Cardinality(1 .. n) = n
    BY <1>1, IntervalSize
  <1>5. f \in Injection(1 .. n, T)
    <2> HIDE DEF f
    <2> QED
      BY <1>2, <1>3, <1>4, FS_Surjection, Zenon
  <1>6. \A i, j \in 1 .. n : rows[i].name = rows[j].name => i = j
    BY <1>5 DEF Injection, IsInjective
  <1> QED
    BY <1>6 DEF Different, n

(* When the names of an answer are different the panel gets the rows there *)
(* was memory for, in order, and reads none that is lost (disk.c:174-241,  *)
(* ndpluginw.c:216-226).                                                   *)
THEOREM DirShowsItsAnswer == Spec => []DirShowsAnswer
  <1>1. ASSUME LInv, NEW h \in Handle, handles[h].kind = "dir",
               NEW hd, hd = handles[h], NEW told, told = Told(hd.asked),
               Cardinality({RowsOf(hd.asked)[i].name : i \in DOMAIN RowsOf(hd.asked)}) = Len(RowsOf(hd.asked))
        PROVE  /\ IsPrefix(hd.shown, told)
               /\ hd.next = 0 => hd.shown = told
               /\ \A i \in DOMAIN hd.dict : hd.dict[i].value # NULL
    <2>1. hd \in DirHandles /\ DirKept(hd)
      BY <1>1, Kinds DEF LInv, Typed, Kept, Closed
    <2>2. /\ hd.shown \in Seq(Row) /\ Len(hd.shown) \in Nat /\ hd.next \in Nat
          /\ hd.dict \in Seq(Stored) /\ Len(hd.dict) \in Nat /\ DOMAIN hd.dict = 1 .. Len(hd.dict)
      BY <2>1 DEF DirHandles
    <2>3. RowsOf(hd.asked) \in Seq(Row)
      BY <2>1 DEF DirKept
    <2>4. told \in Seq(Row) /\ Len(told) \in Nat
      <3>1. told \in Seq(Row)
        BY <1>1, <2>3, SelectedFrom DEF Told
      <3> QED
        BY <3>1
    <2>5. Different(RowsOf(hd.asked))
      BY <1>1, <2>3, AllDifferent
    <2>6. /\ Len(hd.dict) = Len(told) /\ \A i \in 1 .. Len(told) : hd.dict[i].value = told[i]
          /\ hd.next \in 0 .. Len(told)
          /\ Len(hd.shown) = IF hd.next = 0 THEN Len(told) ELSE hd.next - 1
          /\ \A i \in 1 .. Len(hd.shown) : hd.shown[i] = hd.dict[i].value
      BY <1>1, <2>1, <2>5 DEF DirKept
    <2>7. Len(hd.shown) <= Len(told) /\ \A i \in 1 .. Len(hd.shown) : hd.shown[i] = told[i]
      BY <2>2, <2>4, <2>6
    <2>8. IsPrefix(hd.shown, told)
      <3>1. SubSeq(told, 1, Len(hd.shown)) = hd.shown
        BY <2>2, <2>4, <2>7
      <3>2. SubSeq(hd.shown, 1, Len(hd.shown)) = hd.shown
        BY <2>2
      <3> QED
        BY <2>7, <3>1, <3>2 DEF IsPrefix
    <2>9. hd.next = 0 => hd.shown = told
      BY <2>2, <2>4, <2>6, <2>7, SeqEqual
    <2>10. \A i \in 1 .. Len(told) : told[i] # NULL
      BY <2>4, NullAssumption
    <2> QED
      BY <2>2, <2>6, <2>8, <2>9, <2>10
  <1>2. LInv => DirShowsAnswer
    BY <1>1 DEF DirShowsAnswer, Told, RowsOf
  <1> QED
    BY <1>2, Invariant, PTL
=============================================================================
