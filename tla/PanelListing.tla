---------------------------- MODULE PanelListing ----------------------------
(***************************************************************************)
(* The listings Total Commander's panels make of the plugin's directories  *)
(* (FsFindFirstW, FsFindNextW, FsFindClose in src/netdisk4tc/ndpluginw.c)  *)
(* over the registry of DiskRegistry.tla, which the dialog and the         *)
(* authorization change while listings are open.                           *)
(*                                                                         *)
(* The handle of the root directory walks the live list of disks; that of  *)
(* a directory of a disk walks a list of its own, made from the answer of  *)
(* the disk's script (ndisk_dir in disk.c).  Entries are never removed     *)
(* from either list, so a DictEntry pointer is modelled by its place.      *)
(***************************************************************************)
EXTENDS AssocOps, Selection

CONSTANTS Name, Type, User, Token, Empty, NULL, Fold, DefaultName, Cap, Converted,
          MaxRefused, MaxLoops

CONSTANTS Handle,       \* memory for FindStruc blocks
          FileName,     \* names of files in the scripts' answers
          NewDiskItem,  \* "[operation] add a net disk", last item of the root
          MaxFiles      \* bound: rows of a script's answer

ASSUME ListingAssumption ==
    MaxFiles \in Nat /\ NewDiskItem \notin Name /\ NULL \notin Handle \cup FileName

(* What DiskRegistry assumes of its constants.                             *)
ASSUME RegistryAssumption ==
    /\ {Empty, NULL} \cap (Name \cup Type \cup User \cup Token) = {} /\ Empty # NULL
    /\ Fold \in [Name -> Name] /\ \A n \in Name : Fold[Fold[n]] = Fold[n]
    /\ DefaultName \in [Type \X User -> Name]
    /\ Converted \in [Name -> Name]
    /\ Cap \in Nat /\ MaxRefused \in Nat /\ MaxLoops \in Nat

VARIABLES disks, file, scripts, pc, at, field, dialogs, calls, refused, mixed  \* DiskRegistry's

VARIABLES
    handles,    \* the open FindStruc of each address
    waiting,    \* along `calls': the handle being opened, NULL for a dialog's question
    ready       \* the FsFindFirstW whose script goes on after wp_savt

registry == <<disks, file, scripts, pc, at, field, dialogs, calls, refused, mixed>>
vars == <<registry, handles, waiting, ready>>

R == INSTANCE DiskRegistry

(* A row of a script's answer, and an entry of the list it is stored in.   *)
Row == [name : FileName, row : 1 .. MaxFiles]
Stored == [key : FileName, value : Row \cup {NULL}]

(* A call that has its token.                                              *)
Ready == [handle : Handle, token : Token \cup {Empty}]

ASSUME NullAssumption == NULL \notin R!Disk \cup Row \cup Ready

Closed == [kind |-> "closed"]

(* `shown' and `known', `asked' and `run' are history: the items handed    *)
(* out, how many disks there were at the beginning, what the script        *)
(* answered and how its run ended.                                         *)
RootHandle(n) ==
    [kind |-> "root", next |-> IF n = 0 THEN 0 ELSE 1, isLast |-> FALSE,
     shown |-> << >>, known |-> n]

DirHandle(dict, asked, run) ==
    [kind |-> "dir", next |-> IF dict = << >> THEN 0 ELSE 1, dict |-> dict,
     shown |-> << >>, asked |-> asked, run |-> run]

(* The place behind place i, 0 for NULL, as the list is now.               *)
NextPlace(es, i) == IF i < Len(es) THEN i + 1 ELSE 0

(* The plugin can be entered: a message loop runs, the host's or that of a *)
(* dialog, a question or an authorization window.                          *)
MayEnter == pc = "idle" /\ ready = NULL

(* A call has been entered or left, or an error has left several.          *)
Along(h) ==
    waiting' = IF Len(calls') > Len(calls) THEN Append(waiting, h)
               ELSE SubSeq(waiting, 1, Len(calls'))

-----------------------------------------------------------------------------
(* ndisk_dir: the rows of the answer go to the listing one by one, a row   *)
(* whose name is there already through the update of dict_set_element.     *)

(* Mutant: a row is looked up by its place in the answer, not by its name. *)
Place_LastOnly(es, row, good) ==
    IF ~good THEN es
    ELSE IF es # << >> /\ es[Len(es)].value # NULL THEN OverwriteLast(es, row)
    ELSE Insert(es, row.name, row)

Place(es, row, good) ==
    IF good THEN SetElement(es, row.name, row)
    ELSE IF Has(es, row.name) THEN OverwriteLast(es, NULL) ELSE es

Listing(rows, good) ==
    LET built[i \in 0 .. Len(rows)] ==
            IF i = 0 THEN << >> ELSE Place(built[i - 1], rows[i], i \in good)
    IN  built[Len(rows)]

Answers == {[i \in 1 .. n |-> [name |-> f[i], row |-> i]] :
                n \in 0 .. MaxFiles, f \in [1 .. MaxFiles -> FileName]}

OpenEmpty(h, run) == handles' = [handles EXCEPT ![h] = DirHandle(<< >>, << >>, run)]

(* With a token the script's answer is a table, or no table; a run that    *)
(* fails leaves its error value instead, which may be a table too.  `good' *)
(* are the rows there was memory for.                                      *)
OpenWithAnswer(h) ==
    \E run \in {"ended", "failed"} :
        \/ \E rows \in Answers : \E good \in SUBSET (DOMAIN rows) :
              handles' = [handles EXCEPT ![h] =
                             DirHandle(Listing(rows, good), [i \in DOMAIN rows |->
                                 [name |-> rows[i].name, kept |-> i \in good]], run)]
        \/ OpenEmpty(h, run)

-----------------------------------------------------------------------------
(* FsFindFirstW                                                            *)

(* malloc can hand out this block: no open handle has it, nor a call that  *)
(* waits for an authorization.                                             *)
Free(h) == handles[h] = Closed /\ h \notin Range(waiting)

(* Mutant: the first item is taken off when the handle is made.            *)
FindFirstRoot_SkipsFirst(h) ==
    /\ MayEnter /\ Free(h)
    /\ handles' = [handles EXCEPT ![h] =
                      [RootHandle(Len(disks)) EXCEPT !.next = NextPlace(disks, 1)]]
    /\ UNCHANGED <<registry, waiting, ready>>

FindFirstRoot(h) ==
    /\ MayEnter /\ Free(h)
    /\ handles' = [handles EXCEPT ![h] = RootHandle(Len(disks))]
    /\ UNCHANGED <<registry, waiting, ready>>

(* A disk with a token, or with none at all (nil), is listed at once.  A   *)
(* name without a disk, a disk whose script is not loaded, or a script     *)
(* without dir, gives no handle (and changes nothing here).                *)
FindFirstDisk(h, k) ==
    /\ MayEnter /\ Free(h) /\ R!Opens(k)
    /\ ~R!NeedsToken(ValueOf(disks, k))
    /\ IF ValueOf(disks, k).token = NULL THEN OpenEmpty(h, "ended") ELSE OpenWithAnswer(h)
    /\ UNCHANGED <<registry, waiting, ready>>

(* The script opens the authorization window and the call waits in it.     *)
FindFirstAuth(h, k) ==
    /\ MayEnter /\ Free(h)
    /\ R!ListDisk(k) /\ Along(h)
    /\ UNCHANGED <<handles, ready>>

AuthFails ==
    /\ MayEnter /\ R!AuthFails
    /\ OpenEmpty(Last(waiting), "ended") /\ Along(NULL)
    /\ UNCHANGED ready

AuthDone ==
    /\ MayEnter
    /\ \E t \in Token \cup {Empty} :
          R!SaveToken(t) /\ ready' = [handle |-> Last(waiting), token |-> t]
    /\ Along(NULL)
    /\ UNCHANGED handles

(* The script goes on with its token, saved or not.                        *)
FindFirstEnds ==
    /\ pc = "idle" /\ ready # NULL
    /\ IF ready.token = Empty THEN OpenEmpty(ready.handle, "ended")
       ELSE OpenWithAnswer(ready.handle)
    /\ ready' = NULL
    /\ UNCHANGED <<registry, waiting>>

(* A listing ends in an error of its host code, and the one that waits for *)
(* an authorization below it has failed (disk.c:169).                      *)
Unwind ==
    /\ R!Unwind
    /\ OpenEmpty(waiting[Len(calls') + 1], "failed") /\ Along(NULL)
    /\ ready' = NULL

-----------------------------------------------------------------------------
(* FsFindNextW, FsFindClose                                                *)

(* Mutant: isLast is not set.                                              *)
FindNextRoot_NeverLast(h) ==
    /\ MayEnter /\ handles[h].kind = "root" /\ ~handles[h].isLast
    /\ handles' = [handles EXCEPT ![h] =
           IF @.next = 0 THEN @
           ELSE [@ EXCEPT !.shown = Append(@, disks[handles[h].next].value.nickname),
                          !.next = NextPlace(disks, @)]]
    /\ UNCHANGED <<registry, waiting, ready>>

(* The nickname is read, and the next pointer followed, as the registry is *)
(* at this call.                                                           *)
RootItem(hd) ==
    IF hd.next = 0
    THEN [hd EXCEPT !.shown = Append(@, NewDiskItem), !.isLast = TRUE]
    ELSE [hd EXCEPT !.shown = Append(@, disks[hd.next].value.nickname),
                    !.next = NextPlace(disks, @)]

FindNextRoot(h) ==
    /\ MayEnter /\ handles[h].kind = "root" /\ ~handles[h].isLast
    /\ handles' = [handles EXCEPT ![h] = RootItem(@)]
    /\ UNCHANGED <<registry, waiting, ready>>

DirItem(hd) ==
    [hd EXCEPT !.shown = Append(@, hd.dict[hd.next].value), !.next = NextPlace(hd.dict, @)]

FindNextDir(h) ==
    /\ MayEnter /\ handles[h].kind = "dir" /\ handles[h].next # 0
    /\ handles[h].dict[handles[h].next].value # NULL
    /\ handles' = [handles EXCEPT ![h] = DirItem(@)]
    /\ UNCHANGED <<registry, waiting, ready>>

(* Everything the process had is gone.                                     *)
NothingOpen == handles' = [h \in Handle |-> Closed] /\ waiting' = << >> /\ ready' = NULL

(* The process ends; Detach stands also for its end while a script goes    *)
(* on, or by an error of its own.                                          *)
Ends == (R!Detach \/ R!Crash) /\ NothingOpen

(* The row's value was lost in a failed update.                            *)
FindNextCrashes(h) ==
    /\ MayEnter /\ handles[h].kind = "dir" /\ handles[h].next # 0
    /\ handles[h].dict[handles[h].next].value = NULL
    /\ Ends

FindClose(h) ==
    /\ MayEnter /\ handles[h] # Closed
    /\ handles' = [handles EXCEPT ![h] = Closed]
    /\ UNCHANGED <<registry, waiting, ready>>

-----------------------------------------------------------------------------
(* The registry's own steps                                                *)

Saving ==
    \/ (R!DeleteOld \/ R!WriteField) /\ UNCHANGED <<handles, waiting, ready>>
    \/ R!WriteCrashes /\ NothingOpen

Dialog ==
    /\ MayEnter
    /\ \/ R!OpenDialog \/ R!CancelDialog \/ R!ConfirmYes \/ R!ConfirmNo
       \/ \E t \in Type, u \in User, n \in Name \cup {Empty} : R!PressOk(t, u, n)
    /\ Along(NULL)
    /\ UNCHANGED <<handles, ready>>

Attach == R!Attach /\ UNCHANGED <<handles, waiting, ready>>

FindNext(h) == FindNextRoot(h) \/ FindNextDir(h) \/ FindNextCrashes(h)

Panel(h) ==
    \/ FindFirstRoot(h) \/ FindNext(h) \/ FindClose(h)
    \/ \E k \in Name : FindFirstDisk(h, k) \/ FindFirstAuth(h, k)

Init == R!Init /\ handles = [h \in Handle |-> Closed] /\ waiting = << >> /\ ready = NULL

Next ==
    \/ Attach \/ Dialog \/ Saving \/ Ends
    \/ AuthFails \/ AuthDone \/ FindFirstEnds \/ Unwind
    \/ \E h \in Handle : Panel(h)

Spec == Init /\ [][Next]_vars

(* A panel calls FsFindNextW until it answers FALSE, whenever the plugin   *)
(* can be entered; a save and an opening that has its token go on.         *)
Fairness(h) == SF_vars(FindNext(h)) /\ WF_vars(Saving) /\ WF_vars(FindFirstEnds)
FairSpec == Spec /\ \A h \in Handle : Fairness(h)
-----------------------------------------------------------------------------
(* Properties                                                              *)

RootHandles ==
    [kind : {"root"}, next : Nat, isLast : BOOLEAN, shown : Seq(Name \cup {NewDiskItem}), known : Nat]

DirHandles ==
    [kind : {"dir"}, next : Nat, dict : Seq(Stored), shown : Seq(Row),
     asked : Seq([name : FileName, kept : BOOLEAN]), run : {"ended", "failed"}]

(* Every variable keeps to its type: a handle is closed, on the registry,  *)
(* or on an answer's rows (ndpluginw.c:153-161).                           *)
TypeOK ==
    /\ R!TypeOK
    /\ handles \in [Handle -> {Closed} \cup RootHandles \cup DirHandles]
    /\ waiting \in Seq(Handle \cup {NULL}) /\ Len(waiting) = Len(calls)
    /\ \A i \in DOMAIN calls : calls[i].is = "auth" => waiting[i] # NULL
    /\ ready \in Ready \cup {NULL}

(* The disks a root listing has shown, without the item behind them.       *)
ShownDisks(hd) == IF hd.isLast THEN Front(hd.shown) ELSE hd.shown

(* A root listing shows the disks in order, misses none that was there     *)
(* when it began, and ends with the item that adds a disk, handed out once *)
(* and last; the pointer it keeps between two calls is always an entry of  *)
(* the registry (ndpluginw.c:168, 197-213).                                *)
RootListing ==
    \A h \in Handle : handles[h].kind = "root" =>
        LET hd == handles[h]
            m  == Len(ShownDisks(hd))
        IN  /\ hd.next # 0 => hd.next = m + 1 /\ hd.next \in DOMAIN disks /\ ~hd.isLast
            /\ hd.next = 0 => hd.known <= m /\ m <= Len(disks)
            /\ hd.isLast => Last(hd.shown) = NewDiskItem
            /\ NewDiskItem \notin Range(ShownDisks(hd))

(* A name on a panel leads to a disk for as long as the plugin is loaded,  *)
(* whatever has been added and overwritten since, and opens it, unless     *)
(* that disk is one the file brought and its script is not loaded          *)
(* (ndpluginw.c:211, disk.c:89-99).                                        *)
ShownNamesOpen ==
    \A h \in Handle : pc = "idle" /\ handles[h].kind = "root" =>
        \A i \in DOMAIN ShownDisks(handles[h]) : R!Leads(ShownDisks(handles[h])[i])

(* When the names in a script's answer are distinct, the panel gets the    *)
(* rows there was memory for, in the answer's order, and no call ends the  *)
(* process (disk.c:174-241, ndpluginw.c:216-226).                          *)
DirShowsAnswer ==
    \A h \in Handle : handles[h].kind = "dir" =>
        LET hd   == handles[h]
            rows == [i \in DOMAIN hd.asked |-> [name |-> hd.asked[i].name, row |-> i]]
            told == Selected(rows, {i \in DOMAIN rows : hd.asked[i].kept})
        IN  Cardinality({rows[i].name : i \in DOMAIN rows}) = Len(rows) =>
                /\ IsPrefix(hd.shown, told)
                /\ hd.next = 0 => hd.shown = told
                /\ \A i \in DOMAIN hd.dict : hd.dict[i].value # NULL

(* A panel that keeps asking is told the end, also while disks are being   *)
(* added (ndpluginw.c:190-230).                                            *)
AtEnd(h) == \/ handles[h].kind = "root" /\ handles[h].isLast
            \/ handles[h].kind = "dir" /\ handles[h].next = 0
EndsAt(h) == (handles[h] # Closed) ~> (handles[h] = Closed \/ AtEnd(h))

(* disk.h:40 says of ndisk_dir that a failure is answered NDISK_FATAL, and *)
(* FsFindFirstW would then give no handle: no listing comes from a script  *)
(* whose run failed.                                                       *)
FailedRunIsReported ==
    \A h \in Handle : handles[h].kind = "dir" => handles[h].run # "failed"
=============================================================================
