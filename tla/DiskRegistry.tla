---------------------------- MODULE DiskRegistry ----------------------------
(***************************************************************************)
(* The registry of net disks (available_disks of src/netdisk4tc/disk.c),   *)
(* the file netdisks.ini it is saved to, and the three things that change  *)
(* them: the dialog that adds a disk (ui.c, NewdiskProc), the token a      *)
(* script hands over after an authorization (wrapper.c, wp_savt) and the   *)
(* restart that reads the file back (disk.c, ndisks_load).                 *)
(*                                                                         *)
(* The registry is the association list of AssocList.tla, which            *)
(* Dictionary.tla implements.  Saving is one step per call of the profile  *)
(* API; the process may end between any two of them.                       *)
(*                                                                         *)
(* The dialog, its question and the authorization window have message      *)
(* loops, from which the host can call the plugin again and begin another  *)
(* of the three.  A call goes on after its loop only when it is the        *)
(* innermost; a dialog's procedure works from whatever loop there is.  The *)
(* model lets a dialog's own loop hold up no call below it.                *)
(***************************************************************************)
EXTENDS AssocOps, Selection

CONSTANTS Name,         \* names of disks, as typed by the user
          Type,         \* script names (skydrive, ...)
          User,         \* user names that are not empty
          Token,        \* tokens that are not empty
          Empty,        \* the empty string
          NULL,         \* a NULL pointer, a key the file does not have
          Fold,         \* the profile API ignores the case of section names
          DefaultName,  \* "description(user)", when the title is left empty
          Cap,          \* how many section names fit in the load buffer
          Converted,    \* a name after wtoc (to the OEM code page) and ctow (from the ANSI one)
          MaxRefused,   \* bound: calls Windows refuses during one save
          MaxLoops      \* bound: open dialogs and waiting calls

ASSUME DataAssumption ==
    {Empty, NULL} \cap (Name \cup Type \cup User \cup Token) = {} /\ Empty # NULL
ASSUME FoldAssumption == Fold \in [Name -> Name] /\ \A n \in Name : Fold[Fold[n]] = Fold[n]
ASSUME DefaultAssumption == DefaultName \in [Type \X User -> Name]
ASSUME ConversionAssumption == Converted \in [Name -> Name]
ASSUME CapAssumption == Cap \in Nat /\ MaxRefused \in Nat /\ MaxLoops \in Nat

VARIABLES
    disks,      \* available_disks: entries [key, value], value an NDisk or NULL
    file,       \* netdisks.ini: its sections in order
    scripts,    \* available_disk_entries: the scripts loaded when the library was attached
    pc,         \* "down", "idle" (the innermost message loop runs), "delete" or "save"
    at,         \* saving: the entry being written
    field,      \* saving: the field of it that is written next
    dialogs,    \* how many dialogs are open and have nothing to ask
    calls,      \* the calls that wait in a loop of their own, innermost last
    refused,    \* how many calls of the last save Windows has refused
    mixed       \* history: a token has come for a name that was changed, or for an entry
                \* that was overwritten, since the library was attached

vars == <<disks, file, scripts, pc, at, field, dialogs, calls, refused, mixed>>

Fields == <<"type", "username", "nickname", "token", "secret">>

Disk == [type : Type, username : User, nickname : Name,
         token : Token \cup {Empty, NULL}, secret : {Empty, NULL}]

ASSUME DiskAssumption == NULL \notin Disk

Entries == [key : Name, value : Disk \cup {NULL}]

(* A dialog that asks whether to overwrite, with the disk made from its    *)
(* fields, and a script that waits for an authorization: the entry that is *)
(* being listed, the name the script will give wp_savt, and (history)      *)
(* whether an overwrite has hit the entry since.                           *)
Asking(d) == [is |-> "confirm", disk |-> d]
Authorizing(e) == [is |-> "auth", entry |-> e, name |-> Converted[e.value.nickname],
                   replaced |-> FALSE]

Calls == [is : {"confirm"}, disk : Disk]
         \cup [is : {"auth"}, entry : [key : Name, value : Disk], name : Name, replaced : BOOLEAN]

Section == [name : Name, type : Type \cup {NULL}, username : User \cup {NULL},
            nickname : Name \cup {NULL}, token : Token \cup {Empty, NULL},
            secret : {Empty, NULL}]

-----------------------------------------------------------------------------
(* The profile API of Windows                                              *)

EmptySection(n) == [name |-> n, type |-> NULL, username |-> NULL,
                    nickname |-> NULL, token |-> NULL, secret |-> NULL]

SectionsOf(f, n) == {i \in DOMAIN f : Fold[f[i].name] = Fold[n]}

(* WritePrivateProfileStringW: a NULL string deletes the key.              *)
WriteString(f, n, k, v) ==
    IF SectionsOf(f, n) # {}
    THEN [f EXCEPT ![CHOOSE i \in SectionsOf(f, n) : TRUE][k] = v]
    ELSE IF v = NULL THEN f ELSE Append(f, [EmptySection(n) EXCEPT ![k] = v])

(* GetPrivateProfileStringW with no default: a missing key reads as "".    *)
ReadString(v) == IF v = NULL THEN Empty ELSE v

-----------------------------------------------------------------------------
(* ndisks_load: the section names are cut at the buffer's size, a section  *)
(* without type or user is passed over, the section's name becomes the     *)
(* nickname.  Section names are distinct, so every disk is a new entry.    *)

(* Mutant: a disk without a token is passed over too.                      *)
Readable_WithToken(s) == s.type # NULL /\ s.username # NULL /\ s.token # NULL

Readable(s) == s.type # NULL /\ s.username # NULL

(* Mutant: the nickname is read back from the file.                        *)
DiskOf_StoredNickname(s) ==
    [type |-> s.type, username |-> s.username, nickname |-> s.nickname,
     token |-> ReadString(s.token), secret |-> ReadString(s.secret)]

DiskOf(s) == [type |-> s.type, username |-> s.username, nickname |-> s.name,
              token |-> ReadString(s.token), secret |-> ReadString(s.secret)]

LoadOf(f) ==
    LET named == SubSeq(f, 1, IF Cap < Len(f) THEN Cap ELSE Len(f))
        kept == Selected(named, {i \in DOMAIN named : Readable(named[i])})
    IN  [i \in DOMAIN kept |-> Entry(kept[i].name, DiskOf(kept[i]))]

Init ==
    /\ disks = << >> /\ file = << >> /\ pc = "down"
    /\ at = 0 /\ field = 0 /\ dialogs = 0 /\ calls = << >>
    /\ scripts = {} /\ refused = 0 /\ mixed = FALSE

(* Any of the scripts the file speaks of may be missing, or fail, by now.  *)
Attach ==
    /\ pc = "down"
    /\ disks' = LoadOf(file)
    /\ scripts' \in SUBSET Type
    /\ pc' = "idle" /\ refused' = 0 /\ mixed' = FALSE
    /\ UNCHANGED <<file, at, field, dialogs, calls>>

(* The memory of the process is gone; nothing is saved at detach.          *)
Gone ==
    /\ disks' = << >> /\ pc' = "down" /\ scripts' = {}
    /\ at' = 0 /\ field' = 0 /\ dialogs' = 0 /\ calls' = << >>
    /\ UNCHANGED <<file, refused, mixed>>

Detach == pc = "idle" /\ dialogs = 0 /\ calls = << >> /\ Gone

(* The host, or the machine, stops at any moment.                          *)
Crash == (pc \in {"delete", "save"} \/ dialogs > 0 \/ calls # << >>) /\ Gone

-----------------------------------------------------------------------------
(* ndisks_save                                                             *)

(* Mutant: the save is forgotten.                                          *)
StartSave_Forgotten(d) == pc' = "idle"

(* Nothing is written, and nothing deleted, for an empty registry.         *)
StartSave(d) == pc' = IF d = << >> THEN "idle" ELSE "delete"

(* Mutant: the new lines are written over the old file.                    *)
DeleteOld_Skipped ==
    /\ pc = "delete"
    /\ file' = file /\ refused' = 0
    /\ pc' = "save" /\ at' = 1 /\ field' = 1
    /\ UNCHANGED <<disks, scripts, dialogs, calls, mixed>>

(* The old file goes before the first line of the new one is written; the  *)
(* result of DeleteFileW is not looked at.                                 *)
DeleteOld ==
    /\ pc = "delete"
    /\ \/ file' = << >> /\ refused' = 0
       \/ MaxRefused > 0 /\ file' = file /\ refused' = 1
    /\ pc' = "save" /\ at' = 1 /\ field' = 1
    /\ UNCHANGED <<disks, scripts, dialogs, calls, mixed>>

(* Mutant: the walk of dict_traverse stays on its node.                    *)
Advance_SameDisk ==
    IF field < Len(Fields) THEN field' = field + 1 /\ UNCHANGED <<at, pc>>
    ELSE field' = 1 /\ UNCHANGED <<at, pc>>

(* The next field of the disk, the next disk of the walk, or the end.      *)
Advance ==
    IF field < Len(Fields) THEN field' = field + 1 /\ UNCHANGED <<at, pc>>
    ELSE IF at < Len(disks) THEN field' = 1 /\ at' = at + 1 /\ pc' = pc
    ELSE field' = 0 /\ at' = 0 /\ pc' = "idle"

(* One call of ndisk_save_enumerator's five, its result ignored.           *)
WriteField ==
    /\ pc = "save" /\ disks[at].value # NULL
    /\ \/ /\ file' = WriteString(file, disks[at].key, Fields[field],
                                 disks[at].value[Fields[field]])
          /\ refused' = refused
       \/ refused < MaxRefused /\ file' = file /\ refused' = refused + 1
    /\ Advance
    /\ UNCHANGED <<disks, scripts, dialogs, calls, mixed>>

(* The enumerator reads disk->type through a value a failed malloc lost.   *)
WriteCrashes == pc = "save" /\ disks[at].value = NULL /\ Gone

-----------------------------------------------------------------------------
(* NewdiskProc.  An empty user name only shows a message.                  *)

Room == dialogs + Len(calls) < MaxLoops

(* FsExecuteFileW, which opens no dialog without a script to choose.       *)
OpenDialog ==
    /\ pc = "idle" /\ scripts # {} /\ Room
    /\ dialogs' = dialogs + 1
    /\ UNCHANGED <<disks, file, scripts, pc, at, field, calls, refused, mixed>>

CancelDialog ==
    /\ pc = "idle" /\ dialogs > 0
    /\ dialogs' = dialogs - 1
    /\ UNCHANGED <<disks, file, scripts, pc, at, field, calls, refused, mixed>>

(* The calls that wait for the disk of the last entry, which an overwrite  *)
(* puts another disk in.                                                   *)
Replaced(cs) ==
    [i \in DOMAIN cs |-> IF cs[i].is = "auth" /\ cs[i].entry.key = Last(disks).key
                         THEN [cs[i] EXCEPT !.replaced = TRUE] ELSE cs[i]]

(* dict_set_element_s, its result ignored, then ndisks_save; `cs' are the  *)
(* calls that still wait.                                                  *)
Store(d, cs) ==
    /\ \/ disks' = SetElement(disks, d.nickname, d)
       \/ disks' = IF Has(disks, d.nickname) THEN OverwriteLast(disks, NULL) ELSE disks
    /\ calls' = IF Has(disks, d.nickname) THEN Replaced(cs) ELSE cs
    /\ StartSave(disks')
    /\ UNCHANGED <<file, scripts, at, field, refused, mixed>>

NewDisk(t, u, n) ==
    [type |-> t, username |-> u, nickname |-> IF n = Empty THEN DefaultName[t, u] ELSE n,
     token |-> NULL, secret |-> NULL]

PressOk(t, u, n) ==
    /\ pc = "idle" /\ dialogs > 0 /\ t \in scripts
    /\ dialogs' = dialogs - 1
    /\ LET d == NewDisk(t, u, n)
       IN  IF Has(disks, d.nickname)
           THEN /\ calls' = Append(calls, Asking(d))
                /\ UNCHANGED <<disks, file, scripts, pc, at, field, refused, mixed>>
           ELSE Store(d, calls)

(* The innermost call's loop has ended, and the call goes on.              *)
Innermost(is) == pc = "idle" /\ calls # << >> /\ Last(calls).is = is

ConfirmYes ==
    /\ Innermost("confirm")
    /\ Store(Last(calls).disk, Front(calls))
    /\ UNCHANGED dialogs

(* The dialog stays open.                                                  *)
ConfirmNo ==
    /\ Innermost("confirm")
    /\ calls' = Front(calls) /\ dialogs' = dialogs + 1
    /\ UNCHANGED <<disks, file, scripts, pc, at, field, refused, mixed>>

-----------------------------------------------------------------------------
(* A directory of a disk is listed: ndisk_parse finds the disk by its key  *)
(* and its script by its type, ndisk_lua_push gives the script the disk's  *)
(* nickname and its token, the script asks for an authorization when the   *)
(* token is "", and not when it is nil.                                    *)

Opens(k) ==
    /\ Has(disks, k) /\ ValueOf(disks, k) # NULL
    /\ ValueOf(disks, k).type \in scripts

(* Mutant: a token that is nil counts as missing too.                      *)
NeedsToken_OrNil(d) == d.token \in {Empty, NULL}

NeedsToken(d) == d.token = Empty

ListDisk(k) ==
    /\ pc = "idle" /\ Opens(k) /\ Room
    /\ NeedsToken(ValueOf(disks, k))
    /\ calls' = Append(calls, Authorizing(Entry(k, ValueOf(disks, k))))
    /\ UNCHANGED <<disks, file, scripts, pc, at, field, dialogs, refused, mixed>>

AuthFails ==
    /\ Innermost("auth")
    /\ calls' = Front(calls)
    /\ UNCHANGED <<disks, file, scripts, pc, at, field, dialogs, refused, mixed>>

Auths == {i \in DOMAIN calls : calls[i].is = "auth"}

(* An error in the host code of a listing begun from one of the loops      *)
(* unwinds to the innermost script that waits.  A dialog below loses its   *)
(* question, and still has its window.                                     *)
Unwind ==
    /\ pc = "idle"
    /\ \E i \in Auths :
          /\ \A j \in Auths : j <= i
          /\ calls' = SubSeq(calls, 1, i - 1)
          /\ dialogs' = dialogs + (Len(calls) - i)
    /\ UNCHANGED <<disks, file, scripts, pc, at, field, refused, mixed>>

(* wp_savt, called by the script with the nickname it was given; a name    *)
(* that is not found saves nothing, and the script does not look at that.  *)
(* A disk without a value would end the process; NoLostValueAtRest: there  *)
(* is none.                                                                *)
SaveToken(t) ==
    /\ Innermost("auth")
    /\ calls' = Front(calls)
    /\ LET call == Last(calls)
           n == call.name
       IN  /\ IF Has(disks, n)
              THEN /\ ValueOf(disks, n) # NULL
                   /\ disks' = [disks EXCEPT ![PlaceOf(disks, n)].value.token = t]
                   /\ StartSave(disks')
              ELSE UNCHANGED <<disks, pc>>
           /\ mixed' = (mixed \/ n # call.entry.value.nickname \/ call.replaced)
    /\ UNCHANGED <<file, scripts, at, field, dialogs, refused>>

-----------------------------------------------------------------------------
Saving == DeleteOld \/ WriteField \/ WriteCrashes

Next ==
    \/ Attach \/ Detach \/ Crash
    \/ Saving
    \/ OpenDialog \/ CancelDialog \/ ConfirmYes \/ ConfirmNo
    \/ \E t \in Type, u \in User, n \in Name \cup {Empty} : PressOk(t, u, n)
    \/ \E k \in Name : ListDisk(k)
    \/ AuthFails \/ Unwind
    \/ \E t \in Token \cup {Empty} : SaveToken(t)

Spec == Init /\ [][Next]_vars

-----------------------------------------------------------------------------
(* Properties                                                              *)

(* Every variable keeps to its type (disk.h:20-26, disk.c:7-75).           *)
TypeOK ==
    /\ disks \in Seq(Entries)
    /\ file \in Seq(Section)
    /\ pc \in {"down", "idle", "delete", "save"} /\ scripts \subseteq Type
    /\ at \in 0 .. Len(disks) /\ field \in 0 .. Len(Fields)
    /\ pc = "save" => at > 0 /\ field > 0
    /\ dialogs \in Nat /\ calls \in Seq(Calls) /\ dialogs + Len(calls) <= MaxLoops
    /\ refused \in 0 .. MaxRefused /\ mixed \in BOOLEAN

(* Two names the profile API takes for the same section.                   *)
Clash(d) == \E i, j \in DOMAIN d : i # j /\ Fold[d[i].key] = Fold[d[j].key]

(* What a restart makes of a registry that was written out in full.        *)
ReadBack(d) ==
    [i \in DOMAIN d |->
        LET v == d[i].value
        IN  Entry(d[i].key, [type |-> v.type, username |-> v.username, nickname |-> d[i].key,
                             token |-> ReadString(v.token), secret |-> ReadString(v.secret)])]

(* Whenever the plugin is at rest a restart would bring back every disk    *)
(* with its script, its user and its token, in the same order: unless two  *)
(* names differ only in case, there are more than the load buffer holds,   *)
(* or Windows refused a write (disk.c:12-75).  A name stands for one that  *)
(* the file's encoding holds: the profile API makes a new file in ANSI.    *)
RestartKeepsDisks ==
    pc = "idle" /\ refused = 0 /\ ~Clash(disks) /\ Len(disks) <= Cap /\ disks # << >>
    => LoadOf(file) = ReadBack(disks)

(* A process that ends in the middle of a save leaves, from the front of   *)
(* the registry, the disks it had written; the one it was writing may come *)
(* back without its token; no disk comes back with another's script or     *)
(* user (disk.c:12-32).                                                    *)
TornSave ==
    pc = "save" /\ refused = 0 /\ ~Clash(disks) =>
        LET back == LoadOf(file)
        IN  \A i \in DOMAIN back :
               /\ i <= at /\ back[i].key = disks[i].key
               /\ disks[i].value # NULL
               /\ back[i].value.type = disks[i].value.type
               /\ back[i].value.username = disks[i].value.username
               /\ i < at => back[i] = ReadBack(SubSeq(disks, 1, i))[i]

(* A name opens a disk, or leads to one the file brought, without script.  *)
Leads(n) ==
    \/ Opens(n)
    \/ /\ Has(disks, n) /\ ValueOf(disks, n) # NULL
       /\ ValueOf(disks, n).type \notin scripts /\ ValueOf(disks, n).token # NULL

(* The root directory shows nicknames (ndpluginw.c:211) and a directory is *)
(* opened by key (disk.c:89): every name shown finds a disk, also after an *)
(* overwrite has put a disk under another disk's key, and opens it, unless *)
(* that disk is one the file brought and its script is not loaded          *)
(* (disk.c:90).                                                            *)
ListedNamesResolve ==
    pc = "idle" => \A i \in DOMAIN disks : Leads(disks[i].value.nickname)

(* A set that failed half way leaves an entry without a value, and no call *)
(* ever comes back to the user with one: the save that follows ends the    *)
(* process, after the file is deleted (ui.c:65-66, dictionary.c:31-34).    *)
NoLostValueAtRest ==
    pc = "idle" => \A i \in DOMAIN disks : disks[i].value # NULL

(* wp_savt looks the disk up by a nickname (wrapper.c:38) that need not be *)
(* the key it was listed under, and the registry may change while the      *)
(* window is open.  Unless the conversions change the name                 *)
(* (utility.c:30, 41), the token goes to the entry that was listed all the *)
(* same, because a disk under another's key has a nil token and is never   *)
(* authorized (skydrive.lua:24); and the disk there is the one that was    *)
(* listed, unless an overwrite has hit that entry meanwhile.  A token that *)
(* has gone astray in one of these two ways may lead others astray until   *)
(* the plugin is loaded anew.                                              *)
TokenGoesToListedDisk ==
    [][Innermost("auth") /\ disks' # disks /\ pc' # "down" =>
         LET call == Last(calls)
             listed == call.entry.value
         IN  ~mixed /\ call.name = listed.nickname =>
                 \A i \in DOMAIN disks : disks'[i] # disks[i] =>
                     /\ disks[i].key = call.entry.key
                     /\ call.replaced \/ [disks[i].value EXCEPT !.token = listed.token] = listed]_vars

(* The calls of the profile API a save has still to make, and its delete.  *)
ToWrite ==
    CASE pc = "delete" -> 1 + Len(Fields) * Len(disks)
      [] pc = "save"   -> 1 + Len(Fields) * (Len(disks) - at) + Len(Fields) - field
      [] OTHER         -> 0

(* Whatever fails in a save, each step of it leaves less to do, and        *)
(* nothing else happens before its end: it ends (disk.c:12-32,             *)
(* dictionary.c:137-145).                                                  *)
SavesMoveOn == [][(pc \in {"delete", "save"}) => ToWrite' < ToWrite]_vars
=============================================================================
