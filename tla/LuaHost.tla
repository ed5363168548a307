------------------------------ MODULE LuaHost -------------------------------
(***************************************************************************)
(* The one Lua state of the plugin and the scripts that run in it: the     *)
(* loading of entries\*.lua when the library is attached (DllMain in       *)
(* src/netdisk4tc/ndpluginw.c), and the runs of a disk's script for a      *)
(* listing (ndisk_dir in disk.c), which share the operand stack, the       *)
(* globals signin, description and dir, and the table `entries'.           *)
(*                                                                         *)
(* An error raised while no protected call is active ends the process      *)
(* (luaD_throw, the panic function of lauxlib.c); raised by the host code  *)
(* of a listing that was entered from another one's authorization window,  *)
(* it unwinds to the call of the outer listing's dir.                      *)
(***************************************************************************)
EXTENDS LuaStack, FiniteSets

CONSTANTS Script,       \* the files of entries\
          None,         \* no script
          MaxDepth,     \* bound: listings inside one another
          MaxRows,      \* bound: rows of an answer
          MaxStack      \* bound: a listing begins below this height

ASSUME HostAssumption ==
    /\ None \notin Script
    /\ MaxDepth \in Nat \ {0} /\ MaxRows \in Nat /\ MaxStack \in Nat

Field == {"signin", "description", "dir"}

(* A file either does not load, or loads and, run to its end, defines      *)
(* these globals (signin and description as strings, dir as a function).   *)
VARIABLES
    defines,    \* what each file defines, or "broken"
    proc,       \* "loading", "up", "detached" or "exited"
    todo,       \* files the loader has not come to
    stack,      \* the operand stack
    globals,    \* the script that set each of the three globals
    entries,    \* the global `entries'
    chunks,     \* the tables the loader has stored chunks in, with their scripts
    disks,      \* available_disk_entries, the scripts offered for disks
    calls,      \* the listings in progress, the innermost last
    log         \* history: how the loader fared with each file

vars == <<defines, proc, todo, stack, globals, entries, chunks, disks, calls, log>>
fixed == <<defines, todo, entries, chunks, disks, log>>

(* The loader's own table is nobody's; one that a script raised as its     *)
(* error is its own.  "other" is what can neither be indexed nor written   *)
(* to: nil, a boolean, a function.                                         *)
Val(kind, s) == [is |-> kind, of |-> s]
Table   == Val("table", None)
Thrown(s) == Val("table", s)
Message == Val("message", None)
Other   == Val("other", None)
Text    == Val("text", None)
Nil     == Val("nil", None)
Frame   == Val("frame", None)
Rows    == Val("rows", None)
Key     == Val("key", None)
Chunk(s) == Val("chunk", s)
Dir(s)   == Val("dir", s)
Arg(s)   == Val("arg", s)
Value == [is : {"table", "message", "other", "text", "nil", "frame", "rows", "key",
                "chunk", "dir", "arg"}, of : Script \cup {None}]
IsTable(v) == v.is = "table"

(* Mutant: dir of the script that ran before survives.                     *)
Reset_KeepsDir(g) == [f \in Field |-> IF f = "dir" THEN g[f] ELSE None]

Reset(g) == [f \in Field |-> None]

(* The globals after a run of script s that got as far as defining D.      *)
Defined(s, D) == [f \in Field |-> IF f \in D THEN s ELSE Reset(globals)[f]]

Init ==
    /\ defines \in [Script -> {{"broken"}} \cup SUBSET Field]
    /\ proc = "loading" /\ todo = Script
    /\ stack = <<Table>>
    /\ globals = [f \in Field |-> None]
    /\ entries = Nil /\ chunks = {} /\ disks = {}
    /\ calls = << >> /\ log = << >>

-----------------------------------------------------------------------------
(* The loader: one step per file.                                          *)

Loaded(s, outcome) ==
    /\ todo' = todo \ {s}
    /\ log' = Append(log, [file |-> s, outcome |-> outcome])
    /\ UNCHANGED <<defines, entries, calls>>

(* luaL_loadfile fails: its message stays on the stack.                    *)
LoadBroken(s) ==
    /\ proc = "loading" /\ s \in todo /\ defines[s] = {"broken"}
    /\ globals' = Reset(globals)
    /\ stack' = Push(stack, Message)
    /\ Loaded(s, "broken") /\ UNCHANGED <<proc, chunks, disks>>

(* lua_setfield at -2 writes to the value an earlier file left there: that *)
(* is an error, and it ends the process, unless the value is a table.      *)
LoadPanics(s) ==
    /\ proc = "loading" /\ s \in todo /\ defines[s] # {"broken"}
    /\ ~IsTable(At(Push(stack, Chunk(s)), -2))
    /\ proc' = "exited" /\ globals' = Reset(globals)
    /\ stack' = Push(stack, Chunk(s))
    /\ Loaded(s, "panic") /\ UNCHANGED <<chunks, disks>>

(* Mutant: a file with both leaves its signin behind.                      *)
AfterRun_PopOne(st, D) ==
    IF "signin" \notin D THEN Pop(Push(st, Nil), 1)
    ELSE IF "description" \notin D THEN Pop(Push(Push(st, Text), Nil), 1)
    ELSE Pop(Push(Push(st, Text), Text), 1)

(* signin and description are fetched and looked at one after the other;   *)
(* without a description only the last of the two is taken off again.      *)
AfterRun(st, D) ==
    IF "signin" \notin D THEN Pop(Push(st, Nil), 1)
    ELSE IF "description" \notin D THEN Pop(Push(Push(st, Text), Nil), 1)
    ELSE Pop(Push(Push(st, Text), Text), 2)

Outcome(D) ==
    IF "signin" \notin D THEN "no signin"
    ELSE IF "description" \notin D THEN "no description" ELSE "offered"

LoadRuns(s) ==
    LET D == defines[s] IN
    /\ proc = "loading" /\ s \in todo /\ D # {"broken"}
    /\ IsTable(At(Push(stack, Chunk(s)), -2))
    /\ chunks' = chunks \cup {<<At(Push(stack, Chunk(s)), -2), s>>}
    /\ globals' = Defined(s, D)
    /\ stack' = AfterRun(Returned(Push(stack, Chunk(s)), FuncAt(Push(stack, Chunk(s)), 0), << >>), D)
    /\ disks' = IF Outcome(D) = "offered" THEN disks \cup {s} ELSE disks
    /\ Loaded(s, Outcome(D)) /\ UNCHANGED proc

(* The run of the file fails after it defined D, with any value for an     *)
(* error.  A table takes the place of the one below it for the files that  *)
(* follow.                                                                 *)
LoadFails(s) ==
    /\ proc = "loading" /\ s \in todo /\ defines[s] # {"broken"}
    /\ IsTable(At(Push(stack, Chunk(s)), -2))
    /\ chunks' = chunks \cup {<<At(Push(stack, Chunk(s)), -2), s>>}
    /\ \E D \in SUBSET defines[s] : globals' = Defined(s, D)
    /\ \E e \in {Message, Other, Thrown(s)} :
          /\ stack' = Caught(Push(stack, Chunk(s)), FuncAt(Push(stack, Chunk(s)), 0), e)
          /\ Loaded(s, IF IsTable(e) THEN "threw" ELSE "failed")
    /\ UNCHANGED <<proc, disks>>

(* lua_setglobal takes whatever is on top for the table of entries.        *)
LoadEnds ==
    /\ proc = "loading" /\ todo = {}
    /\ entries' = At(stack, -1) /\ stack' = Pop(stack, 1)
    /\ proc' = "up"
    /\ UNCHANGED <<defines, todo, globals, chunks, disks, calls, log>>

-----------------------------------------------------------------------------
(* A listing.                                                              *)

Top == calls[Len(calls)]
Outer == SubSeq(calls, 1, Len(calls) - 1)
SetTop(c) == [calls EXCEPT ![Len(calls)] = c]

(* The plugin can be entered when it is idle or waits in the message loop  *)
(* of an authorization window.                                             *)
MayEnter == proc = "up" /\ IF calls = << >> THEN TRUE ELSE Top.pc = "window"

(* ndisk_dir up to the call of dir: the globals are reset and the chunk of *)
(* the disk's script is run again.  Its failure is logged and the listing  *)
(* goes on; the pop behind it takes the message then, not the entries.     *)
Listing(s, D, ok) ==
    LET asked == Push(Push(stack, entries), IF <<entries, s>> \in chunks THEN Chunk(s) ELSE Nil)
        func  == FuncAt(asked, 0)
        after == Pop(IF ok THEN Returned(asked, func, << >>) ELSE Caught(asked, func, Message), 1)
        g     == Defined(s, D)
    IN  /\ globals' = g
        /\ IF g["dir"] = None
           THEN stack' = Push(after, Nil) /\ UNCHANGED calls        \* NDISK_FATAL
           ELSE /\ stack' = Push(Push(after, Dir(g["dir"])), Arg(s))
                /\ calls' = Append(calls, [entry |-> s, pc |-> "dir", rows |-> 0, ok |-> ok,
                                           func |-> Len(after) + 1, below |-> stack])

Enter(s) ==
    /\ MayEnter /\ Len(calls) < MaxDepth /\ Len(stack) < MaxStack
    /\ s \in disks /\ entries # Other
    /\ IF <<entries, s>> \in chunks
       THEN \/ Listing(s, defines[s], TRUE)
            \/ \E D \in SUBSET defines[s] : Listing(s, D, FALSE)
       ELSE Listing(s, {}, FALSE)
    /\ UNCHANGED <<proc, fixed>>

(* lua_getfield on a value that cannot be indexed, in a listing of the     *)
(* panel: no listing has come as far as a window then.                     *)
EntryPanics(s) ==
    /\ MayEnter /\ calls = << >> /\ s \in disks /\ entries = Other
    /\ proc' = "exited"
    /\ globals' = Reset(globals) /\ stack' = Push(stack, entries)
    /\ UNCHANGED <<calls, fixed>>

Running(pc) == proc = "up" /\ calls # << >> /\ Top.pc = pc

(* The script opens the authorization window (wp_explorer), whose loop     *)
(* lets the host in; everything that was put on its frame goes when it     *)
(* returns the token.                                                      *)
WindowOpens ==
    /\ Running("dir") /\ Len(stack) <= MaxStack
    /\ stack' = Push(stack, Frame)
    /\ calls' = SetTop([Top EXCEPT !.pc = "window"])
    /\ UNCHANGED <<proc, globals, fixed>>

WindowCloses ==
    /\ Running("window")
    /\ stack' = Returned(stack, Top.func + 2, << >>)
    /\ calls' = SetTop([Top EXCEPT !.pc = "dir"])
    /\ UNCHANGED <<proc, globals, fixed>>

(* dir answers with a table, or raises one, which is not told from an      *)
(* answer: the rows are walked with lua_next.                              *)
DirAnswers ==
    /\ Running("dir")
    /\ stack' = Push(Returned(stack, Top.func, <<Rows>>), Nil)
    /\ calls' = SetTop([Top EXCEPT !.pc = "rows"])
    /\ UNCHANGED <<proc, globals, fixed>>

(* dir answers with something else, or fails with it: no rows, and         *)
(* NDISK_OK.                                                               *)
DirAnswersNothing ==
    /\ Running("dir")
    /\ \/ stack' = Pop(Returned(stack, Top.func, <<Nil>>), 1)
       \/ stack' = Pop(Caught(stack, Top.func, Message), 1)
    /\ calls' = Outer
    /\ UNCHANGED <<proc, globals, fixed>>

(* A row: a table with named fields, or a value that is no table, which is *)
(* skipped.                                                                *)
RowRead ==
    /\ Running("rows") /\ Top.rows < MaxRows
    /\ stack' = Pop(NextRow(stack, Key, Rows), 1)
    /\ calls' = SetTop([Top EXCEPT !.rows = @ + 1])
    /\ UNCHANGED <<proc, globals, fixed>>

(* A row with a numeric key: lua_tostring turns the key on the stack into  *)
(* a string, and lua_next does not find it in the table.                   *)
RowRaises ==
    /\ Running("rows") /\ Top.rows < MaxRows
    /\ IF Outer = << >>
       THEN /\ proc' = "exited" /\ UNCHANGED calls
            /\ stack' = NextRow(NextRow(Push(stack, Nil), Key, Rows), Key, Text)
       ELSE LET c == Outer[Len(Outer)] IN      \* caught by the outer lua_pcall of dir
            /\ stack' = Pop(Caught(stack, c.func, Message), 1)
            /\ calls' = SubSeq(Outer, 1, Len(Outer) - 1)
            /\ UNCHANGED proc
    /\ UNCHANGED <<globals, fixed>>

(* A row with a key, an attribute or a name that is no string: the text of *)
(* it is NULL, and read.                                                   *)
RowCrashes ==
    /\ Running("rows") /\ Top.rows < MaxRows
    /\ proc' = "exited"
    /\ stack' = NextRow(NextRow(Push(stack, Nil), Key, Rows), Key, Rows)
    /\ UNCHANGED <<globals, calls, fixed>>

(* The rows are at their end: the answer goes.  Mutant: it stays.          *)
RowsEnd_KeepsAnswer ==
    /\ Running("rows")
    /\ stack' = NextEnds(stack)
    /\ calls' = Outer
    /\ UNCHANGED <<proc, globals, fixed>>

RowsEnd ==
    /\ Running("rows")
    /\ stack' = Pop(NextEnds(stack), 1)
    /\ calls' = Outer
    /\ UNCHANGED <<proc, globals, fixed>>

Detach ==
    /\ proc = "up" /\ calls = << >>
    /\ proc' = "detached" /\ stack' = << >>
    /\ UNCHANGED <<globals, calls, fixed>>

Gone == proc \in {"exited", "detached"} /\ UNCHANGED vars

Next ==
    \/ \E s \in Script : \/ LoadBroken(s) \/ LoadPanics(s) \/ LoadRuns(s) \/ LoadFails(s)
                         \/ Enter(s) \/ EntryPanics(s)
    \/ LoadEnds
    \/ WindowOpens \/ WindowCloses
    \/ DirAnswers \/ DirAnswersNothing
    \/ RowRead \/ RowRaises \/ RowCrashes \/ RowsEnd
    \/ Detach \/ Gone

Spec == Init /\ [][Next]_vars

-----------------------------------------------------------------------------
Call == [entry : Script, pc : {"dir", "window", "rows"}, rows : 0 .. MaxRows,
         ok : BOOLEAN, func : Nat, below : Seq(Value)]

(* Types; the globals belong to one script at a time.                      *)
TypeOK ==
    /\ proc \in {"loading", "up", "detached", "exited"}
    /\ todo \subseteq Script /\ disks \subseteq Script \ todo
    /\ chunks \subseteq Value \X (Script \ todo)
    /\ stack \in Seq(Value) /\ entries \in Value
    /\ globals \in [Field -> Script \cup {None}]
    /\ calls \in Seq(Call) /\ Len(calls) <= MaxDepth
    /\ \A f, g \in Field : None \in {globals[f], globals[g]} \/ globals[f] = globals[g]

Spoils(outcome) == outcome \in {"broken", "failed", "no description"}

(* What becomes of the files in entries\ when some of them are bad         *)
(* (ndpluginw.c:63-116, where every `continue' means to skip the file).    *)
(* The loader survives a file that leaves something other than a table on  *)
(* the stack as long as no file that loads comes behind it.  Exactly those *)
(* with signin and description are offered.  And once it is done, a file's *)
(* chunk is found in `entries', where ndisk_dir looks for it (disk.c:144), *)
(* if and only if neither it nor a file behind it left anything there: one *)
(* bad file takes all the disks offered before it with it.                 *)
LoaderOutcome ==
    /\ (\E i \in 1 .. Len(log) : log[i].outcome = "panic") <=>
          \E i, j \in 1 .. Len(log) : i < j /\ Spoils(log[i].outcome) /\ defines[log[j].file] # {"broken"}
    /\ disks = {log[i].file : i \in {j \in 1 .. Len(log) : log[j].outcome = "offered"}}
    /\ proc = "up" =>
          \A i \in 1 .. Len(log) :
              <<entries, log[i].file>> \in chunks <=>
                  \A j \in i .. Len(log) : log[j].outcome # "threw" /\ ~Spoils(log[j].outcome)

(* A disk's credentials are handed to the dir function of its own script,  *)
(* and the pair stays in place under whatever other listings do while the  *)
(* authorization window is open.                                           *)
CredentialsGoToOwnScript ==
    proc = "up" => \A i \in 1 .. Len(calls) : calls[i].pc \in {"dir", "window"} =>
        SubSeq(stack, calls[i].func, calls[i].func + 1) = <<Dir(calls[i].entry), Arg(calls[i].entry)>>

(* What a listing leaves on the stack all listings share: nothing, or the  *)
(* table of entries when the run of its chunk failed; one that is given up *)
(* before dir adds at most two values; one that an error of an inner       *)
(* listing unwound leaves what it would have left itself.                  *)
ListingsBalance == [][
    proc = "up" /\ proc' = "up" =>
        /\ calls' = calls => /\ Len(stack') <= Len(stack) + 2
                             /\ SubSeq(stack', 1, Len(stack)) = stack
        /\ Len(calls') < Len(calls) =>
              LET c == calls[Len(calls') + 1]
              IN  stack' = IF c.ok THEN c.below ELSE Append(c.below, entries)
    ]_vars
=============================================================================
