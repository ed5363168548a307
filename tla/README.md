# netdisk4tc in TLA+

netdisk4tc is a file-system plugin for Total Commander: one library, loaded into the file
manager's process, that shows the user's accounts at cloud-storage services ("net disks") as
directories of a panel. The services are described by Lua scripts in `src/entries/`; the library
(`src/netdisk4tc/`, C) gives the scripts an HTTP client, a browser window for OAuth
authorizations and a place to keep the tokens, and turns their answers into listings.

This directory holds TLA+ modules of the plugin's own code, TLC configurations that check them on
small instances, and TLAPS proofs for every value of the constants. `PROJECT.json` is the index:
which definition models which lines, which run checks which property, which mutation of the code
each property notices, which hazards the properties are for.

    tlc -config Registry.cfg MCDiskRegistry        # a run (module and cfg: "runs" in PROJECT.json)
    tlapm DictionaryProofs.tla                     # a proof

Contents: 1 inventory; 2 modules and their correspondence to the code; 3 runs, bounds, fairness;
4 proofs; 5 findings; 6 what is not modelled; 7 plan.

## 1. Inventory

Everything runs on one thread, the file manager's UI thread. What interleaves is nevertheless
plenty: dialogs, message boxes and the authorization window run message loops of their own, and
the file manager can call the plugin again out of each of them. State that outlives a call: the
registry of disks, `netdisks.ini`, the Lua state, the open find handles, the browser window.

| component | code | state | operations |
|---|---|---|---|
| Dictionary | `dictionary.c` | singly linked list of key/value blocks, a length | set (with a destroyer or not), get by reference or copy, exists, remove, traverse, initialize, destroy |
| Disk registry | `disk.c`, `ui.c`, `ndpluginw.c`, `wrapper.c` | `available_disks` (a dictionary name → NDisk), `netdisks.ini` | load at attach, save, add with the dialog, store a token, drop at detach |
| Listing handles | `ndpluginw.c` | a `FindStruc` per open listing: a pointer into a list, an end flag | FsFindFirstW, FsFindNextW, FsFindClose |
| Authorization window | `wrapper.c`, `ui.c`, `webbrowser/cwebpage.c` | thread message queue, window, the host window's enabled flag, the token | wp_explorer, AuthProc, UI_TranslateUrl |
| Script host | `ndpluginw.c`, `disk.c`, `lua/lauxlib.c` | the one `lua_State`: its stack, three globals, the table `entries` | load scripts, `lua_reset`, `ndisk_dir`, the panic that ends the process |
| HTTP client | `http.c`, `wrapper.c` | a connection, a request, a response per call | connect, request, receive loop, parse, disconnect, wp_http |
| Browser object | `webbrowser/cwebpage.c` | COM references, a block of memory in the window's user data | embed, display, wait, resize, unembed |
| Lua collector | `lua/lgc.c`, `lstring.c`, `lfunc.c` | colours, gray and weak lists, the sweep's position, userdata to finalize | a collector step, a full collection, barriers |
| Lua tables | `lua/ltable.c` | array part, nodes, the free pointer, absent events | get, set, length, next, rehash |
| Lua compiler, verifier, machine | `lua/lcode.c`, `lparser.c`, `ldebug.c`, `lvm.c`, `ldo.c` | function states, jump lists, registers; stack, frames, open upvalues | compile, check, 38 instructions |
| Lua coroutines, protected calls | `lua/ldo.c`, `lbaselib.c` | status, frames and stack of each thread, the C stack they share | call, pcall, resume, yield, error |
| Lua pattern matching | `lua/lstrlib.c` | the captures of an attempt | find, match, gmatch, gsub |
| Strings | `utility.c` | none | bounded copies, trimming, code pages, times |
| rest | `ndplugin.c`, `nd.rc`, other scripts, the remaining Lua libraries | none of their own | — |

How they interact. Total Commander calls the Fs functions. A root listing walks the registry's
own list; the last item, "new net disk", opens the dialog, which adds a disk and saves. Opening a
disk resolves its name in the registry (`ndisk_parse`), hands its fields to the script
(`ndisk_lua_push`) and runs the script's `dir`, which, for a token `""`, opens the authorization
window, stores the token (`savt`, a save) and fetches the listing over HTTP. The rows come back
in a dictionary of the listing's own. A restart reads the registry from the file.

What is hard in each, and what correct means:

- **Dictionary.** Every other component stands on it. Pointer surgery with failing allocations,
  two local variables (`iter`, `node`) that look interchangeable in the update branch and are not.
  Correct: one acyclic list with unique keys that `length` counts; no loop on a freed node;
  memory lost only when a call says so; each call, whatever happens inside, has the effect and the
  answer of one atomic operation.
- **Disk registry.** A save is delete-then-rewrite, five ignored results per disk, and the process
  may end anywhere in it. Key and nickname of a disk can differ. NULL and `""` tokens mean
  different things to the scripts and the same thing to the file. Names compare by case in one
  place and not in the other. Correct: a restart brings back what was there; a torn save mixes no
  two disks; a name that is shown leads to a disk; a token goes to the disk that was listed, whatever came in between.
- **Listing handles.** The root handle points into a live list. Correct: nothing is skipped, the
  list ends, the end item comes once and last, what is shown leads to a disk, a script's rows come out whole.
- **Authorization window.** Four posted messages and a thread-wide WM_QUIT flag, the user closing
  the window at any point, a loop inside the loop. Correct: a call returns its page's first answer
  or nil, the host's window is enabled again, no WM_QUIT reaches the host.
- **HTTP client.** Reads that break off, fill the buffer or split the text anywhere; five ways out of a call,
  each of which owns different things. Correct: every way out closes the connection; a complete answer
  reaches the script whole however it comes in, and never ends the process.
- **Script host.** One operand stack for loader and listings; an index from the top is right only when
  nothing was left there; errors outside a protected call end the file manager; a listing entered from
  an authorization window uses the globals and the stack of the one that waits below it. Correct: a
  script's `dir` gets the credentials of its own disk, a listing leaves what it found, a bad file
  does not take the others with it.
- **Browser object.** A dozen COM calls, each with a reference to give back on each way out, a wait that
  dispatches messages (and so destroys its own window). Correct: references come out even, the client
  site stays as long as the browser may call it.
- **Lua's collector.** It runs between any two steps of a script. Correct: nothing in reach is freed,
  no black object refers to a white one, garbage goes in the end.
- **Lua's tables, compiler, machine, coroutines, patterns.** The scripts' answers are as right as these.
  Each is a small algorithm with data whose shape is easily broken: chained nodes that move, jumps that
  wait for their target in lists threaded through the code, registers freed in stack order, upvalues
  that point into a stack, a status derived from frames, captures a failed attempt has to put back.

## 2. Modules

| module | what it is |
|---|---|
| `AssocOps` | operators on ordered association lists: lookup, and set, insert, remove as dictionary.c does them (`SetElement` with a present key overwrites the last entry) |
| `AssocList` | abstract specification: a dictionary with every call one atomic step |
| `Dictionary` | dictionary.c at pointer level, one step per loop iteration; implements `AssocList` |
| `DictionaryProofs` | its inductive invariant, and the refinement, proved |
| `Selection` | the entries of a list at given places, in order: what a loop that passes over some makes of a list |
| `SequenceFacts` | induction over sets of numbers, and what `Selection` computes for lists of any length, proved |
| `DiskRegistry`, `DiskRegistryProofs` | registry, file, dialog, tokens, restart; uses `AssocOps` for the dictionary; all its safety properties, proved |
| `PanelListing`, `ListingProofs` | find handles; composes `DiskRegistry` (`R == INSTANCE DiskRegistry`); what a listing shows, proved over what is proved of the registry |
| `AuthWindow`, `AuthProofs` | wp_explorer's message loop, window procedure, browser callback; its safety properties, proved |
| `HttpClient`, `HttpProofs` | wp_http: connection, request, receive loop, parsing; what every way out closes and what the body is, proved |
| `LuaStack`, `LuaHost`, `HostProofs` | the C API's operand stack as the plugin uses it; loader and listings over it; its safety properties, proved, and those of `LuaCoroutine` |
| `BrowserObject` | references and memory of the embedded browser |
| `LuaGC` | the incremental collector between the steps of scripts |
| `LifetimeProofs` | what these two free, and when: that the browser's counts come out even, and the safety of the collector, proved |
| `LuaTable` | a table with array part, nodes and a traversal, against the map that was assigned |
| `LuaOpcodes`, `LuaCode`, `LuaParser` | instructions; code generator (lcode.c); compiler (lparser.c) |
| `LuaVerifier`, `LuaVM` | luaG_checkcode; the machine, one instruction a step, with calls and upvalues |
| `LuaMeaning` | reference definition: what a chunk means by the manual, over its tree |
| `LuaChunks` | a chunk is compiled, loaded and run; compares with `LuaMeaning` |
| `LuaCoroutine` | threads over one C stack: calls, protected calls, errors, resume, yield; proved in `HostProofs` |
| `LuaPattern` | the matcher and find, match, gmatch, gsub, against all ways a pattern can match |
| `MCLua` | the last four side by side: tables, coroutines, patterns, chunks |
| `MC...` | the constants of the runs |

### Dictionary

State: `first`, `length` and the maps `next`, `key`, `value` over the addresses malloc can return
are the heap; `alloc` the DictEntry structs handed out and not freed, so a leak stays visible; `pc`
the loop that runs, `iter` and `hit` the local variables (`hit` is `node` of
`dict_set_element_s`); `reply` the last answer. `chain` is a history variable, the nodes in list
order: no action reads it except to update it, and `ListShape` says what it has to do with the
pointers. A call is an action (`SetCall`, `ReadCall`, `RemoveCall`, ...), each iteration of its loop
one (`SetWalk`, `ReadNext`, ...), the code behind the loop one per outcome (`SetUpdate`,
`SetInsert`, `SetInsertFails`, `SetInsertCrashes`: the struct itself is used without a check).
Freed nodes' addresses may be handed out again. Abstracted: block sizes; whether the old value is
released by free or by the caller's destroyer; the key and value blocks that leak with a node.

### DiskRegistry

`disks` is the list of (key, NDisk) entries, in order because an update hits the last one;
`file` the sections of netdisks.ini; `scripts` the types whose scripts were loaded when the library was
attached, any subset of them. `pc` says whether the process is down, some message loop runs (`idle`), or a save
does (`delete`, then `save` with `at` and `field` naming the next call of WritePrivateProfileStringW).

What interleaves is in `dialogs` and `calls`. The dialog, its question and the authorization window have message
loops, and out of each the host can begin another dialog or listing. `dialogs` counts the open dialogs; `calls` is
the stack of what waits for the end of a loop of its own: a question, with the disk it would store
(`Asking`), or an authorization, with the entry that is listed and the name its script will use (`Authorizing`).
Only the innermost goes on (`Innermost`); a dialog's buttons work from any loop. Nothing is entered out of a save, which has
no loop. (A dialog's own loop holds up no call below it in the model: more can happen there than in the code.)
`Unwind` is an error in the host code of a listing begun from one of the loops: it goes to the lua_pcall of the
innermost script that waits, over the questions above it, whose dialogs keep their windows.

A save is one step per API call, each of which Windows may refuse; `Crash` ends the process in the middle of a save and
under any loop. The profile API is external and modelled as documented: a NULL string deletes a key, a missing key
reads as `""` (`ReadString`), section names ignore case (`Fold`). `LoadOf` is ndisks_load: names beyond the
buffer (`Cap`) are cut off, a section without type or username is passed over, the *section name*
becomes the nickname. `Opens` is ndisk_parse: the key has to be there and the disk's type among the loaded scripts
(disk.c:89-99). `ListDisk`, `AuthFails` and `SaveToken` are the part of a listing that can
change the registry (skydrive.lua:24, wrapper.c:38). The nickname that comes back to wp_savt has gone through two
code pages: wtoc makes it OEM (utility.c:41), ctow reads it as ANSI (utility.c:30); `Converted` is what that
makes of a name, any function from names to names, and a name that leads nowhere saves nothing (wrapper.c:46). `mixed` is history:
a token has come for a name that was changed, or for an entry that was overwritten meanwhile. Abstracted: how names are
trimmed; a name with a backslash or a `]`, which the profile API or ndisk_parse would split, and one that the
ANSI file cannot hold, are not in `Name`; `secret` is never set by the code and stays NULL or `""`.

### PanelListing

`handles` maps each address to an open FindStruc or `Closed`. An entry is never removed from
either kind of list, so the DictEntry pointer of a handle is its place in the list. `shown`,
`known`, `asked` and `run` are history (what was handed out; how many disks there were at the
beginning; the script's answer; how its run ended). `FindFirstDisk` is a listing that needs no
authorization. One that does is `FindFirstAuth`, then `AuthFails` or `AuthDone` and `FindFirstEnds`; `waiting` runs along the registry's
`calls` and says which handle each authorization is for, `ready` is the one whose script goes on after wp_savt. In
between other calls come in (`MayEnter`: the host can call out of the dialog's, the question's and the window's message
loops, and not while a save or a script runs). `Unwind` gives the handle of the script that the error went to an
empty listing. A script's answer is any table of rows, nil, or an error; a failed run leaves its error value where the answer
would be, and when that is a table its rows are listed as well (disk.c:169-174). Each row
is stored through the dictionary and may find no memory (`Place`). `Ends` is the end of the process at any point. What the loops
deliver to whom when windows are nested is the subject of `AuthWindow`, what nested listings leave on the
script state's stack that of `LuaHost`.

### AuthWindow

`frames` is the stack of wp_explorer calls, each with its window, whether it disabled the host's
window and `tmp`. `queue` holds the posted messages (WM_APP from the browser, then
WM_USER_AUTHTOKENDATA and WM_CLOSE from AuthProc); `quit` is WM_QUIT, which Windows keeps as a flag
and delivers when no posted message is left; input (`UserCloses`) comes after both. `Explore` is
the whole of wp_explorer up to its loop, `ExploreNoBrowser` and `ExploreNoWindow` the two ways the
creation fails, `NoHeight` and `NoTitle` the Lua errors a missing parameter causes (the nil stays
on the stack and is indexed), before and after the window is made. `OnApp`, `OnToken`, `OnClose`, `OnQuit` are one
turn of GetMessage and DispatchMessage each; in `OnTokenElsewhere` the turn is that of a message loop
within wp_explorer's own (a window being dragged, an alert, a message box), which hands the token to a window
procedure that ignores it. `Unwind` is an error of a listing the host has begun from one of these loops,
raised where the listing has no lua_pcall of its own (`LuaHost` says where that is): it goes to the lua_pcall of
the script that is waiting, over wp_explorer's frame, and neither EnableWindow nor the loop's end happens.
Three history variables count what these exceptions do: `adrift`, `left` and `missed`. A URL string is an
address; `freed` are those the browser has freed, and reading one of them yields `Garbage`.

### HttpClient

One blocking call at a time. An answer is a sequence of lines of four kinds (a status line with all its
parts, an empty one, a `cut` one, any other); a read brings the next one or two of them, `full` when it fills the buffer. `tmp` and
`buff` are the local variables; `conn` what the connection owns, `live` how many of each kind of block
and handle exist, leaked ones included. A full read is unterminated, and what lies behind the buffer is
anything (`Garbage`, perhaps with an empty line in it). A failed read answers -1, which is neither 0 nor, as an unsigned
number, less than the buffer's size, so the old contents of the buffer are added once more
(`RecvFails`). The results of SSL_connect and of the send are not looked at (`Connect`, `Send` may leave
the peer broken). `ParseOverrun` is an answer without an empty line, `NoResponse` one without a status
line, or with a `cut` one: http_response_fromstr gives NULL when the reason phrase is missing or the code is 0
(http.c:148-167), and wp_http reads its body all the same. A `cut` header line has no ": " with something behind it;
its value is looked for behind its block (http.c:179-184), which ends the process (`HeaderOverrun`) or goes well
(`Parse`). Abstracted: the text of the request and of header lines, the block lost at http.c:324-325,
unchecked allocations outside the receive loop, NUL bytes in an answer, a script that gives no url.

### LuaHost

`stack` is the operand stack with a value per slot, told apart by what it is and whose; `LuaStack`
has the calls of the C API as operators on it, popping included. `todo`, `log` and `chunks` are the
loader's: `LoadBroken` (luaL_loadfile fails), `LoadRuns`, `LoadFails` (the chunk raises, having defined
some of its globals), and `LoadPanics`, a lua_setfield on what is not a table outside every protected
call. What a chunk raises is a message, a value that can be neither indexed nor written to (`Other`; a number becomes a
message, ndpluginw.c:86), or a table (`Thrown`): the next files' chunks go into that one then, so `chunks` says
which table holds which, and the topmost value becomes `entries`, whatever it is. A listing that looks for its chunk in a
string finds nil, one that looks in `Other` ends the process (`EntryPanics`). `Enter` is ndisk_dir up to the call of `dir`, which may open the window (`WindowOpens`) and let
another listing in; then the rows. `RowRaises` is a row with a numeric key: lua_tostring changes the
key in place and lua_next does not find it. `RowCrashes` is a field whose text is NULL and is compared all the same. Tables
raised as errors hold nothing before the loader writes to them and have no metatable, entry scripts are not named after string
functions, and `require "Json"` (ndpluginw.c:52-55, not protected) succeeds. What a row says is `PanelListing`'s subject, the size split
of disk.c:198-202 is abstracted.

### BrowserObject

`refs` counts what the plugin holds of each interface; `block` is the memory the client site lives
in, `userdata` whether the window points to it. Each step of EmbedBrowserObject that can fail is an
action with its failure; WaitOnReadyState's loop (`Waits`, then any message, then `StrAsksDoc`,
`StrDestroyed` or `WaitReturns`) can have the window sized or destroyed below it. Whether the
control calls InPlace_OnPosRectChange on a change of position is its own choice (`Moved`).

### LuaGC

Objects are model values by type; what a thread's stack, a table's entry, an upvalue, a closure and a
userdata refer to are the fields marking follows. Colours are the two whites, gray and black; `phase`
is gcstate with the atomic part cut into four. Collector actions handle one object each; the mutator's are
the ways a script can move a reference (`Read`, `Store`, `SetUpval`, `MakeClosure`, `Intern`, ...), with
the barrier the code puts there. A finalizer may bring its object back. `Reachable`, which garbage is
told by, is in `MCLuaGC`. Abstracted: when a step is due and its size, the shrinking of stacks and of
the string table, what lies in a string.

### LuaTable

`t` has the array part, the nodes with their `next` chains, the free pointer, and the events noted
absent; `map` (history) is what was assigned, `trav` a traversal in progress. `Assign` is
luaV_settable's path without metatables: luaH_set with newkey, the collision that moves a node, and
rehash. Hash values are a constant operator: `MCLua` makes strings and integers collide in a table of four
nodes and not in a larger one.

### LuaCode, LuaParser, LuaVerifier, LuaVM, LuaChunks

The compiler's state is passed along as a record x: the function being compiled (`fs`), those around
it (`up`), the expression at hand (`e`, an expdesc). Operators are named after the functions of the
code; where one function has parts, they are named for what they produce (`TrueOf`, `ExitFalse`). Failing
assertions are recorded in `fs.bad`, exceeded limits in `fs.err`. Compilation, `CheckCode` and
`LuaMeaning` are functions of the program; the machine takes one action per instruction (`Op`). Generators of a for loop are
functions of the host or of Lua (`gen` marks the frame of one, `Generated` is what the loop does with its answer). Strings are sequences of
parts, of which those in `Collation` are ordered as strcoll orders them (`LessText`). Of a table with gaps luaH_getn answers some border, which
one depends on the sizes of its two parts: `LenOp` takes any (`GetN`), `lens` records which, and `LuaMeaning` is told those
answers, checks each to be a length by the manual, and goes on with it. Abstracted: tokens and priorities
(the input is the tree the parser finds), line and local-variable information, luaO_int2fb (table sizes are exact),
numbers beyond small integers and NaN, strings that are read as numbers, metatables and hooks, the limits of nesting and of jumps that chunks of this size
do not come near (lparser.c:276-279, 200 levels of syntax, and lcode.c:84, 131071 instructions), the binary loader
(the verifier is only held against what the compiler makes); the stack has `StackSize` slots and does not move.

### LuaCoroutine

`th` has each thread's status, frames (Lua or C), pending values and count of C calls; `native` is the C
stack: luaD_call, luaD_pcall and lua_resume entries, each for a thread. `raising` is an error on its way
down that stack. `ended` and `spilled` are history. Left out: xpcall's handlers, hooks, and the
panic function, which is `LuaHost`'s.

### LuaPattern

A pattern is a sequence of items, from which `ItemText` makes the pattern's characters: the matcher
walks the text, the reference definition (`Ways`) the items. Recursion of match, max_expand and
the others is kept. Classes %a and %d stand for the other ones; malformed patterns, `%n` in a
replacement that names no capture and gmatch with an anchor are left out.

## 3. Runs

`lua` and `registry` take two minutes on two workers, `listing` and `lua_gc` more than one, every other run less. "Mutant" below
means a plausible bug of the code, written beside the definition it changes; every property of every
passing run has one that TLC finds under the run's own configuration.

| run | instance | what it shows |
|---|---|---|
| `dictionary` | 3 keys, 2 values, 3 nodes, symmetric | `ListShape`, `UniqueKeys`, `CursorInList`, `TraverseInOrder`, `LostOnlyOnFailure`, that the pointer code implements `AssocList`, and `LoopsMoveOn`: every iteration leaves less to walk |
| `set_updates_its_key` | 2 keys, 2 values | counterexample: finding 1 |
| `registry` | 3 names, two equal but for case and one that the code pages change into another, 2 users, load buffer for 2 sections, 1 refusal per save, two dialogs, questions and authorizations one inside the other | `RestartKeepsDisks`, `TornSave`, `NoLostValueAtRest`, `ListedNamesResolve`, `TokenGoesToListedDisk`, `SavesMoveOn` |
| `listing` | 2 handles, 2 disks, dialogs and authorizations two deep, answers of up to 2 rows | `RootListing`, `ShownNamesOpen`, `DirShowsAnswer` while the registry changes; `ListingEnds` |
| `failed_run_reported` | 1 handle | counterexample: finding 2 |
| `auth` | 2 windows, 2 answers, a call inside a call | `QuitHasALoop`, `HostEnabledAtRest`, and for calls that are not nested `FirstAnswerReturned`, `AnswerEndsLoop` |
| `url_data_passed` | 2 windows, 2 answers | counterexample: finding 3 |
| `http` | 2 calls, answers of up to 4 lines, 1 failed read per call | `ConnectionsClosed`, `BodyIsTheAnswers`, `CompleteAnswerIsSafe` |
| `script_host` | 3 files with any subset of the globals, a listing inside a listing, 1 row | `LoaderOutcome`, `CredentialsGoToOwnScript`, `ListingsBalance` |
| `browser` | 1 window, up to 4 moves before a call | `ReferencesBalance`, `SiteOutlivesBrowser` |
| `lua_gc` | 2 tables (one weak), a closure, an upvalue, a string, a userdata, 2 threads | `NoDangling`, `BlackSeesNoWhite`; `GarbageIsFreed` |
| `lua` | tables: 5 keys, growing from 0 or 4 nodes; coroutines: 2, C stack of 4; patterns: about 120 on 14 subjects; 2848 chunks | `TableIsAMap`, `TraversalIsComplete`; `StatusIsTrue`, `DepthIsCounted`; `MatchMeansPattern`, `EveryMatchOnce`; `ChunkMeansText`, `ChunkIsSound` |

**Bounds.**
Three nodes are the least list with a first, a middle and a last node, which is what the removal
and the update tell apart; a fourth would repeat the middle. `MaxRefused` is how many calls of a
save Windows refuses: one is enough for a stale line or a stale section, and `RestartKeepsDisks`
excludes saves with any. `Cap` 2 of 3 names makes the load cut one off. `MaxLoops` is how many dialogs are open and calls
wait at a time: two, so that a disk is stored, overwritten or given a token while another call waits for its own. `MaxFiles` is the rows of an
answer: two give a repeated name and a failure before or behind a good row. Two handles: one that
waits for its authorization while the other lists. The MC modules bound registry and listings further (`Few`). The second user is there to tell
one disk's section from another's, so the registry has it only while no call is inside another. Handles share nothing but the
registry, and the rows of a directory not even that, so the listings have one root open at a time, and a directory with rows
only while nothing else is open (one without rows at any time, so every opening can still end). Two windows
and two answers: a second answer to the same window, or one to each. `MaxQueue` 3 is the queue's length
when a page answers (AuthProc's two messages come on top). `MaxErrors` 1: one window or loop left without
the other; a second would need a third window. `MaxDepth` 2: a call alone, two in a row, and
a call inside a call, the least depth at which loops and WM_QUITs can be mismatched - and at which one
listing's globals are another's. Four lines: a status line, the empty one, and a body of two
or a header line and a body, with a second empty line among them; two calls, so that what the first
leaves is there in the second; one failed read repeats the buffer once, and a second would only repeat it again.
Three script files: a bad one with a good one before and behind it. `MaxMoves` 4 is what one embedding
can bring; a count, in no guard of the code. `MaxLive` and `MaxHeld` limit how many objects the
collector's scripts keep; one object of a kind is enough for every barrier, two tables for a chain
of them. Five keys make a table grow several times and collide three deep. `MaxCCalls` 4 with `Extra` 2 lets two
coroutines and a protected call fill the C stack; `MaxFrames` 3 is a Lua frame, a C one and one more. Limits of the
instruction format are shrunk so that chunks meet them: constants past `MaxIndexRK` 2, batches of
`FieldsPerFlush` 2, `MaxArgC` 2. The chunks are every tree of conditions of two levels in three places,
left sides of up to three variables with open and closed lists on the right, loops of each kind with a closure and a way
out and with generators of both kinds, calls with open and closed lists, tables with and without gaps, and a list of single ones. A run
cut off at `MaxSteps` or a chunk refused for another reason than a stray `break` violates `ChunkMeansText`.
The chunks avoid what the manual leaves open (the order of evaluation in an assignment follows the code).

**Deadlock** is checked in `dictionary`, `registry`, `listing` and `script_host`. It is off in `auth` and
`http`, where windows and URL strings are used once each and the host or the process may have ended; in
`browser`, whose window ends; in `lua_gc`, where a heap at its bounds leaves a script nothing to do; and
in `lua`, where chunks, patterns and coroutines end.

**Fairness.** `WF(Saving)` of the listings says that a save that has begun goes on: it is one function that waits for nothing. `WF(Loop)` says that a
message loop takes the message that is there. `SF(FindNext(h))` says that a panel keeps asking for
the next item whenever the plugin can be called; it is strong because saves and other calls disable it
again and again; `WF(FindFirstEnds)`: the script goes on once its token is stored. `FewFair` states the three
for one handle, and by symmetry for either. `WF(Collect)`: every allocation
past the threshold makes the collector step (luaC_checkGC), so a script that goes on allocating keeps it
going. The dictionary and the registry need none: `LoopsMoveOn` and `SavesMoveOn` bound their loops as properties of single steps. Nothing
obliges the user to press, a page to answer, or the host to call for anything else.

**What the properties leave open on purpose.** `RestartKeepsDisks` excludes an empty registry
(ndisks_save returns before it deletes the file), refused calls, more disks than the buffer holds
and names that clash. `QuitHasALoop` counts what errors have set `adrift`: `NoTitle` makes a window without a
loop, `Unwind` leaves a window or a WM_QUIT behind, and the end of such a window is the host's. `HostEnabledAtRest` excludes
a host that `NoHeight`, `NoTitle` or `Unwind` has `left` disabled with no call of its own to come. `FirstAnswerReturned`
says nil for a token another message loop has taken, and is about calls that are not nested, with nothing
adrift. `BodyIsTheAnswers` and `CompleteAnswerIsSafe`
speak of calls without a full read, a failed one or a failed allocation (`mishap`): with one of these the code promises
nothing. `FirstAnswerReturned` allows `Garbage`; `UrlDataIsPassed`
is about that. With nested calls the inner one takes the outer window's token, and two windows
destroyed before WM_QUIT is retrieved leave one loop waiting; nothing in the repository promises otherwise, and
these are recorded as hazards.

`NoLostValueAtRest` deserves a word: an update that finds no memory has already destroyed the old
value (dictionary.c:31). It holds because every set of the registry is followed at once by a save,
and the save reads through the lost value and ends the process, after the file is deleted: the
lost value never reaches the user, and the file does not survive it. `TornSave` describes that too.

`TokenGoesToListedDisk` rests on an accident. A disk that an
overwrite has put under another disk's key would get its token stored in the wrong place. It does
not come to that because a disk made in this session has a NULL token, the script sees nil and not
`""`, and never asks for an authorization before a restart, which sets key and nickname equal.
The mutant that makes the script treat nil like `""` breaks it. Two cases in which a token does go astray are excluded by name, and
are hazards of the code: the code pages change the nickname (`Converted`), so that it finds no disk or another one; and a dialog,
confirmed while the window is open, overwrites the entry that waits for its token (`replaced`). After either,
key and nickname can differ for disks with tokens too, and nothing is claimed until the plugin is loaded anew (`mixed`).

`ListedNamesResolve` and `ShownNamesOpen` say of a name on a panel that it *leads* to a disk (`Leads`): it opens it, or the disk
is one the file brought whose script has not been loaded this time, for which ndisk_parse gives up (disk.c:90-99). A disk made in this
session is never of that kind, because the dialog offers loaded scripts only.

`ListingsBalance` states what the code leaves, not what one would wish: a failed run of the chunk leaves
the table of entries on the stack for good. `LoaderOutcome` likewise says which files take the process
with them. `ReferencesBalance` names the one reference that leaks per change of position.

## 4. Proofs

Every theorem is over a module's whole specification, for every value of its constants: any number
of keys, nodes, disks, handles, windows, scripts, calls, lines and heap objects, none assumed to be finite. Assumed of
the constants is that NULL, `""`, a garbage text and the item that adds a disk are different from the values they stand
beside (`NullAssumption`, `DataAssumption`, `DiskAssumption`, `AuthAssumption`, `ByteAssumption`,
`ListingAssumption`, `HeapAssumption`), that the code pages make a name of a name (`ConversionAssumption`), that bounds are numbers, that the kinds of objects on Lua's heap
are disjoint and the main thread is one of the threads (`HeapAssumption`), that the main thread is no coroutine and some C calls are
kept for the handling of their overflow (`CoroutineAssumption`; the code keeps `LUAI_MAXCCALLS>>3`, which is 25), that folding a name's case twice changes nothing more
(`FoldAssumption`), and that the dialog's default name is a name. TLC evaluates each of these in the runs.

| theorem | statement |
|---|---|
| `DictionaryProofs!Invariance` | `Spec => []IInv` |
| `TypeCorrect`, `ShapeHolds`, `KeysStayUnique`, `NoUseAfterFree`, `TraverseOrder` | `Spec => []TypeOK`, `[]ListShape`, `[]UniqueKeys`, `[]CursorInList`, `[]TraverseInOrder` |
| `NothingLost` | `Spec => LostOnlyOnFailure` |
| `CallsComeBack` | `Spec => LoopsMoveOn`: no iteration of a loop leaves as much to walk as it found |
| `Refinement` | `Spec => Implements`: the linked list implements the atomic association list |
| `DiskRegistryProofs!Invariant`, `RegistryTypes` | `Spec => []IInv`, `[]TypeOK` |
| `SavedDisksComeBack` | `Spec => []RestartKeepsDisks` |
| `TornSaveIsAPrefix` | `Spec => []TornSave` |
| `RegistryIsWholeAtRest`, `ListedDisksOpen` | `Spec => []NoLostValueAtRest`, `[]ListedNamesResolve` |
| `TokenKeepsToItsDisk` | `Spec => TokenGoesToListedDisk` |
| `SavesComeToAnEnd` | `Spec => SavesMoveOn`: a save of n disks is over after 5n + 1 steps |
| `EntriesStay` | while the plugin is loaded, an entry keeps its place and its key |
| `ListingProofs!RegistryBelow` | `Spec => R!Spec`: below the listings the registry makes its own steps or none |
| `ListingTypes` | `Spec => []TypeOK`, the registry's types included |
| `RootIsListed`, `ShownDisksOpen`, `DirShowsItsAnswer` | `Spec => []RootListing`, `[]ShownNamesOpen`, `[]DirShowsAnswer` |
| `AuthProofs!Invariant`, `AuthTypes` | `Spec => []IInv`, `[]TypeOK` |
| `EveryQuitHasALoop`, `HostIsEnabledAtRest`, `FirstAnswerIsReturned` | `Spec => []QuitHasALoop`, `[]HostEnabledAtRest`, `[]FirstAnswerReturned` |
| `HttpProofs!Closed`, `HttpTypes` | `Spec => []ConnectionsClosed`, `[]TypeOK` |
| `BodyIsWhatWasSent`, `CompleteAnswersAreSafe` | `Spec => []BodyIsTheAnswers`, `[]CompleteAnswerIsSafe` |
| `HostProofs!Invariant`, `HostTypes` | `Spec => []IInv`, `[]TypeOK` |
| `LoaderOutcomes`, `CredentialsStay`, `ListingsAreBalanced` | `Spec => []LoaderOutcome`, `[]CredentialsGoToOwnScript`, `ListingsBalance` |
| `CoroutineInvariant` | `CoSpec => []CoInv` |
| `StatusTells`, `DepthCounts` | `CoSpec => []StatusIsTrue`, `[]DepthIsCounted` |
| `LifetimeProofs!EveryReferenceReturned`, `SiteStays` | `Spec => []ReferencesBalance`, `[]SiteOutlivesBrowser` |
| `CollectorInvariant`, `CollectorTypes` | `GCSpec => []GCInv`, `[]GCTypeOK` |
| `GrayAreLinked`, `CycleStartsWhite` | `GCSpec => []Linked`, `[]WhiteAtPause` |
| `BlackNeverSeesWhite`, `NothingDangles` | `GCSpec => []BlackSeesNoWhite`, `[]NoDangling` |

**Dictionary.** The inductive invariant is `IInv == TypeOK /\ ListShape /\ UniqueKeys /\ LoopInv`. None of the
first three is inductive alone. `UniqueKeys` at `SetInsert` needs that the walk found no match,
which only `StoreLoop` records, and it in turn needs `SetLoop`, the same fact about the nodes already
behind `iter`. `ListShape` at the removals needs that `iter` is a node of the list
and, in `RemoveNextNode`, that the match is the node behind it. The loop invariants say, for each
loop, which node `iter` is on and what is known of the nodes behind it; `DestroyLoop` says which nodes
have been emptied, because `UniqueKeys` does not hold in the middle of a destruction. Each action
has a lemma; the arithmetic of taking a node out of the chain is one lemma about sequences,
`RemoveAtFacts`. `CallsComeBack` takes the measure `Ahead`, the nodes from `iter` to the end of `chain`; the
lemma `AheadFalls` is one case per loop and rests on `LoopInv`.

The refinement maps the list to its entries in order (empty once destruction has begun). All steps
of a walk stutter; an update, an insertion, a removal, the end of a read and the creation are the
abstract steps (`UpdateStep`, `InsertStep`, `RemoveStep`, `ReadStep`, `LifeStep`). The insertion and
the removal need to know that the key is absent, or first found at that place, which is what
`LoopInv` has kept.

**Registry.** `IInv == TypeOK /\ Sound /\ Whole /\ Asked /\ Filed`. `Filed` is what makes
`RestartKeepsDisks` inductive: in the middle of a save the file holds the sections of the disks before `at` in
full and the first fields of the one at `at` (`SoFar`); with the last field of the last disk it holds them all,
and `LoadOf` of such a file, a fold that passes over sections, is `ReadBack` by the lemmas of `SequenceFacts`.
`TornSave` follows from `SoFar` alone. `Whole` follows a lost value through the save that
ends the process. `Sound` says that a nickname is some entry's key, that it is the entry's own once the disk
has a token or may ask for one (the accident described above is exactly this conjunct), and that a disk that may not has its script
loaded, which gives `ListedNamesResolve`. `Asked` says of every waiting call what it goes by (`Fine`): the disk a question would store is
new; the entry of an authorization is still there, under its key, with the disk it had but for the token, unless an overwrite has hit it. Since
other dialogs and authorizations come and go above a call, each step has to keep this for all of `calls` (`FineStays`,
`FineWithToken`, `Waiting`); `Marked` says that an overwrite marks just those whose entry it hits. From `Sound` and `Asked` together
follows `TokenGoesToListedDisk`.

**Listings.** The listings do not prove anything about the registry again. `SameSteps` shows that the registry instantiated in
`PanelListing` and the one the proofs are about have the same steps, `RegistryBelow` that every step of a
listing is one of these or none, so `DiskRegistryProofs!Invariant` and `EntriesStay` hold below. Over them
`LInv == Typed /\ Paired /\ Quiet /\ \A h : Kept(handles[h], disks)`: `Paired` says that the handles that wait are those of
the calls that do (kept by one lemma about `Along`, `PairsMove`), `Quiet` that nothing is open before the
library is attached, `Kept` for a root handle (`RootKept`) how far it is, that what it has shown are keys and that its
pointer is on an entry, and for a directory (`DirKept`) that what it has shown is the list's front and, when the
names differ, that the list is the answer. That a key leads to a disk is the registry's lemma `KeysLead`. A handle that is not touched keeps this because the registry only grows
(`KeptOn`). That the rows of an answer with different names give the list `Told` is `ListingKeeps`, an induction over the rows.

**Window.** `IInv == TypeOK /\ Mail /\ Loops /\ WillEnable /\ Single`. `Mail` says which messages there can be for a window
in which state; `Loops` adds to `QuitHasALoop` that the open windows are finitely many, which its count needs;
`WillEnable` says that someone who has not returned will enable the host, unless an error has left it. `Single` is about
calls that are not nested, with nothing adrift: where the page's first answer is, from the browser's callback through two messages to
the value the call returns (`Posted`, `Due`, `Taken`, `Result`).

**HTTP client.** `ConnectionsClosed` speaks of the moments between two calls only. `Account` extends it into the calls: what
there is of each kind is what `conn` owns and what the failed lookups left, and `conn` owns nothing before
the connection is made. Every way out through http_disconnect is one lemma, `DisconnectAccount`. The
text is a second invariant, `Intact`: without a mishap the buffer is what was sent, so what is found behind its first
empty line is the answer's body. `Typed` is the third, for counts that must not fall below zero.

**Script host.** `IInv == TypeOK /\ Loader /\ (proc = "up" => Nested(entries, stack, calls))`. `Loader`
derives from the log of files what is on the stack and whether the process is still there. `Nested` says that
each listing in progress finds below its own values what it left there (`Base`, `Placed`), that all but the
innermost wait in a window, and that each began above the values of those around it: so an index from the
top means the same value for the inner listing as before, and the globals, whoever set them last, have been read before the
script's `dir` runs. `ListingsBalance` is an action property: it compares the stack before and after from `Placed`.

**Coroutines.** `CoInv` says of the C stack what each of its entries needs of the others. `Shape`: the main thread is at the bottom, the
entries of a thread lie together above its resume with growing numbers of frames, a protection has its call on top.
`Fits`, of each entry and its thread: a protection holds the count to go back to, the thread's own count is the number of calls up to
its topmost entry (`Depth`) unless an error is on its way, and a thread that waits for a coroutine is in the C function that resumed it.
Without the entries in the middle neither property survives an error: luaD_throw leaves the counts as they are, and what makes them
true again is the number the handler, far below, has kept. `StatusIsTrue` is about coroutines that are not on the stack as well, which costatus
judges by what they left: `Resting` says what status, frames and values that is. Its last part, that a coroutine waits in a C function
and has no other one among its frames, rests on `YieldsOnTop`: lua_yield compares two counts (ldo.c:447), and by `Fits` these agree
only if the coroutine's resume is the topmost entry, so that no C frame is between. Entries are taken off in three ways (a return, an error
caught, the end of a coroutine), which share the lemma about `EntryPopped`; what a step adds or cuts of frames is `MoreFrames` and `Cut`.

**Browser.** The invariant is `OneCall /\ Held /\ Progress`: at most one call is in progress; `Held` says
for each place of a call which references the plugin holds there, and `Progress` how far the window, its
user data and the block are. `ReferencesBalance` speaks of the moments between two calls and follows from
`Held` at the place "none"; `SiteOutlivesBrowser` needs that only an embedding that got as far as the site
has given it. What GetWebPtrs leaves, on each of its ways out, is the lemma `DocPtrFacts`.

**Collector.** `GCInv == GCTypes /\ Blank /\ Colours /\ Swept /\ Closed /\ (Marks => Linked /\ Atomic /\ BlackSees)`.
The two properties need each other's phase: that nothing dangles (`Closed`) is kept in the sweep only because
the flip made dead exactly what the marking had not reached, and that is what `BlackSees` says once every gray list is
empty. `BlackSees` has four ways to fail that the rest of the invariant closes. What is gray but in no
list would never be traversed (`Linked`). Threads stay gray, so their slots have to be looked through again
after the last script ran, open upvalues are gray while their value is not known to be marked, and a weak table's
entry is marked only in part: `Atomic` says in which of the four atomic phases each of these is made good.
`Colours` says that threads and weak tables are never black and open upvalues neither. In the sweep,
`Swept` says that what is still dead waits in the list or, an open upvalue, on a thread that waits there, and that
what does not wait is white again; it gives `WhiteAtPause`, which the next cycle starts from. `Blank`
keeps freed memory white and empty, so that an object made there is like new.

The marking is treated once. `ReachedIs` and `WithMarksIs` say what one call of reallymarkobject does, up to
the userdata and upvalues it goes through at once; `Marking` is what every step of the mark phase has in
common, and the lemmas `Marking...` what it keeps. Of the scripts' steps those that only move values on a stack share
`StackKeeps`, the assignments to a table `TableKeeps`, and the forward barriers, on upvalues
and userdata in both phases, `BarrierRecolours` and `HolderKeeps`. TLC checked `GCInv` on the run's instance and on
a larger one before it was proved. The disjointness of the kinds in `HeapAssumption` is used throughout.

**Induction over data.** The library's induction theorems take an operator and cannot be used by the installed provers.
`SequenceFacts` states induction for sets instead: `Least` (a set of numbers that is not empty has a least
element), `UpTo` (a set that holds 0 and, with every number, the next one holds all), `Recursion` (a recursive
function is the one its steps define). They give what `Selected` computes for a list of any
length (`SelectedFrom`, `SelectedPrefix`), which the registry's file and the listings' answers rest on.

Only model-checked: liveness (`ListingEnds`, `AnswerEndsLoop`, `GarbageIsFreed`: TLAPS has no rule for fairness
and ENABLED; that garbage is freed is liveness, that nothing else is freed is proved); and what is checked of Lua's tables, patterns and chunks. What a
pattern of any length matches and what a chunk of any size compiles to are recursions over trees
in `LuaCode`, `LuaParser`, `LuaMeaning` and `LuaPattern`, written with RECURSIVE operators, so no theorem reaches them.

## 5. Findings

Each is a run whose property states a line of the repository and that TLC shows violated.

1. `dictionary.h:75` says a set updates the entry of the given key. `dict_set_element_s`
   (dictionary.c:25-37) finds that entry, walks on, and overwrites the last one. The user meets it in the
   dialog, which asks whether to overwrite the disk of this name (ui.c:60): after a yes the last disk of the
   registry is replaced, under its own key, and the named one stays; the restart that follows renames the
   new disk to the lost one's name.
2. `disk.h:40` says `ndisk_dir` answers NDISK_FATAL on failure. When the script's `dir` fails
   (disk.c:169) the message is logged and NDISK_OK answered: a failed request looks like an empty
   directory.
3. `cwebpage.c:682` says the callback was changed to pass the URL's data. It passes the address of
   the browser's string, read two posted messages after the callback has returned.

## 6. Not modelled

- String utilities: functions without state; the modules take names as atoms.
- `ndplugin.c` (functions that return a constant), `nd.rc`, project files: nothing to model.
- The four scripts without `dir`: they define a description only.
- Of `cwebpage.c`: the event sinks, the element collection helpers and the enumerations, which the plugin
  does not call, and the methods of the client site that return a constant.
- Of Lua: the lexer, the binary loader and dumper, hooks and the debug library, metatables inside the
  machine, the conversions of the string library, the math, io and os libraries. The allocator is taken
  not to fail.
- `ndisk_download`, `ndisk_upload` and the other operations of disk.c:246-275 and FsGetFileW return a
  constant.

## 7. Plan

Done, in this order: `AssocOps`, `AssocList`, `Dictionary` and its proofs; `DiskRegistry`;
`PanelListing` over it; `AuthWindow`; `HttpClient`; `LuaHost`; `BrowserObject`; `LuaGC`; `LuaTable`,
`LuaCoroutine`, the compiler with its machine, `LuaPattern`; the proofs of the HTTP client, the browser, the
window, the registry, the script host, the listings, the collector and the coroutines.

Next theorem: `LuaTable`, `TableIsAMap`, whose rehash is an induction over nodes that `SequenceFacts` now allows.

A further module worth writing: metatables in `LuaVM`, with the metamethods that call back into a script.
