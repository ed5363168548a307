----------------------------- MODULE LuaChunks -----------------------------
(***************************************************************************)
(* A chunk is loaded and run: luaD_protectedparser (ldo.c) compiles it,    *)
(* the host calls the main function, the virtual machine goes on from      *)
(* instruction to instruction until the function returns or an error is    *)
(* raised.                                                                 *)
(***************************************************************************)
EXTENDS LuaParser, LuaVerifier, LuaVM

CONSTANT Programs       \* the chunks, as sequences of statements

VARIABLES program,      \* the chunk
          func          \* the FuncState its compilation ended with

chunkVars == <<program, func, L>>

M == INSTANCE LuaMeaning

GlobalVars == (FStr("emit") :> <<"C", "emit">>) @@ (FStr("iter") :> <<"C", "iter">>)

(* What the compiler makes of each text.                                   *)
Compiled == [p \in Programs |-> Parser(p)]
Checked == [p \in Programs |-> Compiled[p].err \/ CheckCode(Proto(Compiled[p]))]

ChunkInit == /\ program \in Programs
             /\ func = NewFunc
             /\ L = [status |-> "text", steps |-> 0]

(* f_parser: an error of the compiler leaves no function.                  *)
LoadAs(fs) ==
    /\ func' = fs
    /\ L' = IF fs.err THEN [L EXCEPT !.status = "syntax error"] ELSE Loaded(Proto(fs), GlobalVars)

Load == L.status = "text" /\ LoadAs(Compiled[program]) /\ UNCHANGED program

Execute == VMNext /\ UNCHANGED <<program, func>>

ChunkNext == Load \/ Execute

ChunkSpec == ChunkInit /\ [][ChunkNext]_chunkVars

-----------------------------------------------------------------------------
(* Values as a script can tell them: tables and functions by their kind.   *)
Seen(v) == IF v[1] \in {"tab", "fun", "C"} THEN <<v[1]>> ELSE v
Observed(trace) == [i \in DOMAIN trace |-> [j \in DOMAIN trace[i] |-> Seen(trace[i][j])]]

EndsAsMeant ==
    LET meant == M!Meaning(program, GlobalVars, IF L'.status \in {"done", "error"} THEN L'.lens ELSE << >>)
    IN  /\ L'.status = "running" => L'.steps < MaxSteps
        /\ L'.status = "syntax error" => meant.stray
        /\ L'.status \in {"done", "error"} =>
               /\ meant.err = (L'.status = "error") /\ ~meant.stray
               /\ Observed(meant.trace) = Observed(L'.trace)

(* A chunk that was compiled does, on the virtual machine, what its text   *)
(* means: the same calls of the host with the same values in the same      *)
(* order, the same results, and an error where the meaning has one; it     *)
(* comes to its end, and no chunk of the manual's is refused (lcode.c,     *)
(* lparser.c, lvm.c).                                                      *)
CompiledMeansText == [][EndsAsMeant]_chunkVars

KeepsSound ==
    /\ L.status = "text" => ~func'.bad /\ Checked[program]
    /\ L'.status = "running" => (L.top = Ci.top \/ OpenOp(Fetch))'

(* The compiler leaves what its assertions say (registers freed in order,  *)
(* no list of jumps lost: lcode.c, lparser.c), the code passes the checker *)
(* (lparser.c:388), and while it runs the stack ends at the frame's top    *)
(* unless the next instruction takes an open list of values (lvm.c:403).   *)
CompiledIsSound == [][KeepsSound]_chunkVars
=============================================================================
