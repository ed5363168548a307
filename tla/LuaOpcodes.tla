----------------------------- MODULE LuaOpcodes -----------------------------
(***************************************************************************)
(* The instructions of the Lua virtual machine (src/netdisk4tc/lua/        *)
(* lopcodes.h, lopcodes.c): an opcode, a register A and operands B and C.  *)
(* Bx and sBx are kept in b, without their bias; the widths of the fields  *)
(* are the limits the modules that build instructions name.                *)
(***************************************************************************)
EXTENDS Integers

CONSTANTS MaxIndexRK,       \* MAXINDEXRK: the last constant that fits an operand
          MaxArgC,          \* MAXARG_C, for the batches of a constructor
          FieldsPerFlush    \* LFIELDS_PER_FLUSH

Instr(o, a, b, c) == [op |-> o, a |-> a, b |-> b, c |-> c]

(* An operand that is a constant has the bit BITRK.                        *)
BitRK == 256

ASSUME OpcodeAssumption ==
    /\ MaxIndexRK \in 0 .. BitRK - 1 /\ MaxArgC \in Nat /\ FieldsPerFlush \in Nat \ {0}

IsK(x) == x >= BitRK
IndexK(x) == x - BitRK
RKAsK(x) == x + BitRK
NoReg == 255

Arith2 == {"ADD", "SUB", "MUL", "DIV", "MOD", "POW"}
Compare == {"EQ", "LT", "LE"}

TMode == Compare \cup {"TEST", "TESTSET", "TFORLOOP"}

ABx == {"LOADK", "GETGLOBAL", "SETGLOBAL", "CLOSURE"}
AsBx == {"JMP", "FORLOOP", "FORPREP"}

BMode(op) ==
    IF op \in {"MOVE", "LOADNIL", "GETTABLE", "SELF", "UNM", "NOT", "LEN", "CONCAT",
               "TEST", "TESTSET"} \cup AsBx THEN "R"
    ELSE IF op \in {"LOADK", "GETGLOBAL", "SETGLOBAL", "SETTABLE"} \cup Arith2 \cup Compare THEN "K"
    ELSE IF op \in {"TFORLOOP", "CLOSE"} THEN "N" ELSE "U"

CMode(op) ==
    IF op \in {"GETTABLE", "SETTABLE", "SELF"} \cup Arith2 \cup Compare THEN "K"
    ELSE IF op = "CONCAT" THEN "R"
    ELSE IF op \in {"LOADBOOL", "NEWTABLE", "TEST", "TESTSET", "CALL", "TAILCALL",
                    "TFORLOOP", "SETLIST"} THEN "U" ELSE "N"
=============================================================================
