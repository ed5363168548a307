------------------------------ MODULE AssocList ------------------------------
(***************************************************************************)
(* What a dictionary of src/netdisk4tc/dictionary.c does for its callers,  *)
(* with every call one atomic step: an ordered association list and the    *)
(* answer of the last call that returned.  Dictionary.tla refines it.      *)
(*                                                                         *)
(* It is the behaviour of the code, not of its header: dictionary.h:75     *)
(* promises that a set updates the entry of its key, and the code updates  *)
(* the last entry (see SetUpdatesItsKey in Dictionary.tla).                *)
(***************************************************************************)
EXTENDS AssocOps

CONSTANTS Key, Value, NULL

VARIABLES
    live,       \* the dictionary has been created and not destroyed
    entries,    \* its entries, in list order
    reply,      \* the answer of the last call that returned
    dead        \* the process has stopped on an invalid memory access

avars == <<live, entries, reply, dead>>

NoAnswer == Answer("none", NULL, "none", NULL)

AInit ==
    /\ live = TRUE
    /\ entries = << >>
    /\ reply = NoAnswer
    /\ dead = FALSE

(* A key that is present: the last entry takes the value, or has lost its  *)
(* own when no memory is left for the new one.                             *)
AUpdate(k, v) ==
    /\ Has(entries, k)
    /\ \E c \in {"ok", "fatal"} :
          /\ entries' = OverwriteLast(entries, IF c = "ok" THEN v ELSE NULL)
          /\ reply' = Answer("set", k, c, v)
    /\ UNCHANGED <<live, dead>>

AInsert(k, v) ==
    /\ ~Has(entries, k)
    /\ \/ entries' = Insert(entries, k, v) /\ reply' = Answer("set", k, "ok", v)
       \/ entries' = entries /\ reply' = Answer("set", k, "fatal", v)
    /\ UNCHANGED <<live, dead>>

ARead(o, k) ==
    /\ \/ /\ Has(entries, k)
          /\ reply' = Answer(o, k, "ok", IF o \in {"get_s", "get"}
                                         THEN ValueOf(entries, k) ELSE NULL)
       \/ /\ ~Has(entries, k) \/ o = "get"       \* get: no memory for the copy
          /\ reply' = Answer(o, k, "miss", NULL)
    /\ UNCHANGED <<live, entries, dead>>

ARemove(k) ==
    /\ \/ /\ Has(entries, k)
          /\ entries' = RemoveElement(entries, k)
          /\ reply' = Answer("remove", k, "ok", NULL)
       \/ /\ ~Has(entries, k)
          /\ entries' = entries
          /\ reply' = Answer("remove", k, "miss", NULL)
    /\ UNCHANGED <<live, dead>>

ACreate ==
    /\ ~live
    /\ live' = TRUE
    /\ UNCHANGED <<entries, reply, dead>>

ADestroy ==
    /\ live' = FALSE
    /\ entries' = << >>
    /\ UNCHANGED <<reply, dead>>

(* An unchecked failed allocation, or a copy of a value that is gone.      *)
ADie ==
    /\ dead' = TRUE
    /\ UNCHANGED <<live, entries, reply>>

ANext ==
    /\ ~dead
    /\ \/ ACreate
       \/ ADie
       \/ /\ live
          /\ \/ \E k \in Key, v \in Value : AUpdate(k, v) \/ AInsert(k, v)
             \/ \E k \in Key, o \in Readers : ARead(o, k)
             \/ \E k \in Key : ARemove(k)
             \/ ADestroy

ASpec == AInit /\ [][ANext]_avars
=============================================================================
