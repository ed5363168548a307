------------------------------ MODULE AssocOps ------------------------------
(***************************************************************************)
(* What the operations of src/netdisk4tc/dictionary.c compute, as          *)
(* operators on a sequence of entries [key, value] in list order.  The     *)
(* pointer-level module Dictionary is shown to implement them; the modules *)
(* of the disk registry and of the listing handles are built from them.    *)
(***************************************************************************)
EXTENDS SequencesExt

Entry(k, v) == [key |-> k, value |-> v]

Has(es, k) == \E i \in DOMAIN es : es[i].key = k

(* The place of key k: the first entry the code's loops would stop at.     *)
PlaceOf(es, k) ==
    CHOOSE i \in DOMAIN es :
        es[i].key = k /\ \A j \in DOMAIN es : es[j].key = k => i <= j

ValueOf(es, k) == es[PlaceOf(es, k)].value

(* dict_set_element_s, key already present: the loop of lines 16-24 walks  *)
(* on to the end of the list, and what is then overwritten through `iter'  *)
(* is the LAST entry, whatever its key.                                    *)
OverwriteLast(es, v) == [es EXCEPT ![Len(es)].value = v]

(* dict_set_element_s, key absent: a new entry at the end.                 *)
Insert(es, k, v) == Append(es, Entry(k, v))

(* Mutant: the overwritten entry takes the new key as well.                *)
SetElement_KeyToo(es, k, v) ==
    IF Has(es, k) THEN [es EXCEPT ![Len(es)] = Entry(k, v)] ELSE Insert(es, k, v)

(* dict_set_element_s when no allocation fails.                            *)
SetElement(es, k, v) == IF Has(es, k) THEN OverwriteLast(es, v) ELSE Insert(es, k, v)

(* dict_remove_element, key present.                                       *)
RemoveElement(es, k) == RemoveAt(es, PlaceOf(es, k))

(* The answer of a call: which operation, with which key, and its outcome. *)
Answer(o, k, c, v) == [op |-> o, key |-> k, code |-> c, value |-> v]

(* The four read-only calls: the value itself, a copy of it, whether there *)
(* is one, how large it is.                                                *)
Readers == {"get_s", "get", "exists", "size"}
=============================================================================
