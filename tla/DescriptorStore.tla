--------------------------- MODULE DescriptorStore ---------------------------
(***************************************************************************)
(* The table of host objects that a WASM source refers to by integer       *)
(* descriptors (GlobalStore).  A store is a record: `storage` maps the     *)
(* descriptors in use to values, `next` is the descriptor given next.      *)
(* A descriptor is an i32; the 2^31st allocation is out of reach.          *)
(***************************************************************************)
EXTENDS Integers

EmptyStore == [storage |-> [d \in {} |-> 0], next |-> 1]

Live(st) == DOMAIN st.storage

(* set overwrites or adds; it never moves next. *)
SetAt(st, d, v) ==
    [st EXCEPT !.storage =
        [x \in Live(st) \cup {d} |-> IF x = d THEN v ELSE st.storage[x]]]

(* Bug: next does not move. *)
StoreValue_KeepsNext(st, v) == SetAt(st, st.next, v)

(* The new value gets the descriptor st.next. *)
StoreValue(st, v) == [SetAt(st, st.next, v) EXCEPT !.next = st.next + 1]

(* Bug: counting starts again at every removal. *)
Remove_AlwaysResets(st, d) ==
    [storage |-> [x \in Live(st) \ {d} |-> st.storage[x]], next |-> 1]

(* Descriptors are counted from 1 again once the store is empty. *)
Remove(st, d) ==
    LET left == Live(st) \ {d} IN
    [storage |-> [x \in left |-> st.storage[x]],
     next    |-> IF left = {} THEN 1 ELSE st.next]

KindAt(st, d) == IF d \in Live(st) THEN st.storage[d].kind ELSE "none"

(* Every descriptor in use was given out and is below the next one. *)
WellNumbered(st) == /\ st.next \in Nat \ {0}
                    /\ \A d \in Live(st) : d \in 1 .. st.next - 1

=============================================================================
