----------------------------- MODULE ImageTable -----------------------------
(***************************************************************************)
(* The image writer's hash table (x-prim/image.c): open addressing over a  *)
(* power of two slots of which at most half are taken.  It holds the       *)
(* object index and the names already asked for.  Here are its operations, *)
(* each from a table to a table or a value; the writer (Image) uses them.  *)
(***************************************************************************)
EXTENDS Integers, FiniteSets

CONSTANTS
    MinSlots,   \* X_IMAGE_TABLE_MIN_SLOTS
    Align       \* 2 ^ X_IMAGE_TABLE_KEY_SHIFT

ASSUME SlotsAssumption == MinSlots \in Nat \ {0} /\ Align \in Nat \ {0}

(* A table is a record of x_image_table_t's fields: keys, 0 where a slot is *)
(* empty, the vals beside them and the count of the slots taken.            *)

SlotsPerKey == 2   \* X_IMAGE_TABLE_SLOTS_PER_KEY

Slots(u) == DOMAIN u.keys
Size(u)  == Cardinality(Slots(u))

(* x_image_table_init: MinSlots doubled until there are SlotsPerKey to a   *)
(* key, all of them empty.                                                 *)
SlotsFor(n) ==
    LET Doubled[d \in 0..n] == IF d = 0 THEN MinSlots ELSE 2 * Doubled[d - 1]
        Enough(d) == Doubled[d] >= SlotsPerKey * n
    IN Doubled[CHOOSE d \in 0..n : Enough(d) /\ \A e \in 0..(d - 1) : ~Enough(e)]
Empty(n) ==
    LET slots == 0..(SlotsFor(n) - 1) IN
    [keys |-> [i \in slots |-> 0], vals |-> [i \in slots |-> 0], count |-> 0]

(* x_image_table_slot: from the key's own slot, the first that is empty or *)
(* the key's.                                                              *)
Probe(u, k, d) == ((k \div Align) + d) % Size(u)
Stops(u, k, d) == u.keys[Probe(u, k, d)] \in {0, k}
SlotOf(u, k) ==
    Probe(u, k, CHOOSE d \in 0..(Size(u) - 1) :
                    Stops(u, k, d) /\ \A e \in 0..(d - 1) : ~Stops(u, k, e))

(* x_image_table_get.                                                      *)
Get(u, k) ==
    LET i == SlotOf(u, k) IN IF u.keys[i] = k THEN u.vals[i] ELSE 0

(* The end of x_image_table_put.                                           *)
Place(u, k, v) ==
    LET i == SlotOf(u, k) IN
    [keys |-> [u.keys EXCEPT ![i] = k],
     vals |-> [u.vals EXCEPT ![i] = v],
     count |-> u.count + (IF u.keys[i] = 0 THEN 1 ELSE 0)]

(* Variants the checks reject: the arrays copied into bigger ones as they  *)
(* stand, and a table grown only when it is full.                          *)
BiggerCopied(u) ==
    LET e == Empty(Size(u)) IN
    [keys |-> [i \in Slots(e) |-> IF i \in Slots(u) THEN u.keys[i] ELSE 0],
     vals |-> [i \in Slots(e) |-> IF i \in Slots(u) THEN u.vals[i] ELSE 0],
     count |-> u.count]
(* Its growth: a table with room for as many keys as this has slots is     *)
(* given this one's, slot by slot.  None of those puts grows it again.     *)
Bigger(u) ==
    LET Moved[i \in 0..Size(u)] ==
            IF i = 0 THEN Empty(Size(u))
            ELSE IF u.keys[i - 1] = 0 THEN Moved[i - 1]
            ELSE Place(Moved[i - 1], u.keys[i - 1], u.vals[i - 1])
    IN Moved[Size(u)]

FullOnly(u) == u.count + 1 > Size(u)
Full(u) == SlotsPerKey * (u.count + 1) > Size(u)

(* x_image_table_put.                                                      *)
Put(u, k, v) == Place(IF Full(u) THEN Bigger(u) ELSE u, k, v)
=============================================================================
