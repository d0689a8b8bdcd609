------------------------------- MODULE Image --------------------------------
(***************************************************************************)
(* State images: x-prim/image.c writes every flagged object of a process's *)
(* allocation chain to an object table and a bytes section, and rebuilds   *)
(* the graph from them in another process.                                 *)
(*                                                                         *)
(* A machine word is a pair of what it is and which one:                   *)
(*   <<"num", n>>   a number, Null being 0                                 *)
(*   <<"obj", a>>   the address of the chain's object a                    *)
(*   <<"out", x>>   the address of x, outside the chain: a C function, a   *)
(*                  static object, an object of the base                   *)
(*   <<"text", n>>  the address of a C string, n characters long           *)
(*   <<"at", n>>    an address n characters into a buffer's bytes          *)
(*   <<"away", a>>  what the loading process has for the name of object a  *)
(*   <<"int", w>>   the externals table's INT object that holds the word w *)
(*   <<"first", w>> the first unit of what w stands for, read as an INT's  *)
(*   <<"lost", 0>>  an address of a process that has ended                 *)
(* The code stores words; nothing in it looks at a word's first part.  The *)
(* chain's objects are numbered as the chain holds them, the most recent   *)
(* first.  The heap is not collected while an image is written.            *)
(***************************************************************************)
EXTENDS Integers, Sequences, FiniteSets, ImageTable

CONSTANTS
    Graphs,       \* the heaps written: sequences of objects, the chain's order
    Caps,         \* the capacities tried: <<table words, blob characters>>
    WordBytes,    \* the characters a blob entry's length takes
    Address,      \* the address each "obj" and "out" word is
    ExternKeys    \* X_IMAGE_EXTERN_KEYS, the names the cache has room for

ASSUME AddressesAssumption ==
    /\ \A w \in DOMAIN Address : w[1] \in {"obj", "out"} /\ w = <<w[1], w[2]>>
    /\ \A w \in DOMAIN Address : Address[w] \in Nat \ {0}
    /\ \A w, x \in DOMAIN Address : Address[w] = Address[x] => w = x

Null == <<"num", 0>>
Lost == <<"lost", 0>>

(* The unit labels (x-type.h).                                             *)
Labels == {"ref", "word", "bytes", "foreign"}

VARIABLES
    phase,    \* the pass being run
    heap,     \* the chain of the process that writes
    caps,     \* the capacities the writer was given
    index,    \* w.index: the table of the flagged objects' indices
    at,       \* the object a pass has reached
    pending,  \* the units of that object still to write, as its save left them
    rec,      \* the record being written
    table,    \* the object table: records
    room,     \* the words and the characters written so far
    blob,     \* the bytes section: strings
    cache,    \* w.externs: the table of the naming callable's answers, plus one
    sent,     \* w.sent: the words no name was given for
    externs,  \* what the callable filed: external k is externs[k], a word and
              \* the label it was asked about it under
    asked,    \* the words the callable was asked about, one after another
    ix,       \* the rebuilt objects
    strays    \* the loads that wrote through what is not an object

written == <<heap, caps, index, table, room, blob, externs, sent, asked, cache>>
vars == <<phase, written, at, pending, rec, ix, strays>>

------------------------------------------------------------------------------
(* Objects.  role is what an object's type label is: nil, one of the two   *)
(* static labels, some other static label, or a type struct, of; own says  *)
(* it owns the bytes its word points to, attr which attributes it has.     *)

Struct(h, o) == h[o.of]

(* A type is a spair's tree; what is modelled of it is its head: the name  *)
(* atom, and the handlers and unit labels the rest of the tree refers to.  *)
Handlers(s) == s.units[2]

(* The handlers of the engine's types: the labels their save writes, the   *)
(* last of them repeating; the units saved, -1 for a slot 0 that counts    *)
(* the rest; whether there is a load.                                      *)
Layout(n, labels, load) == [count |-> n, labels |-> labels, load |-> load]
IntSave       == Layout(1, <<"word">>, FALSE)
StrSave       == Layout(1, <<"bytes">>, FALSE)
PtrSave       == Layout(1, <<"foreign">>, FALSE)
PrimSave      == Layout(2, <<"foreign", "foreign">>, FALSE)
ProcedureSave == Layout(2, <<"foreign", "ref">>, FALSE)
OperativeSave == Layout(2, <<"foreign", "ref">>, FALSE)
PairSave      == Layout(2, <<"ref">>, FALSE)
VectorSave    == Layout(-1, <<"ref">>, FALSE)
UserSave      == Layout(2, <<"ref", "word">>, TRUE)
BufferLoads   == Layout(0, <<>>, TRUE)
NothingSaved  == Layout(0, <<"ref">>, FALSE)
LayoutOf(name) ==
    CASE name = "int"       -> IntSave
      [] name = "str"       -> StrSave
      [] name = "ptr"       -> PtrSave
      [] name = "prim"      -> PrimSave
      [] name = "procedure" -> ProcedureSave
      [] name = "operative" -> OperativeSave
      [] name = "pair"      -> PairSave
      [] name = "vector"    -> VectorSave
      [] name = "user"      -> UserSave
      [] name = "buffer"    -> BufferLoads
      [] OTHER              -> NothingSaved

(* x_type_field_save and x_type_field_load: nil, which nothing was found   *)
(* for, leaves the default save with no units declared and no load.        *)
LayoutAt(h, o) ==
    LET w == Handlers(Struct(h, o)) IN
    LayoutOf(IF w[1] = "out" THEN w[2] ELSE "none")

(* x_type_unit_label: a unit past the described ones takes the last label. *)
UnitLabel(labels, i) == labels[IF i <= Len(labels) THEN i ELSE Len(labels)]

(* x_type_save_default, x_type_save_units.                                 *)
SaveLabelled(h, o, l) ==
    LET n == IF l.count >= 0 THEN l.count
             ELSE h[o.units[1][2]].units[1][2] - l.count IN
    [i \in 1..n |-> <<UnitLabel(l.labels, i), o.units[i]>>]

(* x_type_buffer_save: the outer as its bytes, its inner and how far it    *)
(* has been read, the inner as what is left to read.                       *)
SaveBuffer(h, o) ==
    IF "inner" \in o.attr
    THEN <<<<"word", Null>>, <<"word", <<"num", o.units[2][2] - o.units[1][2]>>>>>>
    ELSE <<<<"bytes", o.units[1]>>, <<"ref", o.units[2]>>,
           <<"word", <<"num", h[o.units[2][2]].units[1][2]>>>>>>

(* x_image_save_spair, x_image_save_word.                                  *)
SaveSpair(o) == <<<<"ref", o.units[1]>>, <<"ref", o.units[2]>>>>
SaveWord(o)  == <<<<IF o.own THEN "bytes" ELSE "word", o.units[1]>>>>

IsBuffer(h, o) == o.role = "struct" /\ Handlers(Struct(h, o)) = <<"out", "buffer">>

(* x_image_save: by the role, or by the type.                              *)
Save(h, o) ==
    CASE o.role = "pair" -> SaveSpair(o)
      [] o.role \in {"nil", "atom", "other"} -> SaveWord(o)
      [] IsBuffer(h, o) -> SaveBuffer(h, o)
      [] OTHER -> SaveLabelled(h, o, LayoutAt(h, o))

RecordWords(n) == 3 + 2 * n

Imaged(h) == {a \in DOMAIN h : h[a].flagged}

(* A word is of the kind its label says; a foreign one leads out of the    *)
(* chain.                                                                  *)
Fits(u) ==
    \/ u[1] = "ref" /\ (u[2] = Null \/ u[2] \in DOMAIN Address)
    \/ u[1] = "foreign" /\ (u[2] = Null \/ (u[2] \in DOMAIN Address /\ u[2][1] = "out"))
    \/ u[1] = "bytes" /\ (u[2] = Null \/ (u[2][2] \in Nat /\ u[2] = <<"text", u[2][2]>>))
    \/ u[1] = "word" /\ u[2][1] = "num"

(* The heaps an image is asked of: what is flagged has the units its type  *)
(* saves and no more, the type is one of the chain's, and a buffer's inner *)
(* is a buffer of the chain.                                               *)
IsSequence(s) == s \in Seq({s[i] : i \in DOMAIN s})
WellFormed(h) ==
    /\ IsSequence(h) /\ \A a \in DOMAIN h : <<"obj", a>> \in DOMAIN Address
    /\ \A a \in Imaged(h) :
          LET o == h[a]
              s == Save(h, o) IN
          /\ o.role \in {"nil", "pair", "atom", "other", "struct"}
          /\ o.role = "struct" => o.of \in DOMAIN h /\ h[o.of].role = "pair"
          /\ IsSequence(s) /\ \A i \in DOMAIN s : Fits(s[i])
          /\ ~IsBuffer(h, o) => IsSequence(o.units) /\ Len(o.units) = Len(s)
          /\ IsBuffer(h, o) /\ "inner" \notin o.attr =>
                \E b \in DOMAIN h : IsBuffer(h, h[b]) /\ o.units[2] = <<"obj", b>>

ASSUME GraphsAssumption ==
    /\ \A h \in Graphs : WellFormed(h)
    /\ Caps \subseteq Nat \X Nat /\ WordBytes \in Nat /\ ExternKeys \in Nat

------------------------------------------------------------------------------
(* Writing.                                                                *)

(* x_image_count_pass: a table with room for the flagged objects' number,  *)
(* and each of them put in it, as the chain comes to it.                   *)
Indexed(h) ==
    LET I[a \in 0..Len(h)] ==
            IF a = 0 THEN [n |-> 0, t |-> Empty(Cardinality(Imaged(h)))]
            ELSE IF a \notin Imaged(h) THEN I[a - 1]
            ELSE [n |-> I[a - 1].n + 1,
                  t |-> Put(I[a - 1].t, Address[<<"obj", a>>], I[a - 1].n + 1)]
    IN I[Len(h)].t

(* x_image_table_get on the index: 0 for what is not imaged.               *)
IndexOf(a) == Get(index, Address[<<"obj", a>>])

NoRec == [type |-> 0, attr |-> {}, units |-> <<>>]

Init ==
    /\ heap \in Graphs
    /\ caps \in Caps
    /\ phase = "count"
    /\ index = Empty(0) /\ at = 0 /\ pending = <<>> /\ rec = NoRec
    /\ table = <<>> /\ room = <<0, 0>> /\ blob = <<>>
    /\ cache = Empty(ExternKeys) /\ sent = 0 /\ externs = <<>> /\ asked = <<>>
    /\ ix = <<>> /\ strays = 0

CountPass ==
    /\ phase = "count"
    /\ index' = Indexed(heap)
    /\ phase' = "emit"
    /\ at' = 0
    /\ UNCHANGED <<heap, caps, pending, rec, table, room, blob, cache, sent, externs,
                   asked, ix, strays>>

(* x_image_type_word.                                                      *)
TypeWord(o) ==
    CASE o.role = "nil" -> -3
      [] o.role = "pair" -> -1
      [] o.role \in {"atom", "other"} -> -2
      [] OTHER -> IndexOf(o.of)

Remaining == {a \in Imaged(heap) : a > at}
NextAt    == CHOOSE a \in Remaining : \A b \in Remaining : a <= b

TypeMissing(o) == o.role = "struct" /\ IndexOf(o.of) = 0

(* x_image_emit_object, to its loop: the object's units as its type saves  *)
(* them, room for them, its type and flags.  Either failure raises.        *)
TableFullOfUnits(n) == room[1] + 2 * n > caps[1]   \* a variant: no record head
TableFull(n) == room[1] + RecordWords(n) > caps[1]

EmitObject ==
    /\ phase = "emit" /\ pending = <<>> /\ rec = NoRec
    /\ Remaining # {}
    /\ LET o == heap[NextAt]
           saved == Save(heap, o) IN
       IF TableFull(Len(saved)) \/ TypeMissing(o)
       THEN /\ phase' = "raised"
            /\ UNCHANGED <<at, pending, rec>>
       ELSE /\ at' = NextAt
            /\ pending' = saved
            /\ rec' = [type |-> TypeWord(o), attr |-> o.attr, units |-> <<>>]
            /\ UNCHANGED phase
    /\ UNCHANGED <<written, ix, strays>>

Write(label, word) ==
    /\ rec' = [rec EXCEPT !.units = Append(@, <<label, word>>)]
    /\ pending' = Tail(pending)

(* What the callable has answered, kept one up.                            *)
Cached(word) == Get(cache, Address[word])
PutCache(word, val) == cache' = Put(cache, Address[word], val)

(* x_image_extern: the cached answer, or the callable's, kept one up.  The *)
(* callable names a word, filing it as the next external, or answers nil.  *)
(* It is told the label, and files the external of a reference as an       *)
(* object and that of a foreign unit as an INT.  The cache does not look   *)
(* at the label.  sign is -1 where the unit is a reference.                *)
Extern(label, word, sign) ==
    \/ /\ Cached(word) # 0
       /\ Write(label, <<"num", sign * (Cached(word) - 1)>>)
       /\ UNCHANGED <<cache, sent, externs, asked>>
    \/ /\ Cached(word) = 0
       /\ asked' = Append(asked, word)
       /\ \/ /\ externs' = Append(externs, [word |-> word, as |-> label])
             /\ PutCache(word, Len(externs) + 2)
             /\ Write(label, <<"num", sign * (Len(externs) + 1)>>)
             /\ UNCHANGED sent
          \/ /\ sent' = sent + 1
             /\ PutCache(word, 1)
             /\ Write(label, Null)
             /\ UNCHANGED externs

Emitting(label) == phase = "emit" /\ pending # <<>> /\ Head(pending)[1] = label

(* x_image_ref_word.                                                       *)
EmitRef ==
    /\ Emitting("ref")
    /\ LET word == Head(pending)[2] IN
       \/ /\ word = Null
          /\ Write("ref", Null)
          /\ UNCHANGED <<cache, sent, externs, asked>>
       \/ /\ word # Null /\ Get(index, Address[word]) # 0
          /\ Write("ref", <<"num", Get(index, Address[word])>>)
          /\ UNCHANGED <<cache, sent, externs, asked>>
       \/ /\ word # Null /\ Get(index, Address[word]) = 0
          /\ Extern("ref", word, -1)
    /\ UNCHANGED <<phase, heap, caps, index, at, table, room, blob, ix, strays>>

(* x_image_bytes_word: the blob is given the string, or an empty one.      *)
BytesLen(word) == IF word = Null THEN 0 ELSE word[2]
BlobFullEarly(n) == room[2] + WordBytes + n + 1 >= caps[2]   \* a variant: off by one
BlobFull(n) == room[2] + WordBytes + n + 1 > caps[2]

EmitBytes ==
    /\ Emitting("bytes")
    /\ LET n == BytesLen(Head(pending)[2]) IN
       IF BlobFull(n)
       THEN /\ phase' = "raised"
            /\ UNCHANGED <<pending, rec, blob, room>>
       ELSE /\ Write("bytes", <<"num", Len(blob)>>)
            /\ blob' = Append(blob, n)
            /\ room' = [room EXCEPT ![2] = @ + WordBytes + n + 1]
            /\ UNCHANGED phase
    /\ UNCHANGED <<heap, caps, index, at, table, cache, sent, externs, asked,
                   ix, strays>>

(* x_image_foreign_word.                                                   *)
EmitForeign ==
    /\ Emitting("foreign")
    /\ IF Head(pending)[2] = Null
       THEN /\ Write("foreign", Null)
            /\ UNCHANGED <<cache, sent, externs, asked>>
       ELSE Extern("foreign", Head(pending)[2], 1)
    /\ UNCHANGED <<phase, heap, caps, index, at, table, room, blob, ix, strays>>

(* A word is copied as it is.                                              *)
EmitWord ==
    /\ Emitting("word")
    /\ Write("word", Head(pending)[2])
    /\ UNCHANGED <<phase, written, at, ix, strays>>

(* The loop is over: the record stands in the table.                       *)
EmitEnd ==
    /\ phase = "emit" /\ pending = <<>> /\ rec # NoRec
    /\ table' = Append(table, rec)
    /\ room' = [room EXCEPT ![1] = @ + RecordWords(Len(rec.units))]
    /\ rec' = NoRec
    /\ UNCHANGED <<phase, heap, caps, index, at, pending, blob, cache, sent, externs,
                   asked, ix, strays>>

(* x_prim_image_write returns; a process that has the table, the bytes and *)
(* the externals starts rebuilding.                                        *)
StartRebuild ==
    /\ phase = "emit" /\ pending = <<>> /\ rec = NoRec /\ Remaining = {}
    /\ phase' = "alloc"
    /\ at' = 0
    /\ UNCHANGED <<written, pending, rec, ix, strays>>

------------------------------------------------------------------------------
(* Rebuilding.                                                             *)

(* x_image_alloc_pass: a role's label now, a struct's when it exists; the  *)
(* attributes the record kept; the units whatever the allocation held.     *)
RoleOf(type) == CASE type = -1 -> "pair" [] type = -2 -> "atom" [] OTHER -> "nil"

AllocPass ==
    /\ phase = "alloc"
    /\ IF at < Len(table)
       THEN /\ LET r == table[at + 1] IN
               ix' = Append(ix, [role |-> RoleOf(r.type),
                                 of |-> 0, own |-> FALSE, attr |-> r.attr,
                                 flagged |-> FALSE,
                                 units |-> [i \in 1..Len(r.units) |-> Lost]])
            /\ at' = at + 1
            /\ UNCHANGED phase
       ELSE /\ phase' = "patch"
            /\ at' = 0
            /\ UNCHANGED ix
    /\ UNCHANGED <<written, pending, rec, strays>>

(* x_image_extern_obj, x_image_extern_int: the entry itself, and the word  *)
(* of the INT it is taken for; past the table, nil and 0.                  *)
InPlaceOf(word) == IF word[1] = "obj" THEN <<"away", word[2]>> ELSE word
ExternObj(k) ==
    IF k \notin DOMAIN externs THEN Null
    ELSE IF externs[k].as = "ref" THEN InPlaceOf(externs[k].word)
    ELSE <<"int", externs[k].word>>
ExternInt(k) ==
    IF k \notin DOMAIN externs THEN Null
    ELSE IF externs[k].as = "foreign" THEN externs[k].word
    ELSE <<"first", externs[k].word>>

(* x_image_patch_unit, x_image_ref.  A word that was an address is still   *)
(* one of the process that wrote it.                                       *)
PatchedForeign(u) ==   \* a variant: a foreign unit keeps its index
    LET v == u[2] IN
    CASE u[1] = "ref" -> IF v[2] > 0 THEN <<"obj", v[2]>> ELSE ExternObj(-v[2])
      [] u[1] = "bytes" -> <<"text", blob[v[2] + 1]>>
      [] OTHER -> IF v[1] = "num" THEN v ELSE Lost
Patched(u) ==
    LET v == u[2] IN
    CASE u[1] = "ref" -> IF v[2] > 0 THEN <<"obj", v[2]>> ELSE ExternObj(-v[2])
      [] u[1] = "bytes" -> <<"text", blob[v[2] + 1]>>
      [] u[1] = "foreign" -> ExternInt(v[2])
      [] OTHER -> IF v[1] = "num" THEN v ELSE Lost

(* x_image_patch_pass.                                                     *)
Typed(o, r) ==
    IF r.type > 0 THEN [o EXCEPT !.role = "struct", !.of = r.type] ELSE o

PatchPass ==
    /\ phase = "patch"
    /\ IF at < Len(table)
       THEN /\ LET r == table[at + 1] IN
               ix' = [ix EXCEPT ![at + 1] =
                         [Typed(@, r) EXCEPT !.units =
                             [i \in 1..Len(r.units) |-> Patched(r.units[i])]]]
            /\ at' = at + 1
            /\ UNCHANGED phase
       ELSE /\ phase' = "load"
            /\ at' = 0
            /\ UNCHANGED ix
    /\ UNCHANGED <<written, pending, rec, strays>>

(* x_image_load_handler.                                                   *)
HasLoad(o) == o.role = "struct" /\ LayoutAt(ix, o).load

(* x_type_buffer_load, of what it is applied to: nothing where either word *)
(* is 0, else the two pointers of what its second unit refers to.          *)
LoadBuffer(i) ==
    LET o == ix[i] IN
    IF o.units[1] = Null \/ o.units[2] = Null
    THEN UNCHANGED <<ix, strays>>
    ELSE IF o.units[2][1] = "obj"
    THEN /\ LET j == o.units[2][2] IN
            ix' = [ix EXCEPT ![j].units =
                     <<<<"at", o.units[3][2]>>,
                       <<"at", o.units[3][2] + ix[j].units[2][2]>>>>]
         /\ UNCHANGED strays
    ELSE /\ strays' = strays + 1
         /\ UNCHANGED ix

(* x_image_load_pass: the type's own load, in index order.                 *)
LoadPass ==
    /\ phase = "load"
    /\ IF at < Len(ix)
       THEN /\ at' = at + 1
            /\ IF HasLoad(ix[at + 1])
               THEN IF IsBuffer(ix, ix[at + 1]) THEN LoadBuffer(at + 1)
                    ELSE UNCHANGED <<ix, strays>>
               ELSE UNCHANGED <<ix, strays>>
            /\ UNCHANGED phase
       ELSE /\ phase' = "done"
            /\ at' = 0
            /\ UNCHANGED <<ix, strays>>
    /\ UNCHANGED <<written, pending, rec>>

Next ==
    \/ CountPass
    \/ EmitObject \/ EmitRef \/ EmitBytes \/ EmitForeign \/ EmitWord \/ EmitEnd
    \/ StartRebuild \/ AllocPass \/ PatchPass \/ LoadPass

Spec == Init /\ [][Next]_vars

------------------------------------------------------------------------------
(* Properties.                                                             *)

(* What a word of the heap should come back as: an imaged object as its    *)
(* copy, a named word as what the name stands for, any other address as    *)
(* nil, a string as an equal one.                                          *)
Named(word) == \E k \in DOMAIN externs : externs[k].word = word
Rank(a) == Cardinality({b \in Imaged(heap) : b <= a})
Stands(word) ==
    CASE word[1] = "obj" /\ word[2] \in Imaged(heap) -> <<"obj", Rank(word[2])>>
      [] word[1] = "out" \/ (word[1] = "obj" /\ word[2] \notin Imaged(heap))
            -> IF Named(word) THEN InPlaceOf(word) ELSE Null
      [] OTHER -> word

(* The cache keeps one answer per word, so a word that some unit saves as  *)
(* a reference and another as foreign has one external, of the kind asked  *)
(* about first.  The unit of the other kind is miscast: a reference gets   *)
(* the INT, a foreign unit the first word of the object.                   *)
SavedAs(label, word) ==
    \E a \in Imaged(heap) : \E i \in DOMAIN Save(heap, heap[a]) :
        LET u == Save(heap, heap[a])[i] IN u[1] = label /\ u[2] = word
Misnamed(label, word) ==
    /\ SavedAs("ref", word) /\ SavedAs("foreign", word)
    /\ \E k \in DOMAIN externs : externs[k].word = word /\ externs[k].as # label
Miscast(label, word) == IF label = "ref" THEN <<"int", word>> ELSE <<"first", word>>

(* Before the first load handler runs, and until the end, the objects are  *)
(* copies of the imaged ones: of the same role or type, with the same      *)
(* attributes, each unit standing for the original's, and miscast nowhere  *)
(* but at a word saved under both labels and first named under the other.  *)
(* A NULL string is an empty one.  Buffers, whose units are not their      *)
(* payload, are apart.                                                     *)
Copy(o, n) ==
    /\ n.attr = o.attr
    /\ n.role = (IF o.role = "other" THEN "atom" ELSE o.role)
    /\ o.role = "struct" => n.of = Rank(o.of)
    /\ Len(n.units) = Len(o.units)
    /\ \A i \in DOMAIN o.units :
          LET label == Save(heap, o)[i][1] IN
          IF Misnamed(label, o.units[i]) THEN n.units[i] = Miscast(label, o.units[i])
          ELSE \/ n.units[i] = Stands(o.units[i])
               \/ o.units[i] = Null /\ n.units[i] = <<"text", 0>>

RoundTrip ==
    phase \in {"load", "done"} =>
        \A a \in Imaged(heap) : ~IsBuffer(heap, heap[a]) => Copy(heap[a], ix[Rank(a)])

(* The naming callable is asked about a word once, under whatever labels   *)
(* and from however many objects it is met and however often the cache of  *)
(* its answers has grown since, and the sentinel count is the number of    *)
(* distinct words it had no name for.                                      *)
NamedOnce ==
    /\ \A i, j \in DOMAIN asked : asked[i] = asked[j] => i = j
    /\ sent = Len(asked) - Len(externs)

(* The record being written included, neither section outgrows the room    *)
(* its caller gave it.                                                     *)
NoOverrun ==
    /\ room[1] + (IF rec = NoRec THEN 0
                  ELSE RecordWords(Len(rec.units) + Len(pending))) <= caps[1]
    /\ room[2] <= caps[2]

(* A write is refused only where it must be: something imaged is of a type *)
(* that is not, or the sections would not hold the whole image.            *)
Sums(f) ==
    LET S[n \in 0..Len(f)] == IF n = 0 THEN 0 ELSE S[n - 1] + f[n] IN S
Sum(f) == Sums(f)[Len(f)]
UnitBytes(u) == IF u[1] = "bytes" THEN WordBytes + BytesLen(u[2]) + 1 ELSE 0
BytesIn(h, a) == [i \in DOMAIN Save(h, h[a]) |-> UnitBytes(Save(h, h[a])[i])]
WordsOf(h) ==
    [a \in DOMAIN h |-> IF h[a].flagged THEN RecordWords(Len(Save(h, h[a]))) ELSE 0]
BytesOf(h) == [a \in DOMAIN h |-> IF h[a].flagged THEN Sum(BytesIn(h, a)) ELSE 0]
RefusedForCause ==
    phase = "raised" =>
        \/ \E a \in Imaged(heap) : heap[a].role = "struct" /\ heap[a].of \notin Imaged(heap)
        \/ Sum(WordsOf(heap)) > caps[1]
        \/ Sum(BytesOf(heap)) > caps[2]

(* At most half of either table's slots are taken, and they are counted    *)
(* rightly: what a lookup that stops only at an empty slot or its key      *)
(* needs, to end.                                                          *)
Taken(u) == {i \in Slots(u) : u.keys[i] # 0}
HalfEmpty ==
    \A u \in {index, cache} :
        /\ u.count = Cardinality(Taken(u))
        /\ SlotsPerKey * u.count <= Size(u)

(* A buffer's load puts back the pointers of an outer's inner and touches  *)
(* nothing else.                                                           *)
LoadsOuters == strays = 0
=============================================================================
