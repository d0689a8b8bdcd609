---------------------------- MODULE ReaderPromise ----------------------------
(* What a reader of s-expressions promises of the forms it hands over, in    *)
(* terms of the text alone.                                                  *)
EXTENDS Integers, Sequences, FiniteSets, FiniteSetsExt, SequencesExt

VARIABLES
    source,    \* the input: [text, data, bad], whether whole, where it stopped
    mode,      \* "stream": a read loop; "string": token-read-string
    forms,     \* the forms answered to the load or the read loop
    status     \* "reading", "eof" once the sentinel is answered, or "error"

text == source.text

Newlines(s) == Cardinality({i \in 1..Len(s) : s[i] = "\n"})

(* Data: a symbol with its characters, an integer or a character with its    *)
(* value, a string with its bytes, a list with its elements and tail.        *)
Nil   == <<"nil">>

-----------------------------------------------------------------------------
(* The input does not stop in the middle of a string.                        *)
StringsWhole == source.stopped \notin {"str", "escape"}

(* What is to be read: token-read-string stops at the first nil.             *)
Meant ==
    LET nils == {i \in 1..Len(source.data) : source.data[i] = Nil}
    IN  IF mode = "stream" \/ nils = {} THEN source.data
        ELSE SubSeq(source.data, 1, Min(nils) - 1)

(* x_sexp_list_read, x_token_read: whatever a writer wrote is read back,     *)
(* datum for datum, in whatever order the types were registered: characters  *)
(* that delimit, quote or comment in a literal or behind an escape included. *)
(* Where the input stops, the data handed over are the first ones written,   *)
(* none of them partial; a whole text ends cleanly with nothing left out, or *)
(* with the error of the character no name is known for.                     *)
ReadsBack ==
    StringsWhole =>
        /\ IsPrefix([i \in 1..Len(forms) |-> forms[i].datum], Meant)
        /\ source.whole =>
               /\ status = "error" => source.bad
               /\ status = "eof" => Len(forms) = Len(Meant)
               /\ status # "reading" /\ source.bad /\ Meant = source.data => status = "error"

(* x_token_read stamps a list with the line its opening bracket is on,       *)
(* however many the list spans, and an atom with the line its last character *)
(* is on, however much further the analysers have looked.                    *)
LinesRight ==
    \A i \in 1..Len(forms) :
        LET f     == forms[i]
            upto  == IF text[f.from + 1] = "(" THEN f.from ELSE f.upto
        IN  f.datum # Nil => f.line = Newlines(SubSeq(text, 1, upto))

(* x_token_analyse: at the read loop a form is answered without waiting for  *)
(* more than the character that ends its last token, and one ending in a     *)
(* bracket without waiting for any, so that a line typed there is evaluated  *)
(* when it is entered.                                                       *)
NoReadAhead ==
    mode = "stream" /\ StringsWhole => \A i \in 1..Len(forms) :
        forms[i].asked <= forms[i].upto + (IF text[forms[i].upto] = ")" THEN 0 ELSE 1)
==============================================================================
