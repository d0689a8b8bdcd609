------------------------------- MODULE Reader -------------------------------
(* The s-expression reader: x_token_analyse scores every type's analyser on  *)
(* the characters of the buffer and the best takes them, x_token_read hands  *)
(* them to that type's reader, and the list reader calls it for elements.    *)
(*                                                                           *)
(* Characters come one at a time from a descriptor, or are all there in a    *)
(* string.  A position counts the characters of the whole input, so that     *)
(* retaining, which moves the unread bytes to the front of the buffer,       *)
(* leaves positions alone.  The characters are a few of every class the      *)
(* reader tells apart; a name above 127 is one byte of a UTF-8 sequence.     *)
EXTENDS ReaderPromise, TLC

CONSTANTS
    Sources,   \* inputs: what a writer wrote and the data it meant
    Modes,     \* how inputs are read: of "stream" and "string"
    Orders     \* orders in which the types may have been registered

VARIABLES
    order,     \* the type alist
    given,     \* the write cursor: characters fetched so far
    mark,      \* the base of the buffer: characters of earlier tokens
    line,      \* the line the buffer's metadata counts
    open,      \* the lists being read, innermost last
    answer     \* what a nested x_token_read has just answered

position == <<given, mark, line>>
input   == <<source, mode, order>>
vars     == <<input, position, open, answer, forms, status>>

Kinds == {"symbol", "int", "char", "str", "list", "comment", "whitespace"}

ASSUME OrderAssumption == \A o \in Orders : o \in Seq(Kinds) /\ o # <<>>
ASSUME ModesAssumption == Modes \subseteq {"stream", "string"}

(* What each character is, as a byte.                                        *)
Characters ==
    {"a", "b", "n", "t", "x", "0", "1", ".", "-", "\"", "\\", "#", "(", ")", ";", " ", "\n",
     "C3", "E2", "F0", "82", "A9", "AC", "9F"}
Code == [c \in Characters |->
    CASE c = "a" -> 97  [] c = "b" -> 98  [] c = "n" -> 110 [] c = "t" -> 116 [] c = "x" -> 120
      [] c = "0" -> 48  [] c = "1" -> 49  [] c = "." -> 46  [] c = "-" -> 45  [] c = "\"" -> 34
      [] c = "\\" -> 92 [] c = "#" -> 35  [] c = "(" -> 40  [] c = ")" -> 41  [] c = ";" -> 59
      [] c = " " -> 32  [] c = "\n" -> 10
      [] c = "C3" -> 195 [] c = "E2" -> 226 [] c = "F0" -> 240 [] c = "82" -> 130
      [] c = "A9" -> 169 [] c = "AC" -> 172 [] c = "9F" -> 159]

White  == {" ", "\n"}
Delims == White \cup {"(", ")", ";"}
Lower  == {c \in Characters : Code[c] \in 97..122}
High   == {c \in Characters : Code[c] >= 128}
Follow == {c \in Characters : Code[c] \in 128..191}         \* 10xxxxxx

XDigits == {"0", "1", "a", "b"}
DigitOf == [c \in XDigits |-> CASE c = "0" -> 0 [] c = "1" -> 1 [] c = "a" -> 10 [] c = "b" -> 11]
Digits  == {c \in XDigits : DigitOf[c] < 10}

(* The character type's data and the escapes of a string, those of them the  *)
(* characters above can spell.                                               *)
Names   == <<"t", "a", "b">> :> 9
Escapes == ("\"" :> 34) @@ ("\\" :> 92) @@ ("n" :> 10) @@ ("t" :> 9) @@ ("0" :> 0)

Close == <<"close">>                 \* x_sexp_list_read_prim
Dot   == <<"symbol", <<".">>>>

NoAnswer == [datum |-> <<"none">>, from |-> 0, line |-> 0]

-----------------------------------------------------------------------------
(* Analysers, on the characters from b on.  Each says how far it had to look *)
(* and its score; looking past the last character meets the end of input,    *)
(* where an analyser still waiting does not match.                           *)

(* The first position from i on holding one of C; past the end without one.  *)
First(i, C) ==
    CHOOSE e \in i..Len(text) + 1 :
        /\ e > Len(text) \/ text[e] \in C
        /\ \A j \in i..e - 1 : text[j] \notin C
FirstNot(i, C) == First(i, Characters \ C)

Found(looked, score) ==
    [looked |-> looked, score |-> IF looked > Len(text) THEN 0 ELSE score]

SymbolScore(b) == LET e == First(b, Delims) IN Found(e, b - e)

(* A sign, then 0x and hexadecimal digits, if any, or decimal digits.        *)
IntScore(b) ==
    LET d   == IF text[b] = "-" THEN b + 1 ELSE b
        hex == d < Len(text) /\ text[d] = "0" /\ text[d + 1] = "x"
        e   == IF hex THEN FirstNot(d + 2, XDigits) ELSE FirstNot(d, Digits)
    IN  Found(e, IF e = d THEN 0 ELSE e - b)

(* Past the backslash and one character or more: a lowercase letter may      *)
(* begin a name and a high byte a sequence, anything else is the literal.    *)
CharScore(b) ==
    LET run(C) == LET e == FirstNot(b + 3, C) IN Found(e, e - b)
        third  == text[b + 2]
    IN  IF text[b] # "#" THEN Found(b, 0)
        ELSE IF b + 1 > Len(text) \/ (b + 1 <= Len(text) /\ text[b + 1] # "\\") THEN Found(b + 1, 0)
        ELSE IF b + 2 > Len(text) THEN Found(b + 2, 0)
        ELSE IF third \in Lower THEN run(Lower)
        ELSE IF third \in High THEN run(Follow)
        ELSE Found(b + 2, 3)

(* A character after a backslash is taken, whatever it is.                   *)
Closing(i) ==
    LET Escaped[j \in i..Len(text)] ==
            j > i /\ text[j - 1] = "\\" /\ ~Escaped[j - 1]
        closers == {j \in i..Len(text) : text[j] = "\"" /\ ~Escaped[j]}
    IN  IF closers = {} THEN Len(text) + 1 ELSE Min(closers)
StrScore(b) ==
    LET e == Closing(b + 1)
    IN  IF text[b] = "\"" THEN Found(e, e - b + 1) ELSE Found(b, 0)

CommentScore(b) ==
    LET e == First(b, {"\n"})
    IN  IF text[b] = ";" THEN Found(e, e - b + 1) ELSE Found(b, 0)

WhitespaceScore(b) ==
    LET e == FirstNot(b, White)
    IN  IF text[b] \in White THEN Found(e, e - b) ELSE Found(b, 0)

(* Fault: a bracket waits for the character after it.                        *)
BracketScorePeeks(b) == Found(b + 1, IF text[b] \in {"(", ")"} THEN 1 ELSE 0)
BracketScore(b) == Found(b, IF text[b] \in {"(", ")"} THEN 1 ELSE 0)

Analysed(b) ==
    [symbol |-> SymbolScore(b), int |-> IntScore(b), char |-> CharScore(b), str |-> StrScore(b),
     list |-> BracketScore(b), comment |-> CommentScore(b), whitespace |-> WhitespaceScore(b)]

Abs(n) == IF n < 0 THEN -n ELSE n

(* A positive score beats any negative one, and among positive ones the      *)
(* longest wins; the symbol's is negative, so it only gets what nobody else  *)
(* recognises.                                                               *)
BeatsLongest(s, best) ==                             \* fault: the sign ignored
    s # 0 /\ Abs(s) >= Abs(best)
Beats(s, best) == s # 0 /\ (s >= best \/ (best < 1 /\ s <= best))

(* The i-th type's handler takes the token when it beats those before it and *)
(* none after beats it.                                                      *)
Best(found) ==
    LET score(i) == found[order[i]].score
        wins(i)  == /\ score(i) # 0
                    /\ \A j \in 1..i - 1 : Beats(score(i), score(j))
                    /\ \A j \in i + 1..Len(order) : ~Beats(score(j), score(i))
        taker    == {i \in DOMAIN order : wins(i)}
    IN  [kind   |-> IF taker = {} THEN "none" ELSE order[Min(taker)],
         len    |-> IF taker = {} THEN 0 ELSE Abs(score(Min(taker))),
         looked |-> Max({Min({found[k].looked, Len(text)}) : k \in Range(order)})]

(* x_token_analyse: one token.                                               *)
NoToken == [kind |-> "none", len |-> 0, looked |-> mark]
Tokens  == IF mark = Len(text) THEN {NoToken} ELSE {Best(f) : f \in {Analysed(mark + 1)}}

Taken(token) == SubSeq(text, mark + 1, mark + token.len)

-----------------------------------------------------------------------------
(* The readers of the atoms, on the characters of the token.                 *)

Digested(s, base) == FoldLeft(LAMBDA n, c : n * base + DigitOf[c], 0, s)
Unsigned(s) ==
    IF Len(s) > 1 /\ s[1] = "0" /\ s[2] = "x"
    THEN Digested(SubSeq(s, 3, Len(s)), 16)
    ELSE Digested(s, 10)
IntRead(s) == <<"int", IF s[1] = "-" THEN -Unsigned(Tail(s)) ELSE Unsigned(s)>>

(* x_char_utf8_decode: the lead's low bits, then six of each that follows.   *)
Decode(s) ==
    LET n == IF Len(s) > 4 THEN 4 ELSE Len(s)
        lead == Code[s[1]] % (CASE n = 1 -> 256 [] n = 2 -> 32 [] n = 3 -> 16 [] n = 4 -> 8)
    IN  FoldLeft(LAMBDA v, c : v * 64 + (Code[c] % 64), lead, SubSeq(s, 2, n))

Unknown == <<"unknown">>             \* the reader raises
CharRead(s) ==
    LET name == SubSeq(s, 3, Len(s))
    IN  CASE Len(s) > 3 /\ s[3] \in High -> <<"char", Decode(name)>>
          [] Len(s) = 3 -> <<"char", Code[s[3]]>>
          [] name \in DOMAIN Names -> <<"char", Names[name]>>
          [] OTHER -> Unknown

(* Between the quotes, escapes undone; one that is unknown stays.            *)
Unescape(s) ==
    LET Undone[i \in 1..Len(s) + 1] ==
            IF i > Len(s) THEN <<>>
            ELSE IF s[i] # "\\" \/ i = Len(s) THEN <<Code[s[i]]>> \o Undone[i + 1]
            ELSE IF s[i + 1] \in DOMAIN Escapes THEN <<Escapes[s[i + 1]]>> \o Undone[i + 2]
            ELSE IF s[i + 1] = "x" /\ i + 3 <= Len(s) /\ {s[i + 2], s[i + 3]} \subseteq XDigits
                 THEN <<16 * DigitOf[s[i + 2]] + DigitOf[s[i + 3]]>> \o Undone[i + 4]
            ELSE <<Code["\\"], Code[s[i + 1]]>> \o Undone[i + 2]
    IN  Undone[1]
StrRead(s) == <<"str", Unescape(SubSeq(s, 2, Len(s) - 1))>>

AtomRead(kind, s) ==
    CASE kind = "symbol" -> <<"symbol", s>>
      [] kind = "int"    -> IntRead(s)
      [] kind = "char"   -> CharRead(s)
      [] kind = "str"    -> StrRead(s)

-----------------------------------------------------------------------------
(* x_token_read, with the token it was handed.                               *)

Fetched(token) == given' = Max({given, token.looked})

Retained(token)      == Fetched(token) /\ mark' = mark + token.len

(* Fault: lines counted as they are fetched, not as they are consumed.       *)
CountedFetched(token) == line' = Newlines(SubSeq(text, 1, given'))
Counted(token)        == line' = line + Newlines(Taken(token))

Take(token) == Retained(token) /\ Counted(token) /\ UNCHANGED input

(* Whitespace and comments have no reader.                                   *)
Skip(token) ==
    /\ token.kind \in {"whitespace", "comment"}
    /\ Take(token)
    /\ UNCHANGED <<open, answer, forms, status>>

(* The one reader that raises has consumed its token.                        *)
Atom(token) ==
    /\ token.kind \in {"symbol", "int", "char", "str"}
    /\ Take(token)
    /\ LET d == AtomRead(token.kind, Taken(token)) IN
       IF d = Unknown
       THEN status' = "error" /\ UNCHANGED answer
       ELSE /\ answer' = [datum |-> d, from |-> mark, line |-> line']
            /\ UNCHANGED status
    /\ UNCHANGED <<open, forms>>

OpenList(token) ==
    /\ token.kind = "list" /\ Taken(token) = <<"(">>
    /\ Take(token)
    /\ open' = Append(open, [items |-> <<>>, rest |-> Nil, want |-> "item",
                             from |-> mark, line |-> line'])
    /\ UNCHANGED <<answer, forms, status>>

CloseList(token) ==
    /\ token.kind = "list" /\ Taken(token) = <<")">>
    /\ Take(token)
    /\ answer' = [datum |-> Close, from |-> mark, line |-> line']
    /\ UNCHANGED <<open, forms, status>>

(* Fault: the end of input inside a list sends the list reader round again.  *)
EndedIgnored ==
    /\ status' = IF open = <<>> THEN "eof" ELSE status
    /\ UNCHANGED answer

(* No token: the end of the input, which inside a list is an error.          *)
Ended ==
    /\ status' = IF open = <<>> THEN "eof" ELSE "error"
    /\ UNCHANGED answer

NoMore(token) ==
    /\ token.kind = "none"
    /\ Fetched(token)
    /\ Ended
    /\ UNCHANGED <<input, mark, line, open, forms>>

ReadToken ==
    /\ status = "reading" /\ answer = NoAnswer
    /\ \E token \in Tokens :
          \/ Skip(token) \/ Atom(token) \/ OpenList(token) \/ CloseList(token)
          \/ NoMore(token)

-----------------------------------------------------------------------------
(* x_sexp_list_read, with what its call of x_token_read has answered.        *)

Top == open[Len(open)]

Listed(items, rest) ==
    IF items = <<>> THEN rest
    ELSE IF rest[1] = "list" THEN <<"list", items \o rest[2], rest[3]>>
    ELSE <<"list", items, rest>>

(* Fault: a list is stamped with the line its closing bracket is on.         *)
CompleteLate(f) ==
    /\ open' = Front(open)
    /\ answer' = [datum |-> Listed(f.items, f.rest), from |-> f.from, line |-> line]
(* The list is complete and answers the call that was reading it.            *)
Complete(f) ==
    /\ open' = Front(open)
    /\ answer' = [datum |-> Listed(f.items, f.rest), from |-> f.from, line |-> f.line]

Grow(f) == open' = [open EXCEPT ![Len(open)] = f] /\ answer' = NoAnswer

Item(d) ==
    /\ Top.want = "item"
    /\ CASE d = Close -> Complete(Top)
         [] d = Dot   -> Grow([Top EXCEPT !.want = "tail"])
         [] OTHER     -> Grow([Top EXCEPT !.items = Append(@, d)])

(* After the dot: one datum is the tail, and the next, whatever it is,       *)
(* stands for the closing bracket.                                           *)
Rest(d) ==
    /\ Top.want = "tail"
    /\ Grow([Top EXCEPT !.rest = d, !.want = "closer"])

Closer(d) == Top.want = "closer" /\ Complete(Top)

Element ==
    /\ status = "reading" /\ answer # NoAnswer /\ open # <<>>
    /\ Item(answer.datum) \/ Rest(answer.datum) \/ Closer(answer.datum)
    /\ UNCHANGED <<input, position, forms, status>>

(* The outermost x_token_read answers, the read loop or token-read-string,   *)
(* which stops at a nil.                                                     *)
StopsAtNil == mode = "string" /\ answer.datum = Nil

AnswerNil ==
    /\ status = "reading" /\ answer # NoAnswer /\ open = <<>> /\ StopsAtNil
    /\ status' = "eof"
    /\ answer' = NoAnswer
    /\ UNCHANGED <<input, position, open, forms>>

Answer ==
    /\ status = "reading" /\ answer # NoAnswer /\ open = <<>> /\ ~StopsAtNil
    /\ forms' = Append(forms, [datum |-> answer.datum, from |-> answer.from,
                               line |-> answer.line, upto |-> mark, asked |-> given])
    /\ answer' = NoAnswer
    /\ UNCHANGED <<input, position, open, status>>

-----------------------------------------------------------------------------
(* Where an input stops: in a string, after an escape, in a comment, after   *)
(* the first characters of a character literal, or in none of these.         *)
Stopped(t) ==
    FoldLeft(LAMBDA st, c :
        CASE st = "str"     -> (CASE c = "\\" -> "escape" [] c = "\"" -> "out" [] OTHER -> "str")
          [] st = "escape"  -> "str"
          [] st = "comment" -> (IF c = "\n" THEN "out" ELSE "comment")
          [] st = "#"       -> (IF c = "\\" THEN "literal" ELSE "out")
          [] st = "literal" -> "out"
          [] OTHER          -> (CASE c = "\"" -> "str" [] c = ";" -> "comment"
                                  [] c = "#" -> "#" [] OTHER -> "out"),
        "out", t)

Init ==
    /\ \E s \in Sources : \E c \in 0..Len(s.text) :
          source = [text |-> SubSeq(s.text, 1, c), data |-> s.data, bad |-> s.bad,
                    whole |-> c = Len(s.text), stopped |-> Stopped(SubSeq(s.text, 1, c))]
    /\ order \in Orders
    /\ mode \in Modes
    /\ given = (IF mode = "string" THEN Len(text) ELSE 0)
    /\ mark = 0 /\ line = 0
    /\ open = <<>> /\ answer = NoAnswer /\ forms = <<>> /\ status = "reading"

Next == ReadToken \/ Element \/ AnswerNil \/ Answer

Spec == Init /\ [][Next]_vars /\ WF_vars(Next)

-----------------------------------------------------------------------------
(* Properties.                                                               *)

(* The buffer's cursors stay in order, its line is the mark's, and a list is *)
(* being read exactly from its bracket on.                                   *)
TypeOK ==
    /\ order \in Orders
    /\ status \in {"reading", "eof", "error"}
    /\ 0 <= mark /\ mark <= given /\ given <= Len(text)
    /\ line = Newlines(SubSeq(text, 1, mark))
    /\ \A i \in 1..Len(open) :
           /\ open[i].want \in {"item", "tail", "closer"}
           /\ text[open[i].from + 1] = "("
           /\ i > 1 => open[i].from > open[i - 1].from

(* x_sexp_list_read_next: wherever the input stops, the reader stops too.    *)
Terminates == <>(status # "reading")
=============================================================================
