----------------------------- MODULE InputProofs -----------------------------
(* The two parts of the input side.  For any number of files, guards and     *)
(* failures, and without re-entered continuations, the input stacks follow   *)
(* the C stack and no descriptor leaks; and for any text, what the reader    *)
(* hands over carries the right lines.                                       *)
EXTENDS Input, ReaderPromise, FiniteSetTheorems, SequenceTheorems, NaturalsInduction, WellFoundedInduction, TLAPS

IsHead(s, t) == Len(s) <= Len(t) /\ \A k \in 1..Len(s) : s[k] = t[k]

(* What the two properties need to be inductive: along the C stack the       *)
(* inputs found on entry extend one another, so the chain a guard cuts back  *)
(* still begins with the guard's own.                                        *)
Nested ==
    /\ \A i, j \in 1..Len(stack) :
          i <= j => IsHead(stack[i].entry.filein, stack[j].entry.filein)
    /\ ~exited => \A i \in 1..Len(stack) : IsHead(stack[i].entry.filein, filein)

Inv == TypeOK /\ FollowsStack /\ HeldOnce /\ Nested

-----------------------------------------------------------------------------
LEMMA Appended ==
    ASSUME NEW S, NEW s \in Seq(S), NEW x \in S
    PROVE  /\ Append(s, x) \in Seq(S)
           /\ Len(Append(s, x)) = Len(s) + 1
           /\ \A k \in 1..Len(s) : Append(s, x)[k] = s[k]
           /\ Append(s, x)[Len(s) + 1] = x
           /\ Popped(Append(s, x)) = s
           /\ Top(Append(s, x)) = x
<1>1. /\ Append(s, x) \in Seq(S) /\ Append(s, x) # <<>>
      /\ Len(Append(s, x)) = Len(s) + 1
      /\ \A k \in 1..Len(s) : Append(s, x)[k] = s[k]
      /\ Append(s, x)[Len(s) + 1] = x
  BY AppendProperties
<1>2. Len(s) \in Nat
  BY LenProperties
<1>3. SubSeq(Append(s, x), 1, Len(s)) = s
  <2>1. Len(SubSeq(Append(s, x), 1, Len(s))) = Len(s)
    BY <1>1, <1>2, SubSeqProperties
  <2>2. \A k \in 1..Len(s) : SubSeq(Append(s, x), 1, Len(s))[k] = s[k]
    BY <1>1, <1>2, SubSeqProperties
  <2>3. SubSeq(Append(s, x), 1, Len(s)) \in Seq(S)
    BY <1>1, <1>2, SubSeqProperties
  <2> QED
    BY <2>1, <2>2, <2>3, SeqEqual
<1> QED
  BY <1>1, <1>2, <1>3 DEF Popped, Top

LEMMA Fronted ==
    ASSUME NEW S, NEW s \in Seq(S), NEW n \in 0..Len(s)
    PROVE  /\ SubSeq(s, 1, n) \in Seq(S)
           /\ Len(SubSeq(s, 1, n)) = n
           /\ \A k \in 1..n : SubSeq(s, 1, n)[k] = s[k]
BY SubSeqProperties, LenProperties

LEMMA HeadIsFront ==
    ASSUME NEW S, NEW s \in Seq(S), NEW t \in Seq(S), IsHead(s, t)
    PROVE  SubSeq(t, 1, Len(s)) = s
<1>1. Len(s) \in 0..Len(t)
  BY LenProperties DEF IsHead
<1>2. /\ SubSeq(t, 1, Len(s)) \in Seq(S)
      /\ Len(SubSeq(t, 1, Len(s))) = Len(s)
      /\ \A k \in 1..Len(s) : SubSeq(t, 1, Len(s))[k] = t[k]
  BY <1>1, Fronted
<1> QED
  BY <1>2, SeqEqual DEF IsHead

-----------------------------------------------------------------------------
LEMMA InvInit == Init => Inv
<1> SUFFICES ASSUME Init PROVE Inv
  OBVIOUS
<1>1. TypeOK
  <2>1. <<Driver>> \in Seq(Cell) /\ <<>> \in Seq(Frame)
    BY InputAssumption
  <2> QED
    BY <2>1, InputAssumption DEF Init, TypeOK
<1>2. FollowsStack
  BY DEF Init, FollowsStack, Now, Outermost
<1>3. HeldOnce
  <2>1. Len(filein) = 1 /\ filein[1] = Driver
    BY DEF Init
  <2> QED
    BY <2>1, InputAssumption DEF Init, HeldOnce
<1>4. Nested
  BY DEF Init, Nested
<1> QED
  BY <1>1, <1>2, <1>3, <1>4 DEF Inv

(* The parts of a frame, and what holds of the input while the process runs. *)
LEMMA FrameFacts ==
    ASSUME TypeOK, NEW i \in 1..Len(stack)
    PROVE  /\ stack[i] \in Frame
           /\ stack[i].entry \in Heads
           /\ stack[i].entry.filein \in Seq(Cell)
           /\ stack[i].cell \in Cell /\ stack[i].fd \in Fd
<1>1. stack \in Seq(Frame)
  BY DEF TypeOK
<1>2. stack[i] \in Frame
  BY <1>1, ElementOfSeq
<1>3. /\ stack[i].entry \in Heads
      /\ stack[i].cell \in Cell /\ stack[i].fd \in Fd
  BY <1>2 DEF Frame
<1> QED
  BY <1>2, <1>3 DEF Heads

(* An error, with whatever latch its read has set: the process ends, or the  *)
(* innermost guard has its own input back.                                   *)
LEMMA InvRaise ==
    ASSUME Inv, UNCHANGED program, ~exited, NEW ends, Raise(ends),
           latched' \subseteq Cell, ended' \subseteq Fd, sigint' \in BOOLEAN
    PROVE  Inv'
<1> USE DEF Inv
<1>1. CASE exited' = TRUE /\ UNCHANGED <<heads, fdOf, open, stack, cont>>
  <2>1. TypeOK'
    BY <1>1 DEF TypeOK, heads
  <2>2. FollowsStack' /\ Nested'
    BY <1>1 DEF FollowsStack, Nested, heads, Inside
  <2>3. HeldOnce'
    BY <1>1 DEF HeldOnce, heads
  <2> QED
    BY <2>1, <2>2, <2>3
<1>2. CASE \E g \in Guards :
              /\ open' = open \ Closed(Cut(stack[g].entry), ends)
              /\ Unwound(stack[g].entry)
              /\ stack' = Append(SubSeq(stack, 1, g - 1), [stack[g] EXCEPT !.what = "handling"])
              /\ UNCHANGED <<fdOf, cont, exited>>
  <2>1. PICK g \in Guards :
              /\ open' = open \ Closed(Cut(stack[g].entry), ends)
              /\ Unwound(stack[g].entry)
              /\ stack' = Append(SubSeq(stack, 1, g - 1), [stack[g] EXCEPT !.what = "handling"])
              /\ UNCHANGED <<fdOf, cont, exited>>
    BY <1>2
  <2> DEFINE e == stack[g].entry
             h == [stack[g] EXCEPT !.what = "handling"]
             n == Len(e.filein)
  <2>2. /\ g \in 1..Len(stack) /\ stack[g].what = "guard"
        /\ stack \in Seq(Frame) /\ Len(stack) \in Nat
    BY LenProperties DEF Guards, TypeOK
  <2>3. /\ stack[g] \in Frame /\ e \in Heads /\ e.filein \in Seq(Cell)
        /\ h \in Frame /\ h.entry = e /\ h.what = "handling"
    BY <2>2, FrameFacts DEF Frame
  <2>4. /\ SubSeq(stack, 1, g - 1) \in Seq(Frame)
        /\ Len(SubSeq(stack, 1, g - 1)) = g - 1
        /\ \A k \in 1..g-1 : SubSeq(stack, 1, g - 1)[k] = stack[k]
    BY <2>2, Fronted
  <2>5. /\ stack' \in Seq(Frame) /\ Len(stack') = g
        /\ \A k \in 1..g-1 : stack'[k] = stack[k]
        /\ stack'[g] = h
    BY <2>1, <2>2, <2>3, <2>4, Appended
  <2>e. \A i \in 1..g : stack'[i].entry = stack[i].entry
    <3>1. ASSUME NEW i \in 1..g, i # g PROVE stack'[i].entry = stack[i].entry
      <4>1. i \in 1..g-1
        BY <2>2, <3>1
      <4> QED
        BY <2>5, <4>1
    <3>2. stack'[g].entry = stack[g].entry
      BY <2>3, <2>5
    <3> QED
      BY <3>1, <3>2
  <2>6. filein' = e.filein /\ buffer' = e.buffer /\ line' = e.line
    BY <2>1 DEF Unwound
  <2>7. TypeOK'
    BY <2>1, <2>3, <2>5, <2>6 DEF TypeOK, Heads
  <2>8. FollowsStack'
    <3>2. \A i \in 1..g-1 : Inside(stack'[i]) = Inside(stack[i])
      BY <2>5
    <3>3. ASSUME NEW i \in 1..g
          PROVE  stack'[i].entry = IF i = 1 THEN Outermost ELSE Inside(stack'[i-1])
      BY <2>2, <2>e, <3>2 DEF FollowsStack
    <3>4. Now' = e
      BY <2>3, <2>6 DEF Now, Heads
    <3>5. Inside(Top(stack')) = e /\ stack' # <<>>
      BY <2>2, <2>3, <2>5 DEF Inside, Top
    <3> QED
      BY <2>5, <3>3, <3>4, <3>5 DEF FollowsStack, Inside, Outermost
  <2>9. Nested'
    <3>1. \A i, j \in 1..g : i <= j => IsHead(stack'[i].entry.filein, stack'[j].entry.filein)
      BY <2>2, <2>e DEF Nested
    <3>2. \A i \in 1..g : IsHead(stack'[i].entry.filein, filein')
      BY <2>2, <2>6, <2>e DEF Nested
    <3> QED
      BY <2>5, <3>1, <3>2 DEF Nested
  <2>10. HeldOnce'
    <3>1. filein \in Seq(Cell) /\ Len(filein) \in Nat /\ n \in Nat
      BY <2>3, LenProperties DEF TypeOK
    <3>2. n <= Len(filein) /\ \A k \in 1..n : e.filein[k] = filein[k]
      BY <2>2 DEF Nested, IsHead
    <3>5. open' = {fdOf[filein[i]] : i \in 1..n}
      <4>1. open = {fdOf[filein[i]] : i \in 1..Len(filein)}
        BY DEF HeldOnce
      <4>2. open' = open \ {fdOf[filein[i]] : i \in n+1..Len(filein)}
        BY <2>1 DEF Closed, Cut
      <4>3. \A i, j \in 1..Len(filein) : fdOf[filein[i]] = fdOf[filein[j]] => i = j
        BY DEF HeldOnce
      <4> QED
        BY <3>1, <3>2, <4>1, <4>2, <4>3
    <3>6. open' = {fdOf'[filein'[i]] : i \in 1..Len(filein')}
      <4>1. Len(filein') = n /\ \A i \in 1..n : fdOf'[filein'[i]] = fdOf[filein[i]]
        BY <2>1, <2>6, <3>2
      <4> QED
        BY <3>5, <4>1
    <3>7. \A i, j \in 1..Len(filein') : fdOf'[filein'[i]] = fdOf'[filein'[j]] => i = j
      <4>1. ASSUME NEW i \in 1..n, NEW j \in 1..n, fdOf[e.filein[i]] = fdOf[e.filein[j]]
            PROVE  i = j
        <5>1. /\ i \in 1..Len(filein) /\ j \in 1..Len(filein)
              /\ fdOf[filein[i]] = fdOf[filein[j]]
          BY <3>1, <3>2, <4>1
        <5> QED
          BY <5>1 DEF HeldOnce
      <4> QED
        BY <2>1, <2>6, <4>1
    <3>8. \A i \in 1..Len(stack') :
             stack'[i].what = "include" => fdOf'[stack'[i].cell] = stack'[i].fd
      <4>1. ASSUME NEW i \in 1..g, stack'[i].what = "include"
            PROVE  stack'[i] = stack[i] /\ i \in 1..Len(stack)
        <5>1. i # g
          BY <2>3, <2>5, <4>1
        <5>2. i \in 1..g-1 /\ i \in 1..Len(stack)
          BY <2>2, <5>1
        <5> QED
          BY <2>5, <5>2
      <4> QED
        BY <2>1, <2>5, <4>1 DEF HeldOnce
    <3> QED
      BY <3>6, <3>7, <3>8 DEF HeldOnce
  <2> QED
    BY <2>7, <2>8, <2>9, <2>10
<1> QED
  BY <1>1, <1>2 DEF Raise

-----------------------------------------------------------------------------
(* include: the new cell is in no list and the new descriptor is not open.   *)
LEMMA InvInclude ==
    ASSUME Inv, UNCHANGED program, Include
    PROVE  Inv'
<1> USE DEF Inv
<1>1. PICK fd \in Fd \ open, c \in FreeCell :
         /\ open' = open \cup {fd}
         /\ fdOf' = [fdOf EXCEPT ![c] = fd]
         /\ latched' = latched \ {c}
         /\ ended' = ended \ {fd}
         /\ filein' = Append(filein, c)
         /\ buffer' = Append(buffer, c)
         /\ line' = Append(line, c)
         /\ stack' = Append(stack, [what |-> "include", cell |-> c, fd |-> fd, entry |-> Now])
  BY DEF Include
<1> DEFINE f == [what |-> "include", cell |-> c, fd |-> fd, entry |-> Now]
           m == Len(stack)
           n == Len(filein)
<1>2. ~exited /\ UNCHANGED <<sigint, cont, exited>>
  BY DEF Include, Reading
<1>3. /\ c \in Cell /\ \A i \in 1..n : filein[i] # c
      /\ \A i \in 1..m : stack[i].cell # c
  <2>1. c \in Cell /\ c \notin Range(filein) /\ c \notin CellsOf(stack)
    BY <1>1 DEF FreeCell
  <2>2. filein \in Seq(Cell) /\ DOMAIN filein = 1..n
    BY LenProperties DEF TypeOK
  <2> QED
    BY <2>1, <2>2 DEF Range, CellsOf
<1>4. /\ filein \in Seq(Cell) /\ buffer \in Seq(Cell) /\ line \in Seq(Cell)
      /\ stack \in Seq(Frame) /\ m \in Nat /\ n \in Nat
  BY LenProperties DEF TypeOK
<1>5. Now \in Heads /\ f \in Frame
  BY <1>1, <1>3, <1>4 DEF Now, Heads, Frame
<1>6. /\ filein' \in Seq(Cell) /\ buffer' \in Seq(Cell) /\ line' \in Seq(Cell)
      /\ Len(filein') = n + 1 /\ \A k \in 1..n : filein'[k] = filein[k]
      /\ filein'[n + 1] = c
  BY <1>1, <1>3, <1>4, Appended
<1>7. /\ stack' \in Seq(Frame) /\ Len(stack') = m + 1 /\ Top(stack') = f
      /\ \A k \in 1..m : stack'[k] = stack[k]
      /\ stack'[m + 1] = f
  BY <1>1, <1>4, <1>5, Appended
<1>8. TypeOK'
  BY <1>1, <1>2, <1>3, <1>6, <1>7 DEF TypeOK
<1>9. FollowsStack'
  <2>1. Now' = Inside(f)
    BY <1>1, <1>4 DEF Now, Inside
  <2>2. f.entry = IF m = 0 THEN Outermost ELSE Inside(stack[m])
    BY <1>2, <1>4 DEF FollowsStack, Top
  <2>3. ASSUME NEW i \in 1..m+1
        PROVE  stack'[i].entry = IF i = 1 THEN Outermost ELSE Inside(stack'[i-1])
    <3>1. CASE i = m + 1
      BY <1>4, <1>7, <2>2, <3>1
    <3>2. CASE i \in 1..m
      <4>1. stack[i].entry = IF i = 1 THEN Outermost ELSE Inside(stack[i-1])
        BY <3>2 DEF FollowsStack
      <4>2. i = 1 \/ i - 1 \in 1..m
        BY <1>4, <3>2
      <4> QED
        BY <1>7, <3>2, <4>1, <4>2
    <3> QED
      BY <1>4, <3>1, <3>2
  <2>4. stack' # <<>>
    BY <1>4, <1>7
  <2> QED
    BY <1>7, <2>1, <2>3, <2>4 DEF FollowsStack, Outermost, Inside
<1>10. Nested'
  <2>1. f.entry.filein = filein
    BY DEF Now
  <2>2. ASSUME NEW i \in 1..m+1
        PROVE  IsHead(stack'[i].entry.filein, filein) /\ IsHead(stack'[i].entry.filein, filein')
    <3>1. CASE i = m + 1
      BY <1>4, <1>6, <1>7, <2>1, <3>1 DEF IsHead
    <3>2. CASE i \in 1..m
      <4>1. IsHead(stack[i].entry.filein, filein)
        BY <1>2, <3>2 DEF Nested
      <4>2. Len(stack[i].entry.filein) \in Nat
        BY <3>2, FrameFacts, LenProperties
      <4>3. stack'[i].entry = stack[i].entry
        BY <1>7, <3>2
      <4>4. /\ Len(stack[i].entry.filein) <= n
            /\ \A k \in 1..Len(stack[i].entry.filein) :
                  k \in 1..n /\ stack[i].entry.filein[k] = filein[k]
        BY <1>4, <4>1, <4>2 DEF IsHead
      <4>5. IsHead(stack[i].entry.filein, filein')
        <5>1. Len(stack[i].entry.filein) <= Len(filein')
          BY <1>4, <1>6, <4>2, <4>4
        <5>2. \A k \in 1..Len(stack[i].entry.filein) : stack[i].entry.filein[k] = filein'[k]
          BY <1>6, <4>4
        <5> QED
          BY <5>1, <5>2 DEF IsHead
      <4> QED
        BY <4>1, <4>3, <4>5
    <3> QED
      BY <1>4, <3>1, <3>2
  <2>3. ASSUME NEW i \in 1..m+1, NEW j \in 1..m+1, i <= j
        PROVE  IsHead(stack'[i].entry.filein, stack'[j].entry.filein)
    <3>1. CASE j = m + 1
      BY <1>7, <2>1, <2>2, <3>1
    <3>2. CASE j \in 1..m
      <4>1. i \in 1..m
        BY <1>4, <2>3, <3>2
      <4> QED
        BY <1>7, <2>3, <3>2, <4>1 DEF Nested
    <3> QED
      BY <1>4, <3>1, <3>2
  <2> QED
    BY <1>7, <2>2, <2>3 DEF Nested
<1>11. HeldOnce'
  <2>1. /\ fdOf \in [Cell -> Fd] /\ fdOf'[c] = fd
        /\ \A x \in Cell : x # c => fdOf'[x] = fdOf[x]
    BY <1>1, <1>3 DEF TypeOK
  <2>2. \A i \in 1..n : filein[i] \in Cell /\ fdOf'[filein'[i]] = fdOf[filein[i]]
    BY <1>3, <1>4, <1>6, <2>1, ElementOfSeq
  <2>3. fdOf'[filein'[n + 1]] = fd
    BY <1>6, <2>1
  <2>4. open = {fdOf[filein[i]] : i \in 1..n} /\ fd \notin open
    BY <1>1, <1>2 DEF HeldOnce
  <2>5. open' = {fdOf'[filein'[i]] : i \in 1..n+1}
    <3>1. 1..n+1 = (1..n) \cup {n+1}
      BY <1>4
    <3>2. {fdOf'[filein'[i]] : i \in 1..n} = open
      BY <2>2, <2>4
    <3>3. {fdOf'[filein'[i]] : i \in 1..n+1} = {fdOf'[filein'[i]] : i \in 1..n} \cup {fdOf'[filein'[n+1]]}
      BY <3>1
    <3> QED
      BY <1>1, <2>3, <3>2, <3>3
  <2>6. ASSUME NEW i \in 1..n+1, NEW j \in 1..n+1, fdOf'[filein'[i]] = fdOf'[filein'[j]]
        PROVE  i = j
    <3>1. CASE i \in 1..n /\ j \in 1..n
      BY <2>2, <2>6, <3>1 DEF HeldOnce
    <3>2. \A k \in 1..n : fdOf'[filein'[k]] # fd
      BY <2>2, <2>4
    <3>3. CASE i = n + 1 \/ j = n + 1
      <4>1. fdOf'[filein'[i]] = fd /\ fdOf'[filein'[j]] = fd
        BY <2>3, <2>6, <3>3
      <4>2. i \notin 1..n /\ j \notin 1..n
        BY <3>2, <4>1
      <4> QED
        BY <1>4, <4>2
    <3> QED
      BY <1>4, <3>1, <3>3
  <2>7. ASSUME NEW i \in 1..m+1, stack'[i].what = "include"
        PROVE  fdOf'[stack'[i].cell] = stack'[i].fd
    <3>1. CASE i = m + 1
      BY <1>7, <2>1, <3>1
    <3>2. CASE i \in 1..m
      BY <1>3, <1>7, <2>1, <2>7, <3>2, FrameFacts DEF HeldOnce
    <3> QED
      BY <1>4, <3>1, <3>2
  <2> QED
    BY <1>6, <1>7, <2>5, <2>6, <2>7 DEF HeldOnce
<1> QED
  BY <1>8, <1>9, <1>10, <1>11

-----------------------------------------------------------------------------
(* A frame leaves: what its caller reads from is what it found on entry.     *)
LEMMA EntryIsOutside ==
    ASSUME Inv, UNCHANGED program, stack # <<>>
    PROVE  /\ Len(stack) \in Nat \ {0} /\ Top(stack) = stack[Len(stack)]
           /\ Popped(stack) \in Seq(Frame) /\ Len(Popped(stack)) = Len(stack) - 1
           /\ \A k \in 1..Len(stack)-1 : Popped(stack)[k] = stack[k]
           /\ Top(stack).entry = IF Popped(stack) = <<>> THEN Outermost
                                 ELSE Inside(Top(Popped(stack)))
<1> DEFINE m == Len(stack)
<1>1. stack \in Seq(Frame)
  BY DEF Inv, TypeOK
<1>2. m \in Nat \ {0} /\ Top(stack) = stack[m]
  BY <1>1, LenProperties, EmptySeq DEF Top
<1>3. m - 1 \in 0..m
  BY <1>2
<1>4. /\ Popped(stack) \in Seq(Frame) /\ Len(Popped(stack)) = m - 1
      /\ \A k \in 1..m-1 : Popped(stack)[k] = stack[k]
  BY <1>1, <1>3, Fronted DEF Popped
<1>5. stack[m].entry = IF m = 1 THEN Outermost ELSE Inside(stack[m-1])
  <2>1. \A i \in 1..m : stack[i].entry = IF i = 1 THEN Outermost ELSE Inside(stack[i-1])
    BY DEF Inv, FollowsStack
  <2>2. m \in 1..m
    BY <1>2
  <2> QED
    BY <2>1, <2>2
<1>6. CASE m = 1
  BY <1>2, <1>4, <1>5, <1>6, EmptySeq
<1>7. CASE m # 1
  <2>1. m - 1 \in 1..m-1 /\ Popped(stack) # <<>>
    BY <1>2, <1>4, <1>7, EmptySeq
  <2>2. Top(Popped(stack)) = stack[m - 1]
    BY <1>4, <2>1 DEF Top
  <2> QED
    BY <1>2, <1>4, <1>5, <1>7, <2>1, <2>2
<1> QED
  BY <1>6, <1>7

(* Any step that pops the innermost frame and makes its entry current.       *)
LEMMA PoppedKeeps ==
    ASSUME Inv, UNCHANGED program, stack # <<>>, stack' = Popped(stack), ~exited, exited' = exited,
           Now' = Top(stack).entry
    PROVE  FollowsStack' /\ Nested'
<1> DEFINE m == Len(stack)
<1>1. /\ m \in Nat \ {0} /\ Top(stack) = stack[m] /\ Len(stack') = m - 1
      /\ \A k \in 1..m-1 : stack'[k] = stack[k]
      /\ Top(stack).entry = IF stack' = <<>> THEN Outermost ELSE Inside(Top(stack'))
  BY EntryIsOutside
<1>2. ASSUME NEW i \in 1..m-1
      PROVE  stack'[i].entry = IF i = 1 THEN Outermost ELSE Inside(stack'[i-1])
  <2>1. stack[i].entry = IF i = 1 THEN Outermost ELSE Inside(stack[i-1])
    BY <1>1 DEF Inv, FollowsStack
  <2>2. i = 1 \/ i - 1 \in 1..m-1
    BY <1>1
  <2> QED
    BY <1>1, <2>1, <2>2
<1>3. FollowsStack'
  BY <1>1, <1>2 DEF FollowsStack, Outermost, Inside
<1>4. filein' = stack[m].entry.filein
  BY <1>1 DEF Now
<1>5. Nested'
  <2>1. \A i, j \in 1..m : i <= j => IsHead(stack[i].entry.filein, stack[j].entry.filein)
    BY DEF Inv, Nested
  <2>2. \A i \in 1..m-1 : i \in 1..m /\ i <= m /\ m \in 1..m
    BY <1>1
  <2> QED
    BY <1>1, <1>4, <2>1, <2>2 DEF Nested
<1> QED
  BY <1>3, <1>5

LEMMA InvIncluded ==
    ASSUME Inv, UNCHANGED program, Included
    PROVE  Inv'
<1> USE DEF Inv
<1> DEFINE m == Len(stack)
           f == stack[m]
           n == Len(f.entry.filein)
<1>1. /\ ~exited /\ stack # <<>> /\ Top(stack).what = "include"
      /\ filein' = Popped(filein) /\ buffer' = Popped(buffer) /\ line' = Popped(line)
      /\ open' = open \ {Top(stack).fd}
      /\ stack' = Popped(stack)
      /\ UNCHANGED <<fdOf, latched, ended, sigint, cont, exited>>
  BY DEF Included, Reading
<1>2. /\ m \in Nat \ {0} /\ Top(stack) = f /\ Len(stack') = m - 1
      /\ stack' \in Seq(Frame) /\ \A k \in 1..m-1 : stack'[k] = stack[k]
  BY <1>1, EntryIsOutside
<1>3. f \in Frame /\ f.entry \in Heads /\ f.cell \in Cell /\ f.fd \in Fd
  BY <1>2, FrameFacts
<1>4. /\ f.entry.filein \in Seq(Cell) /\ f.entry.buffer \in Seq(Cell)
      /\ f.entry.line \in Seq(Cell) /\ n \in Nat /\ n = Len(f.entry.filein)
      /\ f.entry = [filein |-> f.entry.filein, buffer |-> f.entry.buffer, line |-> f.entry.line]
  BY <1>3, LenProperties DEF Heads
<1>5. /\ filein = Append(f.entry.filein, f.cell)
      /\ buffer = Append(f.entry.buffer, f.cell)
      /\ line = Append(f.entry.line, f.cell)
  BY <1>1, <1>2 DEF FollowsStack, Inside, Now
<1> HIDE DEF n, f
<1>6. filein' = f.entry.filein /\ buffer' = f.entry.buffer /\ line' = f.entry.line
  BY <1>1, <1>3, <1>4, <1>5, Appended
<1>7. TypeOK'
  BY <1>1, <1>2, <1>4, <1>6 DEF TypeOK
<1>8. Now' = f.entry
  BY <1>4, <1>6 DEF Now
<1>9. FollowsStack' /\ Nested'
  BY <1>1, <1>2, <1>8, PoppedKeeps
<1>10. HeldOnce'
  <2>1. /\ Len(filein) = n + 1 /\ filein[n + 1] = f.cell
        /\ \A k \in 1..n : filein[k] = filein'[k]
    BY <1>3, <1>4, <1>5, <1>6, Appended
  <2>2. fdOf[f.cell] = f.fd
    BY <1>1, <1>2 DEF HeldOnce, f
  <2>3. \A i, j \in 1..n+1 : fdOf[filein[i]] = fdOf[filein[j]] => i = j
    BY <2>1 DEF HeldOnce
  <2>4. open = {fdOf[filein[i]] : i \in 1..n+1}
    BY <1>1, <2>1 DEF HeldOnce
  <2>5. open' = {fdOf[filein[i]] : i \in 1..n}
    <3>1. 1..n+1 = (1..n) \cup {n+1} /\ n + 1 \notin 1..n
      BY <1>4
    <3>2. open = {fdOf[filein[i]] : i \in 1..n} \cup {f.fd}
      <4>1. {fdOf[filein[i]] : i \in 1..n+1} = {fdOf[filein[i]] : i \in 1..n} \cup {fdOf[filein[n+1]]}
        BY <3>1
      <4>2. fdOf[filein[n+1]] = f.fd
        BY <2>1, <2>2
      <4> QED
        BY <2>4, <4>1, <4>2
    <3>3. f.fd \notin {fdOf[filein[i]] : i \in 1..n}
      BY <2>1, <2>2, <2>3, <3>1
    <3> QED
      BY <1>1, <1>2, <3>2, <3>3
  <2>6. open' = {fdOf'[filein'[i]] : i \in 1..Len(filein')}
    <3>1. Len(filein') = n /\ fdOf' = fdOf
      BY <1>1, <1>4, <1>6
    <3>2. \A i \in 1..n : fdOf'[filein'[i]] = fdOf[filein[i]]
      BY <2>1, <3>1
    <3> QED
      BY <2>5, <3>1, <3>2
  <2>7. ASSUME NEW i \in 1..n, NEW j \in 1..n, fdOf[filein'[i]] = fdOf[filein'[j]]
        PROVE  i = j
    <3>1. i \in 1..n+1 /\ j \in 1..n+1 /\ filein[i] = filein'[i] /\ filein[j] = filein'[j]
      BY <1>4, <2>1
    <3> QED
      BY <2>3, <2>7, <3>1
  <2>8. \A k \in 1..m-1 : k \in 1..m /\ stack'[k] = stack[k]
    BY <1>2
  <2>9. \A k \in 1..Len(stack') : stack'[k].what = "include" => fdOf'[stack'[k].cell] = stack'[k].fd
    BY <1>1, <1>2, <2>8 DEF HeldOnce
  <2>10. \A i, j \in 1..Len(filein') : fdOf'[filein'[i]] = fdOf'[filein'[j]] => i = j
    BY <1>1, <1>4, <1>6, <2>7
  <2> QED
    BY <2>6, <2>9, <2>10 DEF HeldOnce
<1> QED
  BY <1>7, <1>9, <1>10

(* A guard is entered, or answers: the input is not touched.                 *)
LEMMA InvGuard ==
    ASSUME Inv, UNCHANGED program, Guard
    PROVE  Inv'
<1> USE DEF Inv
<1> DEFINE f == [what |-> "guard", cell |-> Driver, fd |-> Stdin, entry |-> Now]
           m == Len(stack)
<1>1. /\ ~exited /\ stack' = Append(stack, f)
      /\ UNCHANGED <<heads, fdOf, latched, open, ended, sigint, cont, exited>>
  BY DEF Guard, Reading
<1>2. /\ filein \in Seq(Cell) /\ stack \in Seq(Frame) /\ f \in Frame
      /\ m \in Nat /\ Len(filein) \in Nat
  BY InputAssumption, LenProperties DEF TypeOK, Frame, Heads, Now
<1>3. /\ stack' \in Seq(Frame) /\ Len(stack') = m + 1 /\ Top(stack') = f
      /\ \A k \in 1..m : stack'[k] = stack[k]
      /\ stack'[m + 1] = f
  BY <1>1, <1>2, Appended
<1>4. TypeOK'
  BY <1>1, <1>3 DEF TypeOK, heads
<1>5. f.entry = IF m = 0 THEN Outermost ELSE Inside(stack[m])
  BY <1>1, <1>2 DEF FollowsStack, Top
<1>6. FollowsStack'
  <2>1. Now' = Inside(f)
    BY <1>1 DEF Now, Inside, heads
  <2>2. ASSUME NEW i \in 1..m+1
        PROVE  stack'[i].entry = IF i = 1 THEN Outermost ELSE Inside(stack'[i-1])
    <3>1. CASE i = m + 1
      BY <1>2, <1>3, <1>5, <3>1
    <3>2. CASE i \in 1..m
      <4>1. stack[i].entry = IF i = 1 THEN Outermost ELSE Inside(stack[i-1])
        BY <3>2 DEF FollowsStack
      <4>2. i = 1 \/ i - 1 \in 1..m
        BY <1>2, <3>2
      <4> QED
        BY <1>3, <3>2, <4>1, <4>2
    <3> QED
      BY <1>2, <3>1, <3>2
  <2>3. stack' # <<>>
    BY <1>2, <1>3
  <2>4. ~exited' => Now' = Inside(Top(stack'))
    BY <1>3, <2>1
  <2>5. \A i \in 1..m+1 : stack'[i].entry = IF i = 1 THEN Outermost ELSE Inside(stack'[i-1])
    BY <2>2
  <2> QED
    BY <1>3, <2>3, <2>4, <2>5 DEF FollowsStack, Outermost, Inside
<1>7. Nested'
  <2>1. f.entry.filein = filein /\ IsHead(filein, filein)
    BY <1>2 DEF Now, IsHead
  <2>2. ASSUME NEW i \in 1..m+1
        PROVE  IsHead(stack'[i].entry.filein, filein)
    <3>1. CASE i = m + 1
      BY <1>3, <2>1, <3>1
    <3>2. CASE i \in 1..m
      BY <1>1, <1>3, <3>2 DEF Nested
    <3> QED
      BY <1>2, <3>1, <3>2
  <2>3. ASSUME NEW i \in 1..m+1, NEW j \in 1..m+1, i <= j
        PROVE  IsHead(stack'[i].entry.filein, stack'[j].entry.filein)
    <3>1. CASE j = m + 1
      BY <1>3, <2>1, <2>2, <3>1
    <3>2. CASE j \in 1..m
      <4>1. i \in 1..m
        BY <1>2, <2>3, <3>2
      <4> QED
        BY <1>3, <2>3, <3>2, <4>1 DEF Nested
    <3> QED
      BY <1>2, <3>1, <3>2
  <2>4. filein' = filein
    BY <1>1 DEF heads
  <2> QED
    BY <1>3, <2>2, <2>3, <2>4 DEF Nested
<1>8. HeldOnce'
  <2>1. ASSUME NEW i \in 1..m+1, stack'[i].what = "include"
        PROVE  stack'[i] = stack[i] /\ i \in 1..m
    BY <1>2, <1>3, <2>1
  <2> QED
    BY <1>1, <1>3, <2>1 DEF HeldOnce, heads
<1> QED
  BY <1>4, <1>6, <1>7, <1>8

LEMMA InvGuarded ==
    ASSUME Inv, UNCHANGED program, Guarded
    PROVE  Inv'
<1> USE DEF Inv
<1> DEFINE m == Len(stack)
<1>1. /\ ~exited /\ stack # <<>> /\ Top(stack).what # "include"
      /\ stack' = Popped(stack)
      /\ UNCHANGED <<heads, fdOf, latched, open, ended, sigint, cont, exited>>
  BY DEF Guarded, Reading
<1>2. /\ m \in Nat \ {0} /\ Len(stack') = m - 1
      /\ stack' \in Seq(Frame) /\ \A k \in 1..m-1 : stack'[k] = stack[k]
  BY <1>1, EntryIsOutside
<1>3. TypeOK'
  BY <1>1, <1>2 DEF TypeOK, heads
<1>4. Now' = Top(stack).entry
  BY <1>1 DEF FollowsStack, Inside, Now, heads
<1>5. FollowsStack' /\ Nested'
  BY <1>1, <1>4, PoppedKeeps
<1>6. HeldOnce'
  <2>1. \A k \in 1..m-1 : k \in 1..m /\ stack'[k] = stack[k]
    BY <1>2
  <2> QED
    BY <1>1, <1>2, <2>1 DEF HeldOnce, heads
<1> QED
  BY <1>3, <1>5, <1>6

-----------------------------------------------------------------------------
(* Steps that touch neither the stacks nor the descriptors.                  *)
LEMMA InvFlags ==
    ASSUME Inv, UNCHANGED program, UNCHANGED <<heads, fdOf, open, stack, cont, exited>>,
           latched' \subseteq Cell, ended' \subseteq Fd, sigint' \in BOOLEAN
    PROVE  Inv'
<1> USE DEF Inv
<1>1. TypeOK'
  BY DEF TypeOK, heads
<1>2. FollowsStack' /\ Nested'
  BY DEF FollowsStack, Nested, heads, Now
<1>3. HeldOnce'
  BY DEF HeldOnce, heads
<1> QED
  BY <1>1, <1>2, <1>3

LEMMA InvRead ==
    ASSUME Inv, UNCHANGED program, NEW outcome \in Outcome, Read(outcome)
    PROVE  Inv'
<1> DEFINE c == Top(filein)
<1>1. /\ filein \in Seq(Cell) /\ filein # <<>> /\ ~exited
      /\ latched \subseteq Cell /\ ended \subseteq Fd /\ sigint \in BOOLEAN
  BY DEF Inv, TypeOK, Read, Reading
<1>2. c \in Cell
  BY <1>1, LenProperties, EmptySeq, ElementOfSeq DEF Top
<1>3. latched' \subseteq Cell
  BY <1>1, <1>2 DEF Read, Latched
<1>4. sigint' \in BOOLEAN
  BY DEF Read
<1>5. ended' \subseteq Fd
  BY <1>1, <1>2 DEF Read, Inv, TypeOK
<1>6. \/ UNCHANGED <<heads, fdOf, open, stack, cont, exited>>
      \/ Raise(latched')
  BY DEF Read
<1> QED
  BY <1>1, <1>3, <1>4, <1>5, <1>6, InvFlags, InvRaise

-----------------------------------------------------------------------------
LEMMA InvNext ==
    ASSUME ~program.conts, Inv, [Next]_vars
    PROVE  Inv'
<1>0. UNCHANGED program
  BY DEF Next, vars
<1>1. CASE UNCHANGED vars
  BY <1>0, <1>1, InvFlags DEF Inv, TypeOK, vars
<1>2. CASE Fail
  BY <1>0, <1>2, InvRaise DEF Fail, Reading, Inv, TypeOK
<1>3. CASE Poll
  BY <1>0, <1>3, InvRaise DEF Poll, Reading, Inv, TypeOK
<1>4. CASE Interrupt
  BY <1>0, <1>4, InvFlags DEF Interrupt, Inv, TypeOK
<1> QED
  BY <1>0, <1>1, <1>2, <1>3, <1>4, InvInclude, InvIncluded, InvRead, InvGuard, InvGuarded
  DEF Next, Step, CallCC, Invoke, TypeOK, Inv

(* A program without call/cc keeps the invariant; none becomes another.      *)
LEMMA InvHolds == Spec => [](Returning => Inv)
<1>1. Init => (Returning => Inv)
  BY InvInit
<1>2. (Returning => Inv) /\ [Next]_vars => (Returning => Inv)'
  BY InvNext DEF Returning, Next, vars
<1> QED
  BY <1>1, <1>2, PTL DEF Spec

(* Without re-entered continuations the input stacks are those of the C      *)
(* stack, through any nesting of includes, guards, errors and interrupts.    *)
THEOREM InputFollowsStack == Spec => []InputMatchesStack
<1>1. (Returning => Inv) => InputMatchesStack
  BY DEF Inv, InputMatchesStack
<1> QED
  BY <1>1, InvHolds, PTL

(* Nor does any descriptor leak, close early or come to be held twice.       *)
THEOREM NoDescriptorLeaks == Spec => []DescriptorsMatchInput
<1>1. (Returning => Inv) => DescriptorsMatchInput
  BY DEF Inv, DescriptorsMatchInput
<1> QED
  BY <1>1, InvHolds, PTL

-----------------------------------------------------------------------------
(* With continuations the stacks may part from the C stack, but not from one *)
(* another: every snapshot a frame or a continuation holds is in step.       *)
Aligned == {f \in Frame : f.entry.filein = f.entry.buffer /\ f.entry.buffer = f.entry.line}

InStep ==
    /\ HeadsInStep /\ filein \in Seq(Cell)
    /\ stack \in Seq(Aligned)
    /\ cont # NoCont => cont \in Seq(Aligned)

LEMMA StepRaise ==
    ASSUME InStep, NEW ends, Raise(ends)
    PROVE  InStep'
<1>1. CASE UNCHANGED <<heads, fdOf, open, stack, cont>>
  BY <1>1 DEF InStep, HeadsInStep, heads
<1>2. CASE \E g \in Guards :
             /\ Unwound(stack[g].entry)
             /\ stack' = Append(SubSeq(stack, 1, g - 1), [stack[g] EXCEPT !.what = "handling"])
             /\ UNCHANGED cont
  <2>1. PICK g \in 1..Len(stack) :
             /\ Unwound(stack[g].entry)
             /\ stack' = Append(SubSeq(stack, 1, g - 1), [stack[g] EXCEPT !.what = "handling"])
             /\ UNCHANGED cont
    BY <1>2 DEF Guards
  <2> DEFINE h == [stack[g] EXCEPT !.what = "handling"]
             s == SubSeq(stack, 1, g - 1)
  <2>2. stack \in Seq(Aligned) /\ Len(stack) \in Nat
    BY LenProperties DEF InStep
  <2>3. stack[g] \in Aligned /\ g - 1 \in 0..Len(stack)
    BY <2>2, ElementOfSeq
  <2>4. h \in Aligned
    BY <2>3 DEF Aligned, Frame
  <2>5. s \in Seq(Aligned)
    BY <2>2, <2>3, Fronted
  <2>6. stack' \in Seq(Aligned)
    BY <2>1, <2>4, <2>5, Appended
  <2>7. HeadsInStep' /\ filein' \in Seq(Cell)
    BY <2>1, <2>3 DEF Unwound, HeadsInStep, Aligned, Frame, Heads
  <2> QED
    BY <2>1, <2>6, <2>7 DEF InStep
<1> QED
  BY <1>1, <1>2 DEF Raise

LEMMA StepInclude ==
    ASSUME InStep, Include
    PROVE  InStep'
<1>1. PICK fd \in Fd, c \in Cell :
         /\ filein' = Append(filein, c)
         /\ buffer' = Append(buffer, c)
         /\ line' = Append(line, c)
         /\ stack' = Append(stack, [what |-> "include", cell |-> c, fd |-> fd, entry |-> Now])
         /\ UNCHANGED cont
  BY DEF Include, FreeCell
<1>2. [what |-> "include", cell |-> c, fd |-> fd, entry |-> Now] \in Aligned
  BY DEF InStep, HeadsInStep, Aligned, Frame, Heads, Now
<1>3. stack' \in Seq(Aligned) /\ filein' \in Seq(Cell)
  BY <1>1, <1>2, Appended DEF InStep
<1> QED
  BY <1>1, <1>3 DEF InStep, HeadsInStep

LEMMA StepPops ==
    ASSUME NEW S, NEW s \in Seq(S), s # <<>>
    PROVE  Popped(s) \in Seq(S)
<1>1. Len(s) \in Nat \ {0}
  BY LenProperties, EmptySeq
<1> QED
  BY <1>1, Fronted DEF Popped

LEMMA StepIncluded ==
    ASSUME InStep, Included
    PROVE  InStep'
<1>1. filein' \in Seq(Cell) /\ stack' \in Seq(Aligned)
  BY StepPops DEF InStep, Included, Reading
<1> QED
  BY <1>1 DEF InStep, HeadsInStep, Included

LEMMA StepGuard ==
    ASSUME InStep, Guard \/ Guarded
    PROVE  InStep'
<1>1. CASE Guard
  <2>1. [what |-> "guard", cell |-> Driver, fd |-> Stdin, entry |-> Now] \in Aligned
    BY InputAssumption DEF InStep, HeadsInStep, Aligned, Frame, Heads, Now
  <2>2. stack' \in Seq(Aligned)
    BY <1>1, <2>1, Appended DEF InStep, Guard
  <2> QED
    BY <1>1, <2>2 DEF InStep, HeadsInStep, Guard, heads
<1>2. CASE Guarded
  <2>1. stack' \in Seq(Aligned)
    BY <1>2, StepPops DEF InStep, Guarded
  <2> QED
    BY <1>2, <2>1 DEF InStep, HeadsInStep, Guarded, heads
<1> QED
  BY <1>1, <1>2

LEMMA StepNext ==
    ASSUME InStep, [Next]_vars
    PROVE  InStep'
<1>1. CASE UNCHANGED vars
  BY <1>1 DEF InStep, HeadsInStep, vars, heads
<1>2. CASE Fail \/ Poll
  BY <1>2, StepRaise DEF Fail, Poll
<1>3. CASE \E outcome \in Outcome : Read(outcome)
  <2>1. PICK outcome \in Outcome : Read(outcome)
    BY <1>3
  <2>2. CASE UNCHANGED <<heads, fdOf, open, stack, cont, exited>>
    BY <2>2 DEF InStep, HeadsInStep, heads
  <2>3. CASE Raise(latched')
    BY <2>3, StepRaise
  <2> QED
    BY <2>1, <2>2, <2>3 DEF Read
<1>4. CASE Interrupt \/ CallCC
  BY <1>4 DEF InStep, HeadsInStep, Interrupt, CallCC, heads
<1>5. CASE Invoke
  BY <1>5 DEF InStep, HeadsInStep, Invoke, heads
<1> QED
  BY <1>1, <1>2, <1>3, <1>4, <1>5, StepInclude, StepIncluded, StepGuard DEF Next, Step

(* Buffers, line counters and descriptors of include and guard never shift   *)
(* against one another, whatever continuations are re-entered.               *)
THEOREM HeadsStayInStep == Spec => []HeadsInStep
<1>1. Init => InStep
  BY InputAssumption, EmptySeq DEF Init, InStep, HeadsInStep
<1>2. InStep => HeadsInStep
  BY DEF InStep
<1> QED
  BY <1>1, <1>2, StepNext, PTL DEF Spec

-----------------------------------------------------------------------------
(* What TypeOK says besides: the stacks are those InStep already speaks of.  *)
Flags ==
    /\ program \in Programs
    /\ fdOf \in [Cell -> Fd]
    /\ latched \subseteq Cell
    /\ open \subseteq Fd
    /\ ended \subseteq Fd
    /\ {sigint, exited} \subseteq BOOLEAN
    /\ program.conts \/ cont = NoCont

LEMMA FlagsRaise ==
    ASSUME Flags, NEW ends, Raise(ends), UNCHANGED program,
           latched' \subseteq Cell, ended' \subseteq Fd, sigint' \in BOOLEAN
    PROVE  Flags'
BY DEF Flags, Raise

LEMMA FlagsRead ==
    ASSUME Flags, InStep, UNCHANGED program, NEW outcome \in Outcome, Read(outcome)
    PROVE  Flags'
<1>1. Top(filein) \in Cell
  BY LenProperties, EmptySeq, ElementOfSeq DEF Top, Read, Reading, InStep
<1>2. latched' \subseteq Cell /\ ended' \subseteq Fd /\ sigint' \in BOOLEAN
  BY <1>1 DEF Read, Latched, Flags
<1>3. CASE UNCHANGED <<heads, fdOf, open, stack, cont, exited>>
  BY <1>2, <1>3 DEF Flags
<1>4. CASE Raise(latched')
  BY <1>2, <1>4, FlagsRaise
<1> QED
  BY <1>3, <1>4 DEF Read

LEMMA FlagsNext ==
    ASSUME Flags, InStep, [Next]_vars
    PROVE  Flags'
<1>0. UNCHANGED program
  BY DEF Next, vars
<1>1. CASE UNCHANGED vars
  BY <1>1 DEF Flags, vars
<1>2. CASE Fail \/ Poll
  BY <1>0, <1>2, FlagsRaise DEF Fail, Poll, Flags
<1>3. CASE Include
  BY <1>0, <1>3 DEF Include, FreeCell, Flags
<1>4. CASE Included \/ Guard \/ Guarded
  BY <1>0, <1>4 DEF Included, Guard, Guarded, Flags
<1>5. CASE Interrupt \/ CallCC \/ Invoke
  BY <1>0, <1>5 DEF Interrupt, CallCC, Invoke, Flags
<1> QED
  BY <1>0, <1>1, <1>2, <1>3, <1>4, <1>5, FlagsRead DEF Next, Step

(* Every variable keeps its type, whatever is read, raised or re-entered.    *)
THEOREM InputTyped == Spec => []TypeOK
<1>1. Init => InStep /\ Flags
  <2>1. Init => InStep
    BY InputAssumption, EmptySeq DEF Init, InStep, HeadsInStep
  <2>2. Init => Flags
    BY InputAssumption DEF Init, Flags
  <2> QED
    BY <2>1, <2>2
<1>2. InStep /\ Flags => TypeOK
  <2>1. Aligned \subseteq Frame
    BY DEF Aligned
  <2>2. stack \in Seq(Aligned) => stack \in Seq(Frame)
    BY <2>1
  <2> QED
    BY <2>2 DEF InStep, HeadsInStep, Flags, TypeOK
<1> QED
  BY <1>1, <1>2, StepNext, FlagsNext, PTL DEF Spec
-----------------------------------------------------------------------------
(* The descriptor of a cell on the input stack has ended only when the cell  *)
(* is latched: what keeps a sticky end of input sticky.                      *)
EndsLatched(L, E) ==
    \A i \in 1..Len(filein) : fdOf[filein[i]] \in E => filein[i] \in L
Sticky == EndsLatched(latched, ended)

(* An error cuts the stack back to what it once was.                         *)
LEMMA StickyRaise ==
    ASSUME filein \in Seq(Cell), NEW L, NEW E, EndsLatched(L, E), NEW ends, Raise(ends),
           L = latched', E = ended'
    PROVE  Sticky'
<1>1. CASE UNCHANGED <<heads, fdOf>>
  BY <1>1 DEF Sticky, EndsLatched, heads
<1>2. CASE \E g \in Guards :
             OnChain(stack[g].entry) /\ Unwound(stack[g].entry) /\ UNCHANGED fdOf
  <2>1. PICK g \in Guards :
             OnChain(stack[g].entry) /\ Unwound(stack[g].entry) /\ UNCHANGED fdOf
    BY <1>2
  <2> DEFINE s == stack[g].entry.filein
  <2>2. filein' = SubSeq(filein, 1, Len(s)) /\ Len(s) <= Len(filein) /\ filein' = s
    BY <2>1 DEF OnChain, Unwound
  <2>3. \A k \in 1..Len(filein') : k \in 1..Len(filein) /\ filein'[k] = filein[k]
    <3>1. CASE Len(s) \in Nat
      BY <2>2, <3>1, Fronted, LenProperties
    <3>2. CASE Len(s) \notin Nat
      <4>1. s \in Seq(Cell)
        BY <2>2, <3>2, SubSeqProperties
      <4> QED
        BY <3>2, <4>1, LenProperties
    <3> QED
      BY <3>1, <3>2
  <2> QED
    BY <2>1, <2>3 DEF Sticky, EndsLatched
<1> QED
  BY <1>1, <1>2 DEF Raise

LEMMA StickyInclude ==
    ASSUME Inv, Sticky, Include
    PROVE  Sticky'
<1> DEFINE n == Len(filein)
<1>1. PICK fd \in Fd \ open, c \in FreeCell :
         /\ fdOf' = [fdOf EXCEPT ![c] = fd]
         /\ latched' = latched \ {c}
         /\ ended' = ended \ {fd}
         /\ filein' = Append(filein, c)
  BY DEF Include
<1>2. /\ filein \in Seq(Cell) /\ n \in Nat /\ fdOf \in [Cell -> Fd] /\ ~exited
      /\ c \in Cell /\ c \notin Range(filein)
  BY LenProperties DEF Inv, TypeOK, Include, Reading, FreeCell
<1>3. /\ Len(filein') = n + 1 /\ filein'[n + 1] = c
      /\ \A k \in 1..n : filein'[k] = filein[k]
  BY <1>1, <1>2, Appended
<1>4. ASSUME NEW i \in 1..n, fdOf'[filein'[i]] \in ended'
      PROVE  filein'[i] \in latched'
  <2>1. filein[i] \in Cell /\ filein[i] # c
    BY <1>2, ElementOfSeq DEF Range
  <2>2. fdOf'[filein'[i]] = fdOf[filein[i]]
    BY <1>1, <1>2, <1>3, <2>1
  <2> QED
    BY <1>1, <1>3, <1>4, <2>1, <2>2 DEF Sticky, EndsLatched
<1>5. fdOf'[filein'[n + 1]] \notin ended'
  BY <1>1, <1>2, <1>3
<1>6. \A i \in 1..n+1 : i \in 1..n \/ i = n + 1
  BY <1>2
<1> QED
  BY <1>3, <1>4, <1>5, <1>6 DEF Sticky, EndsLatched

LEMMA StickyRead ==
    ASSUME Inv, Sticky, NEW outcome \in Outcome, Read(outcome)
    PROVE  Sticky' /\ fdOf[Top(filein)] \notin ended
<1> DEFINE n == Len(filein)
           c == Top(filein)
<1>1. /\ filein \in Seq(Cell) /\ n \in Nat \ {0} /\ c = filein[n] /\ c \notin latched
      /\ latched' = latched \cup {c} /\ ended' = ended \cup {fdOf[c]}
  BY LenProperties, EmptySeq DEF Inv, TypeOK, Read, Reading, Top, Latched
<1>2. EndsLatched(latched', ended')
  <2> SUFFICES ASSUME NEW i \in 1..n, fdOf[filein[i]] \in ended' PROVE filein[i] \in latched'
    BY DEF EndsLatched
  <2>1. CASE fdOf[filein[i]] \in ended
    BY <1>1, <2>1 DEF Sticky, EndsLatched
  <2>2. CASE fdOf[filein[i]] = fdOf[filein[n]]
    BY <1>1, <2>2 DEF Inv, HeldOnce
  <2> QED
    BY <1>1, <2>1, <2>2
<1>3. fdOf[c] \notin ended
  BY <1>1 DEF Sticky, EndsLatched
<1>4. Sticky'
  <2>1. CASE UNCHANGED <<heads, fdOf, open, stack, cont, exited>>
    BY <1>2, <2>1 DEF Sticky, EndsLatched, heads
  <2>2. CASE Raise(latched')
    BY <1>1, <1>2, <2>2, StickyRaise
  <2> QED
    BY <2>1, <2>2 DEF Read
<1> QED
  BY <1>3, <1>4

LEMMA StickyIncluded ==
    ASSUME Inv, Sticky, Included
    PROVE  Sticky'
<1>1. /\ filein \in Seq(Cell) /\ Len(filein) \in Nat \ {0}
      /\ filein' = SubSeq(filein, 1, Len(filein) - 1)
      /\ UNCHANGED <<fdOf, latched, ended>>
  BY LenProperties, EmptySeq DEF Inv, TypeOK, Included, Reading, Popped
<1>2. /\ Len(filein') = Len(filein) - 1
      /\ \A k \in 1..Len(filein)-1 : filein'[k] = filein[k]
  <2>1. Len(filein) - 1 \in 0..Len(filein)
    BY <1>1
  <2> QED
    BY <1>1, <2>1, Fronted
<1> QED
  BY <1>1, <1>2 DEF Sticky, EndsLatched

LEMMA StickyNext ==
    ASSUME ~program.conts, Inv, Sticky, [Next]_vars
    PROVE  Sticky'
<1>1. CASE UNCHANGED vars
  BY <1>1 DEF Sticky, EndsLatched, vars, heads
<1>2. CASE Fail \/ Poll
  BY <1>2, StickyRaise DEF Fail, Poll, Inv, TypeOK, Sticky
<1>3. CASE Guard \/ Guarded \/ Interrupt
  BY <1>3 DEF Guard, Guarded, Interrupt, Sticky, EndsLatched, heads
<1> QED
  BY <1>1, <1>2, <1>3, StickyInclude, StickyIncluded, StickyRead
  DEF Next, Step, CallCC, Invoke, Inv, TypeOK

(* Without re-entered continuations, no descriptor is read again after a     *)
(* read of it that brought no byte, whatever includes, guards, errors and    *)
(* interrupts come in between: a cell's latch stands in for the end of the   *)
(* one descriptor it holds, and goes when a file is opened in the cell.      *)
THEOREM EofStaysSticky == Spec => EofIsSticky
<1>1. Init => (Returning => Inv /\ Sticky)
  <2>1. Init => Sticky
    BY DEF Init, Sticky, EndsLatched
  <2> QED
    BY <2>1, InvInit
<1>2. (Returning => Inv /\ Sticky) /\ [Next]_vars => (Returning => Inv /\ Sticky)'
  BY InvNext, StickyNext DEF Returning, Next, vars
<1>3. (Returning => Inv /\ Sticky)
      => [Returning => \A o \in Outcome : Read(o) => fdOf[Top(filein)] \notin ended]_vars
  BY StickyRead
<1> QED
  BY <1>1, <1>2, <1>3, PTL DEF Spec, EofIsSticky

-----------------------------------------------------------------------------
(* The reader that reads the input, over any text: its cursors stay in order *)
(* and its lines are the ones of the text, whatever the order the types were *)
(* registered in.                                                            *)
CONSTANTS Sources, Modes, Orders
VARIABLES order, given, mark, counted, lists, answer

R == INSTANCE Reader WITH line <- counted, open <- lists

(* Some types are registered, of the kinds there are.                        *)
TypesAreThere == Orders \subseteq Seq(R!Kinds) \ {<<>>}

(* The types whose readers answer an atom.                                   *)
Atoms == {"symbol", "int", "char", "str"}

(* A set of numbers with a bound on it has a least and a greatest.           *)
LEMMA Ends ==
    ASSUME NEW T, T \subseteq Nat, T # {}
    PROVE  /\ R!Min(T) \in T /\ \A y \in T : R!Min(T) <= y
           /\ \A n \in Nat : (\A y \in T : y <= n) => R!Max(T) \in T /\ \A y \in T : y <= R!Max(T)
<1>1. ASSUME NEW U, U \subseteq Nat, U # {} PROVE \E x \in U : \A y \in U : x <= y
  <2> DEFINE Less == {p \in Nat \X Nat : p[1] < p[2]}
  <2>1. IsWellFoundedOn(OpToRel(<, Nat), Nat)
    BY NatLessThanWellFounded
  <2>2. OpToRel(<, Nat) = Less
    BY DEF OpToRel
  <2>3. \E x \in U : \A y \in U : <<y, x>> \notin Less
    <3> HIDE DEF Less
    <3> QED
      BY <1>1, <2>1, <2>2, WFMin
  <2>4. PICK x \in U : \A y \in U : <<y, x>> \notin Less
    BY <2>3
  <2>5. ASSUME NEW y \in U PROVE x <= y
    <3>1. x \in Nat /\ y \in Nat
      BY <1>1
    <3>2. y < x => <<y, x>> \in Less
      BY <3>1
    <3> QED
      BY <2>4, <3>1, <3>2
  <2> QED
    BY <2>5
<1>2. R!Min(T) \in T /\ \A y \in T : R!Min(T) <= y
  BY <1>1 DEF R!Min
<1>3. ASSUME NEW n \in Nat, \A y \in T : y <= n
      PROVE  R!Max(T) \in T /\ \A y \in T : y <= R!Max(T)
  <2> DEFINE U == {n - y : y \in T}
  <2>1. U \subseteq Nat /\ U # {}
    <3>1. \A y \in T : n - y \in Nat
      BY <1>3
    <3> QED
      BY <3>1
  <2>2. PICK x \in U : \A y \in U : x <= y
    BY <1>1, <2>1
  <2>3. PICK z \in T : x = n - z
    BY <2>2
  <2>4. \A y \in T : z >= y
    BY <2>2, <2>3
  <2> QED
    BY <2>4 DEF R!Max
<1> QED
  BY <1>2, <1>3

(* Of two numbers.                                                           *)
LEMMA Larger ==
    ASSUME NEW a \in Nat, NEW b \in Nat
    PROVE  /\ R!Max({a, b}) \in Nat /\ a <= R!Max({a, b}) /\ b <= R!Max({a, b}) /\ R!Max({a, b}) \in {a, b}
           /\ R!Min({a, b}) \in Nat /\ R!Min({a, b}) <= a /\ R!Min({a, b}) <= b /\ R!Min({a, b}) \in {a, b}
<1>1. {a, b} \subseteq Nat /\ {a, b} # {} /\ a + b \in Nat /\ \A y \in {a, b} : y <= a + b
  OBVIOUS
<1> QED
  BY <1>1, Ends

-----------------------------------------------------------------------------
(* How far a search for a character gets.                                    *)
LEMMA FirstIs ==
    ASSUME Len(R!text) \in Nat, NEW C, NEW i \in 1..Len(R!text)+1, NEW e, e = R!First(i, C)
    PROVE  /\ e \in i..Len(R!text)+1 /\ e \in Nat
           /\ e <= Len(R!text) => R!text[e] \in C
           /\ \A j \in i..e-1 : R!text[j] \notin C
<1> DEFINE n == Len(R!text)
           T == {k \in i..n+1 : k > n \/ R!text[k] \in C}
<1>1. T \subseteq Nat /\ n + 1 \in T
  OBVIOUS
<1>2. R!Min(T) \in T /\ \A y \in T : R!Min(T) <= y
  <2> HIDE DEF T
  <2> QED
    BY <1>1, Ends
<1>3. \A j \in i..R!Min(T)-1 : R!text[j] \notin C
  <2> SUFFICES ASSUME NEW j \in i..R!Min(T)-1, R!text[j] \in C PROVE FALSE
    OBVIOUS
  <2>1. j \in T
    BY <1>1, <1>2
  <2> QED
    BY <1>1, <1>2, <2>1
<1>4. \E k \in i..n+1 : (k > n \/ R!text[k] \in C) /\ \A j \in i..k-1 : R!text[j] \notin C
  <2>1. R!Min(T) \in i..n+1 /\ (R!Min(T) > n \/ R!text[R!Min(T)] \in C)
    BY <1>2
  <2> QED
    BY <1>3, <2>1
<1> QED
  BY <1>4 DEF R!First

(* The same for the first character not of a class.                          *)
LEMMA FirstNotIs ==
    ASSUME Len(R!text) \in Nat, NEW C, NEW i \in 1..Len(R!text)+1, NEW e, e = R!FirstNot(i, C)
    PROVE  e \in i..Len(R!text)+1 /\ e \in Nat
BY FirstIs DEF R!FirstNot

(* What an analyser may find from b on: a score tells how many characters    *)
(* it takes, none of them beyond the one it looked at.                       *)
Finds(b, f) ==
    /\ f.looked \in Nat /\ f.score \in Int
    /\ f.score # 0 => /\ R!Abs(f.score) >= 1 /\ R!Abs(f.score) \in Nat
                      /\ b - 1 + R!Abs(f.score) <= f.looked /\ f.looked <= Len(R!text)

(* An analyser that takes no more than it looked at finds what it may.       *)
LEMMA FindsIs ==
    ASSUME Len(R!text) \in Nat, NEW b \in 1..Len(R!text), NEW looked \in Nat, NEW score \in Int,
           looked <= Len(R!text) => R!Abs(score) <= looked - b + 1
    PROVE  Finds(b, R!Found(looked, score))
BY DEF Finds, R!Found, R!Abs

(* Every analyser finds what it may; those of the atoms match no opening     *)
(* bracket.  First the symbol's, for which a bracket delimits.               *)
LEMMA SymbolFinds ==
    ASSUME Len(R!text) \in Nat, NEW b \in 1..Len(R!text)
    PROVE  /\ Finds(b, R!SymbolScore(b))
           /\ R!SymbolScore(b).score # 0 => R!text[b] # "("
<1>1. PICK e : e = R!First(b, R!Delims)
  OBVIOUS
<1>2. /\ e \in b..Len(R!text)+1 /\ e \in Nat
      /\ \A j \in b..e-1 : R!text[j] \notin R!Delims
  BY <1>1, FirstIs
<1>3. R!SymbolScore(b) = R!Found(e, b - e)
  BY <1>1 DEF R!SymbolScore
<1>4. Finds(b, R!Found(e, b - e))
  <2>1. b - e \in Int /\ R!Abs(b - e) <= e - b + 1
    BY <1>2 DEF R!Abs
  <2> QED
    BY <1>2, <2>1, FindsIs
<1>5. R!SymbolScore(b).score # 0 => e # b
  BY <1>3 DEF R!Found
<1>6. e # b => R!text[b] \notin R!Delims
  <2>1. e # b => b \in b..e-1
    BY <1>2
  <2> QED
    BY <1>2, <2>1
<1> QED
  BY <1>3, <1>4, <1>5, <1>6 DEF R!Delims

(* The string's, up to the closing quote.                                    *)
LEMMA StrFinds ==
    ASSUME Len(R!text) \in Nat, NEW b \in 1..Len(R!text)
    PROVE  /\ Finds(b, R!StrScore(b))
           /\ R!StrScore(b).score # 0 => R!text[b] # "("
<1>1. PICK e : e = R!Closing(b + 1)
  OBVIOUS
<1>2. e \in b+1..Len(R!text)+1
  <2> DEFINE Escaped[j \in b+1..Len(R!text)] ==
                 j > b+1 /\ R!text[j - 1] = "\\" /\ ~Escaped[j - 1]
             closers == {j \in b+1..Len(R!text) : R!text[j] = "\"" /\ ~Escaped[j]}
  <2>1. e = IF closers = {} THEN Len(R!text) + 1 ELSE R!Min(closers)
    BY <1>1 DEF R!Closing
  <2>2. closers \subseteq b+1..Len(R!text)
    OBVIOUS
  <2> HIDE DEF closers
  <2>3. closers \subseteq Nat
    BY <2>2
  <2>4. closers # {} => R!Min(closers) \in closers
    BY <2>3, Ends
  <2>5. closers # {} => R!Min(closers) \in b+1..Len(R!text)
    BY <2>2, <2>4
  <2> QED
    BY <2>1, <2>5
<1>3. R!StrScore(b) = IF R!text[b] = "\"" THEN R!Found(e, e - b + 1) ELSE R!Found(b, 0)
  BY <1>1 DEF R!StrScore
<1>4. Finds(b, R!Found(e, e - b + 1))
  <2>1. e \in Nat /\ e - b + 1 \in Int /\ R!Abs(e - b + 1) <= e - b + 1
    BY <1>2 DEF R!Abs
  <2> QED
    BY <2>1, FindsIs
<1>5. Finds(b, R!Found(b, 0)) /\ R!Found(b, 0).score = 0
  BY FindsIs DEF R!Abs, R!Found
<1> QED
  BY <1>3, <1>4, <1>5

(* The analysers of what is no atom.                                         *)
LEMMA OthersFind ==
    ASSUME Len(R!text) \in Nat, NEW b \in 1..Len(R!text)
    PROVE  Finds(b, R!BracketScore(b)) /\ Finds(b, R!CommentScore(b)) /\ Finds(b, R!WhitespaceScore(b))
<1>1. Finds(b, R!BracketScore(b))
  <2>1. Finds(b, R!Found(b, 0)) /\ Finds(b, R!Found(b, 1))
    BY FindsIs DEF R!Abs
  <2> QED
    BY <2>1 DEF R!BracketScore
<1>2. Finds(b, R!Found(b, 0))
  BY FindsIs DEF R!Abs
<1>3. Finds(b, R!CommentScore(b))
  <2>1. PICK e : e = R!First(b, {"\n"})
    OBVIOUS
  <2>2. e \in b..Len(R!text)+1 /\ e \in Nat
    BY <2>1, FirstIs
  <2>3. Finds(b, R!Found(e, e - b + 1))
    <3>1. e - b + 1 \in Int /\ R!Abs(e - b + 1) <= e - b + 1
      BY <2>2 DEF R!Abs
    <3> QED
      BY <2>2, <3>1, FindsIs
  <2> QED
    BY <1>2, <2>1, <2>3 DEF R!CommentScore
<1>4. Finds(b, R!WhitespaceScore(b))
  <2>1. PICK e : e = R!FirstNot(b, R!White)
    OBVIOUS
  <2>2. e \in b..Len(R!text)+1 /\ e \in Nat
    BY <2>1, FirstNotIs
  <2>3. Finds(b, R!Found(e, e - b))
    <3>1. e - b \in Int /\ R!Abs(e - b) <= e - b + 1
      BY <2>2 DEF R!Abs
    <3> QED
      BY <2>2, <3>1, FindsIs
  <2> QED
    BY <1>2, <2>1, <2>3 DEF R!WhitespaceScore
<1> QED
  BY <1>1, <1>3, <1>4

(* The character's, with its name or its sequence.                           *)
LEMMA CharFinds ==
    ASSUME Len(R!text) \in Nat, NEW b \in 1..Len(R!text)
    PROVE  /\ Finds(b, R!CharScore(b))
           /\ R!CharScore(b).score # 0 => R!text[b] # "("
<1>1. \A f \in {R!Found(b, 0), R!Found(b + 1, 0), R!Found(b + 2, 0), R!Found(b + 2, 3)} : Finds(b, f)
  <2>1. Finds(b, R!Found(b, 0)) /\ Finds(b, R!Found(b + 1, 0)) /\ Finds(b, R!Found(b + 2, 0))
    BY FindsIs DEF R!Abs
  <2>2. Finds(b, R!Found(b + 2, 3))
    <3>1. b + 2 \in Nat /\ 3 \in Int /\ R!Abs(3) <= b + 2 - b + 1
      BY DEF R!Abs
    <3> QED
      BY <3>1, FindsIs
  <2> QED
    BY <2>1, <2>2
<1>2. ASSUME NEW C, b + 2 <= Len(R!text), NEW e, e = R!FirstNot(b + 3, C)
      PROVE  Finds(b, R!Found(e, e - b))
  <2>1. e \in b+3..Len(R!text)+1 /\ e \in Nat
    BY <1>2, FirstNotIs
  <2>2. e - b \in Int /\ R!Abs(e - b) <= e - b + 1
    BY <2>1 DEF R!Abs
  <2> QED
    BY <2>1, <2>2, FindsIs
<1>3. R!Found(b, 0).score = 0
  BY DEF R!Found
<1>4. R!text[b] # "#" => R!CharScore(b) = R!Found(b, 0)
  BY DEF R!CharScore
<1>5. Finds(b, R!CharScore(b))
  <2> DEFINE run(C) == LET e == R!FirstNot(b + 3, C) IN R!Found(e, e - b)
  <2>1. R!CharScore(b) \in {R!Found(b, 0), R!Found(b + 1, 0), R!Found(b + 2, 0), R!Found(b + 2, 3)}
        \/ (b + 2 <= Len(R!text) /\ R!CharScore(b) \in {run(R!Lower), run(R!Follow)})
    BY DEF R!CharScore
  <2>2. b + 2 <= Len(R!text) => Finds(b, run(R!Lower)) /\ Finds(b, run(R!Follow))
    BY <1>2
  <2> QED
    BY <1>1, <2>1, <2>2
<1> QED
  BY <1>3, <1>4, <1>5

(* A bracket is a character the integer's analyser stops at.                 *)
LEMMA NoDigit == "(" \in R!Characters /\ "(" \notin R!Digits
<1>1. "(" \in R!Characters
  BY DEF R!Characters
<1>2. "(" \notin R!Digits
  BY DEF R!Digits, R!XDigits
<1> QED
  BY <1>1, <1>2

(* The integer's, with its sign and its base.                                *)
LEMMA IntFinds ==
    ASSUME Len(R!text) \in Nat, NEW b \in 1..Len(R!text)
    PROVE  /\ Finds(b, R!IntScore(b))
           /\ R!IntScore(b).score # 0 => R!text[b] # "("
<1>1. PICK d : d = IF R!text[b] = "-" THEN b + 1 ELSE b
  OBVIOUS
<1>2. PICK hex : hex = (d < Len(R!text) /\ R!text[d] = "0" /\ R!text[d + 1] = "x")
  OBVIOUS
<1>3. PICK e : e = IF hex THEN R!FirstNot(d + 2, R!XDigits) ELSE R!FirstNot(d, R!Digits)
  OBVIOUS
<1>4. R!IntScore(b) = R!Found(e, IF e = d THEN 0 ELSE e - b)
  BY <1>1, <1>2, <1>3 DEF R!IntScore
<1>5. d \in b..Len(R!text)+1 /\ d \in Nat
  BY <1>1
<1>6. e \in d..Len(R!text)+1 /\ e \in Nat
  <2>1. CASE hex
    <3>1. d + 2 \in 1..Len(R!text)+1
      <4>1. d < Len(R!text)
        BY <1>2, <2>1
      <4> QED
        BY <1>5, <4>1
    <3>2. e \in d+2..Len(R!text)+1 /\ e \in Nat
      BY <1>3, <2>1, <3>1, FirstNotIs
    <3> QED
      BY <1>5, <3>2
  <2>2. CASE ~hex
    BY <1>3, <1>5, <2>2, FirstNotIs
  <2> QED
    BY <2>1, <2>2
<1>7. Finds(b, R!Found(e, IF e = d THEN 0 ELSE e - b))
  <2> DEFINE s == IF e = d THEN 0 ELSE e - b
  <2>1. s \in Int /\ R!Abs(s) <= e - b + 1
    BY <1>5, <1>6 DEF R!Abs
  <2> HIDE DEF s
  <2>2. Finds(b, R!Found(e, s))
    BY <1>6, <2>1, FindsIs
  <2> QED
    BY <2>2 DEF s
<1>8. ASSUME R!text[b] = "(" PROVE e = d
  <2>1. d = b /\ ~hex
    BY <1>1, <1>2, <1>8
  <2>2. e = R!First(b, R!Characters \ R!Digits)
    BY <1>3, <2>1 DEF R!FirstNot
  <2>3. \A j \in b..e-1 : R!text[j] \notin R!Characters \ R!Digits
    BY <2>2, FirstIs
  <2>4. R!text[b] \in R!Characters \ R!Digits
    BY <1>8, NoDigit
  <2> QED
    BY <1>6, <2>1, <2>3, <2>4
<1>9. R!IntScore(b).score # 0 => e # d
  BY <1>4 DEF R!Found
<1> QED
  BY <1>4, <1>7, <1>8, <1>9

(* All of them.                                                              *)
LEMMA ScoresAre ==
    ASSUME Len(R!text) \in Nat, NEW b \in 1..Len(R!text), NEW k \in R!Kinds
    PROVE  /\ Finds(b, R!Analysed(b)[k])
           /\ k \in Atoms /\ R!Analysed(b)[k].score # 0 => R!text[b] # "("
<1>1. CASE k = "symbol"
  BY <1>1, SymbolFinds DEF R!Analysed
<1>2. CASE k = "int"
  BY <1>2, IntFinds DEF R!Analysed
<1>3. CASE k = "char"
  BY <1>3, CharFinds DEF R!Analysed
<1>4. CASE k = "str"
  BY <1>4, StrFinds DEF R!Analysed
<1>5. CASE k \in {"list", "comment", "whitespace"}
  BY <1>5, OthersFind DEF R!Analysed, Atoms
<1> QED
  BY <1>1, <1>2, <1>3, <1>4, <1>5 DEF R!Kinds

(* The token taken is characters looked at, and an atom's first is no        *)
(* bracket.                                                                  *)
TokenOk(t) ==
    /\ t.len \in Nat /\ t.looked \in 0..Len(R!text) /\ t.kind \in R!Kinds \cup {"none"}
    /\ t.kind # "none" => t.len >= 1 /\ mark + t.len <= t.looked
    /\ t.kind \in Atoms => R!text[mark + 1] # "("

(* What x_token_analyse takes is such a token, whichever type wins.          *)
LEMMA TokenIs ==
    ASSUME Len(R!text) \in Nat, mark \in 0..Len(R!text), order \in Seq(R!Kinds), order # <<>>,
           NEW t \in R!Tokens
    PROVE  TokenOk(t)
<1>1. CASE mark = Len(R!text)
  <2>1. t = [kind |-> "none", len |-> 0, looked |-> mark]
    BY <1>1 DEF R!Tokens, R!NoToken
  <2> QED
    BY <2>1 DEF TokenOk, Atoms
<1>2. CASE mark # Len(R!text)
  <2> DEFINE b == mark + 1
             found == R!Analysed(b)
             score(i) == found[order[i]].score
             wins(i) == /\ score(i) # 0
                        /\ \A j \in 1..i - 1 : R!Beats(score(i), score(j))
                        /\ \A j \in i + 1..Len(order) : ~R!Beats(score(j), score(i))
             taker == {i \in DOMAIN order : wins(i)}
             looks == {R!Min({found[k].looked, Len(R!text)}) : k \in R!Range(order)}
  <2>1. t = [kind |-> IF taker = {} THEN "none" ELSE order[R!Min(taker)],
             len |-> IF taker = {} THEN 0 ELSE R!Abs(score(R!Min(taker))),
             looked |-> R!Max(looks)]
    BY <1>2 DEF R!Tokens, R!Best
  <2>2. b \in 1..Len(R!text)
    BY <1>2
  <2>3. /\ DOMAIN order = 1..Len(order) /\ Len(order) \in Nat \ {0}
        /\ \A i \in DOMAIN order : order[i] \in R!Kinds
        /\ R!Range(order) \subseteq R!Kinds /\ R!Range(order) # {}
    BY LenProperties, ElementOfSeq, EmptySeq DEF R!Range
  <2>4. \A k \in R!Kinds : /\ Finds(b, found[k])
                           /\ k \in Atoms /\ found[k].score # 0 => R!text[b] # "("
    BY <2>2, ScoresAre
  <2>5. \A k \in R!Kinds : found[k].looked \in Nat
    BY <2>4 DEF Finds
  <2> DEFINE seen(k) == R!Min({found[k].looked, Len(R!text)})
  <2>6. \A k \in R!Kinds : seen(k) \in 0..Len(R!text)
    <3> SUFFICES ASSUME NEW k \in R!Kinds PROVE seen(k) \in 0..Len(R!text)
      OBVIOUS
    <3>1. found[k].looked \in Nat
      BY <2>5
    <3>2. seen(k) \in Nat /\ seen(k) <= Len(R!text)
      BY <3>1, Larger
    <3> QED
      BY <3>2
  <2>7. \A k \in R!Kinds : found[k].looked <= Len(R!text) => seen(k) = found[k].looked
    <3> SUFFICES ASSUME NEW k \in R!Kinds, found[k].looked <= Len(R!text)
                 PROVE  seen(k) = found[k].looked
      OBVIOUS
    <3>1. found[k].looked \in Nat
      BY <2>5
    <3>2. seen(k) \in {found[k].looked, Len(R!text)} /\ seen(k) <= found[k].looked
      BY <3>1, Larger
    <3> QED
      BY <3>1, <3>2
  <2>8. R!Max(looks) \in looks /\ \A y \in looks : y <= R!Max(looks)
    <3>1. \A y \in looks : \E k \in R!Kinds : y = seen(k)
      BY <2>3
    <3>2. looks # {}
      BY <2>3
    <3>3. \A y \in looks : y \in 0..Len(R!text)
      <4> HIDE DEF looks, seen
      <4> QED
        BY <2>6, <3>1
    <3>4. looks \subseteq Nat /\ \A y \in looks : y <= Len(R!text)
      <4> HIDE DEF looks
      <4> QED
        BY <3>3
    <3> HIDE DEF looks
    <3> QED
      BY <3>2, <3>4, Ends
  <2>9. R!Max(looks) \in 0..Len(R!text)
    BY <2>3, <2>6, <2>8
  <2>10. CASE taker = {}
    BY <2>1, <2>9, <2>10 DEF TokenOk, Atoms
  <2>11. CASE taker # {}
    <3>1. PICK m : m = R!Min(taker)
      OBVIOUS
    <3>2. m \in taker
      <4>1. taker \subseteq Nat
        BY <2>3
      <4> HIDE DEF taker
      <4> QED
        BY <2>11, <3>1, <4>1, Ends
    <3>3. m \in DOMAIN order /\ score(m) # 0
      BY <3>2
    <3>4. PICK k : k = order[m]
      OBVIOUS
    <3>5. k \in R!Kinds /\ k \in R!Range(order) /\ found[k].score # 0
      BY <2>3, <3>3, <3>4 DEF R!Range
    <3>6. t.kind = k /\ t.len = R!Abs(found[k].score) /\ t.looked = R!Max(looks)
      BY <2>1, <2>11, <3>1, <3>4
    <3>7. /\ R!Abs(found[k].score) >= 1 /\ R!Abs(found[k].score) \in Nat
          /\ b - 1 + R!Abs(found[k].score) <= found[k].looked
          /\ found[k].looked <= Len(R!text)
      BY <2>4, <3>5 DEF Finds
    <3>8. seen(k) <= R!Max(looks) /\ seen(k) = found[k].looked
      BY <2>7, <2>8, <3>5, <3>7
    <3>9. mark + R!Abs(found[k].score) <= R!Max(looks)
      <4>1. found[k].looked \in Nat
        BY <2>5, <3>5
      <4> HIDE DEF looks, found
      <4> QED
        BY <2>9, <3>7, <3>8, <4>1
    <3>10. k \in Atoms => R!text[mark + 1] # "("
      BY <2>4, <3>5
    <3>11. k # "none"
      BY <3>5 DEF R!Kinds
    <3> HIDE DEF looks, found
    <3> QED
      BY <2>9, <3>5, <3>6, <3>7, <3>9, <3>10 DEF TokenOk
  <2> QED
    BY <2>10, <2>11
<1> QED
  BY <1>1, <1>2

-----------------------------------------------------------------------------
(* The lines of the first n characters.                                      *)
Upto(n) == R!Newlines(SubSeq(R!text, 1, n))

(* The newlines after position a, up to b.                                   *)
Breaks(a, b) == {i \in a+1..b : R!text[i] = "\n"}

(* The newlines between two positions, counted in the text.                  *)
LEMMA NewlinesIn ==
    ASSUME Len(R!text) \in Nat, NEW a \in 0..Len(R!text), NEW b \in a..Len(R!text)
    PROVE  /\ IsFiniteSet(Breaks(a, b)) /\ Cardinality(Breaks(a, b)) \in Nat
           /\ R!Newlines(SubSeq(R!text, a + 1, b)) = Cardinality(Breaks(a, b))
<1>1. IsFiniteSet(Breaks(a, b)) /\ Cardinality(Breaks(a, b)) \in Nat
  <2>1. IsFiniteSet(a+1..b) /\ Breaks(a, b) \in SUBSET (a+1..b)
    BY FS_Interval DEF Breaks
  <2> QED
    BY <2>1, FS_Subset, FS_CardinalityType
<1> DEFINE s == SubSeq(R!text, a + 1, b)
           T == {i \in 1..b-a : R!text[i + a] = "\n"}
<1>2. Len(s) = b - a /\ \A i \in 1..b-a : s[i] = R!text[i + a]
  OBVIOUS
<1>3. {i \in 1..Len(s) : s[i] = "\n"} = T
  <2> HIDE DEF s
  <2> QED
    BY <1>2
<1>4. ExistsBijection(T, Breaks(a, b))
  <2> DEFINE f == [i \in T |-> i + a]
  <2>1. \A i \in T : i + a \in Breaks(a, b)
    BY DEF Breaks
  <2>2. \A j \in Breaks(a, b) : j - a \in T /\ j = j - a + a
    BY DEF Breaks
  <2>3. \A i, j \in T : i + a = j + a => i = j
    OBVIOUS
  <2> HIDE DEF T
  <2>4. f \in [T -> Breaks(a, b)] /\ \A i \in T : f[i] = i + a
    BY <2>1
  <2>5. \A i, j \in T : f[i] = f[j] => i = j
    BY <2>3, <2>4
  <2>6. \A j \in Breaks(a, b) : \E i \in T : f[i] = j
    BY <2>2, <2>4
  <2>7. f \in Bijection(T, Breaks(a, b))
    <3> HIDE DEF f
    <3> QED
      BY <2>4, <2>5, <2>6 DEF Bijection, Injection, Surjection, IsInjective
  <2> QED
    BY <2>7 DEF ExistsBijection
<1>5. Cardinality(T) = Cardinality(Breaks(a, b))
  <2>1. IsFiniteSet(1..b-a) /\ T \in SUBSET (1..b-a)
    <3>1. b - a \in Int /\ 1 \in Int
      OBVIOUS
    <3>2. IsFiniteSet(1..b-a)
      BY <3>1, FS_Interval
    <3>3. T \subseteq 1..b-a
      OBVIOUS
    <3> QED
      BY <3>2, <3>3
  <2>2. IsFiniteSet(T)
    BY <2>1, FS_Subset
  <2> HIDE DEF T
  <2> QED
    BY <1>4, <2>2, FS_Bijection
<1>6. R!Newlines(s) = Cardinality({i \in 1..Len(s) : s[i] = "\n"})
  BY DEF R!Newlines, Cardinality, R!Cardinality, IsFiniteSet, R!IsFiniteSet
<1> QED
  BY <1>1, <1>3, <1>5, <1>6

(* The lines of what a token takes are added to those before it.             *)
LEMMA LinesAdd ==
    ASSUME Len(R!text) \in Nat, NEW a \in 0..Len(R!text), NEW b \in a..Len(R!text)
    PROVE  /\ Upto(a) \in Nat /\ Upto(b) = Upto(a) + R!Newlines(SubSeq(R!text, a + 1, b))
           /\ b = a + 1 /\ R!text[b] # "\n" => Upto(b) = Upto(a)
<1>1. /\ Upto(a) = Cardinality(Breaks(0, a)) /\ Upto(b) = Cardinality(Breaks(0, b))
      /\ IsFiniteSet(Breaks(0, a)) /\ Cardinality(Breaks(0, a)) \in Nat
  <2>1. 0 \in 0..Len(R!text) /\ a \in 0..Len(R!text) /\ b \in 0..Len(R!text)
    OBVIOUS
  <2> QED
    BY <2>1, NewlinesIn DEF Upto
<1>2. /\ R!Newlines(SubSeq(R!text, a + 1, b)) = Cardinality(Breaks(a, b))
      /\ IsFiniteSet(Breaks(a, b)) /\ Cardinality(Breaks(a, b)) \in Nat
  BY NewlinesIn
<1>3. Breaks(0, b) = Breaks(0, a) \cup Breaks(a, b) /\ Breaks(0, a) \cap Breaks(a, b) = {}
  BY DEF Breaks
<1>4. Cardinality(Breaks(0, b)) = Cardinality(Breaks(0, a)) + Cardinality(Breaks(a, b))
  <2>1. Cardinality(Breaks(0, a) \cap Breaks(a, b)) = 0
    BY <1>3, FS_EmptySet
  <2>2. Cardinality(Breaks(0, a) \cup Breaks(a, b))
        = Cardinality(Breaks(0, a)) + Cardinality(Breaks(a, b))
          - Cardinality(Breaks(0, a) \cap Breaks(a, b))
    BY <1>1, <1>2, FS_Union
  <2>3. \A x, y, z \in Nat : z = 0 => x + y - z = x + y
    OBVIOUS
  <2>4. Cardinality(Breaks(0, a) \cap Breaks(a, b)) \in Nat
    BY <2>1
  <2> QED
    BY <1>1, <1>2, <1>3, <2>1, <2>2, <2>3, <2>4
<1>5. b = a + 1 /\ R!text[b] # "\n" => Breaks(a, b) = {}
  BY DEF Breaks
<1> QED
  BY <1>1, <1>2, <1>4, <1>5, FS_EmptySet

-----------------------------------------------------------------------------
(* Sequences, whatever they hold.                                            *)
IsSequence(s) == s \in Seq({s[i] : i \in DOMAIN s})

(* A sequence over any set is one.                                           *)
LEMMA Within ==
    ASSUME NEW S, NEW s \in Seq(S)
    PROVE  IsSequence(s)
<1>1. s \in [1..Len(s) -> S] /\ Len(s) \in Nat
  BY LenProperties
<1>2. s \in [1..Len(s) -> {s[i] : i \in DOMAIN s}]
  BY <1>1
<1> QED
  BY <1>1, <1>2 DEF IsSequence

(* It stays one with an element more, one less, or one changed.              *)
LEMMA Longer ==
    ASSUME NEW s, IsSequence(s), NEW x
    PROVE  /\ IsSequence(Append(s, x)) /\ Len(s) \in Nat
           /\ Len(Append(s, x)) = Len(s) + 1
           /\ \A i \in 1..Len(s) : Append(s, x)[i] = s[i]
           /\ Append(s, x)[Len(s) + 1] = x
<1> DEFINE S == {s[i] : i \in DOMAIN s} \cup {x}
<1>1. s \in Seq(S)
  <2>1. s \in [1..Len(s) -> {s[i] : i \in DOMAIN s}] /\ Len(s) \in Nat
    BY LenProperties DEF IsSequence
  <2>2. s \in [1..Len(s) -> S]
    BY <2>1
  <2> HIDE DEF S
  <2> QED
    BY <2>1, <2>2
<1>2. x \in S
  OBVIOUS
<1> HIDE DEF S
<1>3. /\ Append(s, x) \in Seq(S) /\ Len(Append(s, x)) = Len(s) + 1
      /\ \A i \in 1..Len(s) : Append(s, x)[i] = s[i]
      /\ Append(s, x)[Len(s) + 1] = x
  BY <1>1, <1>2, AppendProperties
<1>4. IsSequence(Append(s, x)) /\ Len(s) \in Nat
  BY <1>1, <1>3, Within, LenProperties
<1> QED
  BY <1>3, <1>4

LEMMA Shorter ==
    ASSUME NEW s, IsSequence(s), s # <<>>
    PROVE  /\ Len(s) \in Nat \ {0}
           /\ IsSequence(R!Front(s)) /\ Len(R!Front(s)) = Len(s) - 1
           /\ \A i \in 1..Len(s)-1 : R!Front(s)[i] = s[i]
<1> DEFINE S == {s[i] : i \in DOMAIN s}
<1>1. s \in Seq(S)
  BY DEF IsSequence
<1> HIDE DEF S
<1>2. Len(s) \in Nat \ {0}
  BY <1>1, EmptySeq, LenProperties
<1>3. /\ R!Front(s) \in Seq(S) /\ Len(R!Front(s)) = Len(s) - 1
      /\ \A i \in 1..Len(s)-1 : R!Front(s)[i] = s[i]
  BY <1>1, <1>2, SubSeqProperties DEF R!Front
<1> QED
  BY <1>2, <1>3, Within

LEMMA Changed ==
    ASSUME NEW s, IsSequence(s), NEW k \in 1..Len(s), NEW x
    PROVE  /\ IsSequence([s EXCEPT ![k] = x]) /\ Len([s EXCEPT ![k] = x]) = Len(s)
           /\ \A i \in 1..Len(s) : [s EXCEPT ![k] = x][i] = IF i = k THEN x ELSE s[i]
<1> DEFINE S == {s[i] : i \in DOMAIN s} \cup {x}
           t == [s EXCEPT ![k] = x]
<1>1. s \in [1..Len(s) -> {s[i] : i \in DOMAIN s}] /\ Len(s) \in Nat
  BY LenProperties DEF IsSequence
<1>2. s \in [1..Len(s) -> S] /\ x \in S
  BY <1>1
<1> HIDE DEF S
<1>3. t \in [1..Len(s) -> S] /\ \A i \in 1..Len(s) : t[i] = IF i = k THEN x ELSE s[i]
  BY <1>2
<1> HIDE DEF t
<1>4. t \in Seq(S) /\ Len(t) = Len(s)
  BY <1>1, <1>3
<1> USE DEF t
<1> QED
  BY <1>3, <1>4, Within

-----------------------------------------------------------------------------
(* The lines counted, what the frames of list readers say, what an answer    *)
(* on its way says, and what was handed over.                                *)
Lines(t, n) == R!Newlines(SubSeq(t, 1, n))

Cursors(t, m, g, l) ==
    /\ Len(t) \in Nat /\ m \in Nat /\ g \in Nat /\ m <= g /\ g <= Len(t)
    /\ l = Lines(t, m)

Begun(t, f, m) ==
    /\ f = [items |-> f.items, rest |-> f.rest, want |-> f.want, from |-> f.from, line |-> f.line]
    /\ f.want \in {"item", "tail", "closer"}
    /\ f.from \in Nat /\ f.from < m /\ t[f.from + 1] = "(" /\ f.line = Lines(t, f.from)
Opened(t, o, m) ==
    /\ IsSequence(o)
    /\ \A i \in 1..Len(o) : Begun(t, o[i], m) /\ (i > 1 => o[i].from > o[i - 1].from)

Stamped(t, f, m) ==
    /\ f.from \in Nat /\ f.from < m
    /\ f.line = Lines(t, IF t[f.from + 1] = "(" THEN f.from ELSE m)
Handed(t, fs) ==
    /\ IsSequence(fs)
    /\ \A i \in 1..Len(fs) : fs[i].upto \in Nat /\ Stamped(t, fs[i], fs[i].upto)

(* The inductive invariant.  The properties alone are not: what is handed    *)
(* over is right because the frame or the answer it came from was, and a     *)
(* frame because its line was counted when its bracket was the last          *)
(* character taken.                                                          *)
ReaderInv ==
          /\ order \in Orders /\ status \in {"reading", "eof", "error"}
          /\ Cursors(R!text, mark, given, counted)
          /\ Opened(R!text, lists, mark)
          /\ answer # R!NoAnswer => Stamped(R!text, answer, mark)
          /\ Handed(R!text, forms)

(* It holds before the first token.                                          *)
LEMMA ReaderInvInit == R!Init => ReaderInv
<1> SUFFICES ASSUME R!Init PROVE ReaderInv
  OBVIOUS
<1>1. Len(R!text) \in Nat /\ mark = 0 /\ counted = 0 /\ given \in 0..Len(R!text)
  <2>1. PICK s \in Sources : \E c \in 0..Len(s.text) : R!text = SubSeq(s.text, 1, c)
    BY DEF R!Init, R!text
  <2>2. PICK c \in 0..Len(s.text) : R!text = SubSeq(s.text, 1, c)
    BY <2>1
  <2>3. c \in Nat
    BY <2>2
  <2>4. Len(R!text) = c
    BY <2>2, <2>3
  <2> QED
    BY <2>3, <2>4 DEF R!Init
<1>2. Lines(R!text, 0) = 0
  <2>1. R!Newlines(SubSeq(R!text, 0 + 1, 0)) = Cardinality(Breaks(0, 0))
    BY <1>1, NewlinesIn
  <2>2. Breaks(0, 0) = {}
    BY DEF Breaks
  <2> QED
    BY <2>1, <2>2, FS_EmptySet DEF Lines
<1>3. Cursors(R!text, mark, given, counted)
  BY <1>1, <1>2 DEF Cursors
<1>4. IsSequence(<<>>) /\ Len(<<>>) = 0
  <2>1. <<>> \in Seq({})
    BY EmptySeq
  <2> QED
    BY <2>1, Within
<1>5. Opened(R!text, lists, mark) /\ Handed(R!text, forms)
  BY <1>4 DEF R!Init, Opened, Handed
<1> QED
  BY <1>3, <1>5 DEF R!Init, ReaderInv

(* What is said of the open lists stays true as the mark moves on.           *)
LEMMA OpenedStays ==
    ASSUME NEW t, NEW o, NEW m \in Nat, NEW n \in Nat, m <= n, Opened(t, o, m)
    PROVE  Opened(t, o, n)
<1>1. ASSUME NEW f, Begun(t, f, m) PROVE Begun(t, f, n)
  <2>1. f.from \in Nat /\ f.from < m
    BY <1>1 DEF Begun
  <2>2. f.from < n
    BY <2>1
  <2> QED
    BY <1>1, <2>2 DEF Begun
<1> QED
  BY <1>1 DEF Opened

(* Every token read is as said above.                                        *)
LEMMA TokensOk ==
    ASSUME TypesAreThere, ReaderInv, answer = R!NoAnswer, NEW token \in R!Tokens
    PROVE  TokenOk(token)
<1>1. order \in Seq(R!Kinds) /\ order # <<>>
  BY DEF TypesAreThere, ReaderInv
<1>2. Len(R!text) \in Nat /\ mark \in 0..Len(R!text)
  BY DEF ReaderInv, Cursors
<1> QED
  BY <1>1, <1>2, TokenIs

(* What every token taken does to the cursors.                               *)
LEMMA Taking ==
    ASSUME ReaderInv, NEW token, TokenOk(token), token.kind # "none", R!Take(token)
    PROVE  /\ R!text' = R!text /\ order' \in Orders
           /\ mark' = mark + token.len /\ mark \in Nat /\ mark' \in Nat /\ mark < mark'
           /\ Cursors(R!text, mark', given', counted')
           /\ Opened(R!text, lists, mark')
           /\ counted' = counted + R!Newlines(R!Taken(token))
           /\ token.len = 1 /\ R!text[mark + 1] # "\n" => counted' = counted
<1> DEFINE g == R!Max({given, token.looked})
<1>1. /\ Len(R!text) \in Nat /\ mark \in Nat /\ given \in Nat /\ mark <= given /\ given <= Len(R!text)
      /\ counted = Lines(R!text, mark)
  BY DEF ReaderInv, Cursors
<1>2. /\ token.len \in Nat /\ token.len >= 1 /\ token.looked \in Nat /\ token.looked <= Len(R!text)
      /\ mark + token.len <= token.looked
  BY <1>1 DEF TokenOk
<1>3. /\ R!text' = R!text /\ order' = order /\ given' = g /\ mark' = mark + token.len
      /\ counted' = counted + R!Newlines(SubSeq(R!text, mark + 1, mark + token.len))
  BY DEF R!Take, R!Retained, R!Fetched, R!Counted, R!Taken, R!input, R!text
<1>4. g \in Nat /\ mark + token.len <= g /\ g <= Len(R!text)
  <2>1. g \in {given, token.looked} /\ token.looked <= g /\ g \in Nat
    BY <1>1, <1>2, Larger
  <2> HIDE DEF g
  <2> QED
    BY <1>1, <1>2, <2>1
<1>5. mark \in 0..Len(R!text) /\ mark + token.len \in mark..Len(R!text)
  BY <1>1, <1>2
<1>6. /\ Lines(R!text, mark + token.len) = counted + R!Newlines(SubSeq(R!text, mark + 1, mark + token.len))
      /\ token.len = 1 /\ R!text[mark + 1] # "\n" => Lines(R!text, mark + token.len) = counted
  BY <1>1, <1>5, LinesAdd DEF Upto, Lines
<1>7. Cursors(R!text, mark', given', counted')
  BY <1>1, <1>2, <1>3, <1>4, <1>6 DEF Cursors
<1>8. mark' \in Nat /\ mark <= mark' /\ mark < mark'
  BY <1>1, <1>2, <1>3
<1>9. Opened(R!text, lists, mark')
  BY <1>1, <1>8, OpenedStays DEF ReaderInv
<1> QED
  BY <1>1, <1>3, <1>6, <1>7, <1>8, <1>9 DEF ReaderInv, R!Taken

(* The actions one by one: a token with no reader.                           *)
LEMMA SkipKeeps ==
    ASSUME ReaderInv, answer = R!NoAnswer, NEW token, TokenOk(token), R!Skip(token)
    PROVE  ReaderInv'
<1>1. token.kind # "none" /\ R!Take(token) /\ UNCHANGED <<lists, answer, forms, status>>
  BY DEF R!Skip
<1> QED
  BY <1>1, Taking DEF ReaderInv, R!NoAnswer

(* An atom is stamped with the line at its end.                              *)
LEMMA AtomKeeps ==
    ASSUME ReaderInv, answer = R!NoAnswer, NEW token, TokenOk(token), R!Atom(token)
    PROVE  ReaderInv'
<1>1. /\ token.kind # "none" /\ R!Take(token) /\ UNCHANGED <<lists, forms>>
      /\ R!text[mark + 1] # "("
  BY DEF R!Atom, TokenOk, Atoms
<1>2. /\ status' \in {status, "error"}
      /\ answer' = answer \/ \E d : answer' = [datum |-> d, from |-> mark, line |-> counted']
  BY DEF R!Atom
<1>3. /\ R!text' = R!text /\ order' \in Orders /\ mark \in Nat /\ mark < mark'
      /\ Cursors(R!text, mark', given', counted') /\ Opened(R!text, lists, mark')
  BY <1>1, Taking
<1>4. counted' = Lines(R!text, mark')
  BY <1>3 DEF Cursors
<1>5. answer' # R!NoAnswer => Stamped(R!text, answer', mark')
  <2>1. CASE answer' = answer
    BY <2>1
  <2>2. CASE \E d : answer' = [datum |-> d, from |-> mark, line |-> counted']
    <3>1. answer'.from = mark /\ answer'.line = counted'
      BY <2>2
    <3> QED
      BY <1>1, <1>3, <1>4, <3>1 DEF Stamped
  <2> QED
    BY <1>2, <2>1, <2>2
<1> QED
  BY <1>1, <1>2, <1>3, <1>5 DEF ReaderInv, R!NoAnswer

(* A token that is one character is the next one.                            *)
LEMMA OneTaken ==
    ASSUME NEW token, token.len \in Nat, mark \in Nat, NEW c, R!Taken(token) = <<c>>
    PROVE  token.len = 1 /\ R!text[mark + 1] = c
<1>1. Len(R!Taken(token)) = token.len
  BY DEF R!Taken
<1>2. token.len = 1
  BY <1>1
<1>3. R!Taken(token)[1] = R!text[mark + 1]
  BY <1>2 DEF R!Taken
<1> QED
  BY <1>2, <1>3

(* A closing bracket is an answer like an atom.                              *)
LEMMA CloseKeeps ==
    ASSUME ReaderInv, answer = R!NoAnswer, NEW token, TokenOk(token), R!CloseList(token)
    PROVE  ReaderInv'
<1>1. /\ token.kind # "none" /\ R!Take(token) /\ UNCHANGED <<lists, forms, status>>
      /\ R!Taken(token) = <<")">> /\ answer'.from = mark /\ answer'.line = counted'
  BY DEF R!CloseList
<1>2. /\ R!text' = R!text /\ order' \in Orders /\ mark \in Nat /\ mark < mark'
      /\ Cursors(R!text, mark', given', counted') /\ Opened(R!text, lists, mark')
  BY <1>1, Taking
<1>3. R!text[mark + 1] = ")"
  BY <1>1, <1>2, OneTaken DEF TokenOk
<1>4. Stamped(R!text, answer', mark')
  BY <1>1, <1>2, <1>3 DEF Stamped, Cursors
<1> QED
  BY <1>1, <1>2, <1>4 DEF ReaderInv

(* An opening bracket begins a frame on the line it is on: it is one         *)
(* character, and no newline.                                                *)
LEMMA OpenKeeps ==
    ASSUME ReaderInv, answer = R!NoAnswer, NEW token, TokenOk(token), R!OpenList(token)
    PROVE  ReaderInv'
<1> DEFINE f == [items |-> <<>>, rest |-> R!Nil, want |-> "item", from |-> mark, line |-> counted']
           n == Len(lists)
<1>1. /\ token.kind # "none" /\ R!Take(token) /\ UNCHANGED <<answer, forms, status>>
      /\ R!Taken(token) = <<"(">> /\ lists' = Append(lists, f)
  BY DEF R!OpenList
<1>2. /\ R!text' = R!text /\ order' \in Orders /\ mark \in Nat /\ mark < mark'
      /\ Cursors(R!text, mark', given', counted') /\ Opened(R!text, lists, mark')
      /\ token.len = 1 /\ R!text[mark + 1] # "\n" => counted' = counted
  BY <1>1, Taking
<1>3. token.len = 1 /\ R!text[mark + 1] = "("
  BY <1>1, <1>2, OneTaken DEF TokenOk
<1>4. counted' = Lines(R!text, mark)
  BY <1>2, <1>3 DEF ReaderInv, Cursors
<1>5. Begun(R!text, f, mark')
  BY <1>2, <1>3, <1>4 DEF Begun
<1>6. \A i \in 1..n : lists[i].from \in Nat /\ lists[i].from < f.from
  BY DEF ReaderInv, Opened, Begun
<1>7. /\ IsSequence(lists') /\ Len(lists') = n + 1 /\ n \in Nat
      /\ \A i \in 1..n : lists'[i] = lists[i]
      /\ lists'[n + 1] = f
  BY <1>1, Longer DEF ReaderInv, Opened
<1> HIDE DEF f, n
<1>8. Opened(R!text, lists', mark')
  <2> SUFFICES ASSUME NEW i \in 1..n+1
               PROVE  Begun(R!text, lists'[i], mark') /\ (i > 1 => lists'[i].from > lists'[i - 1].from)
    BY <1>7 DEF Opened
  <2>1. CASE i \in 1..n
    <3>1. i > 1 => i - 1 \in 1..n
      BY <1>7, <2>1
    <3> QED
      BY <1>2, <1>7, <2>1, <3>1 DEF Opened, n
  <2>2. CASE i = n + 1
    <3>1. i > 1 => i - 1 = n /\ n \in 1..n
      BY <1>7, <2>2
    <3>2. f.from \in Nat
      BY <1>5 DEF Begun
    <3> QED
      BY <1>5, <1>6, <1>7, <2>2, <3>1, <3>2
  <2> QED
    BY <1>7, <2>1, <2>2
<1> QED
  BY <1>1, <1>2, <1>8 DEF ReaderInv

(* The end of the input moves the write cursor alone.                        *)
LEMMA NoMoreKeeps ==
    ASSUME ReaderInv, answer = R!NoAnswer, NEW token, TokenOk(token), R!NoMore(token)
    PROVE  ReaderInv'
<1> DEFINE g == R!Max({given, token.looked})
<1>1. /\ given' = g /\ UNCHANGED <<source, order, mark, counted, lists, forms, answer>>
      /\ status' \in {"eof", "error"}
  BY DEF R!NoMore, R!Fetched, R!Ended, R!input
<1>2. /\ Len(R!text) \in Nat /\ mark \in Nat /\ given \in Nat /\ mark <= given /\ given <= Len(R!text)
      /\ token.looked \in Nat /\ token.looked <= Len(R!text)
  BY DEF ReaderInv, Cursors, TokenOk
<1>3. g \in Nat /\ given <= g /\ g <= Len(R!text)
  <2>1. g \in {given, token.looked} /\ given <= g /\ g \in Nat
    BY <1>2, Larger
  <2> HIDE DEF g
  <2> QED
    BY <1>2, <2>1
<1> HIDE DEF g
<1>4. Cursors(R!text, mark, given', counted)
  BY <1>1, <1>2, <1>3 DEF ReaderInv, Cursors
<1> QED
  BY <1>1, <1>4 DEF ReaderInv, R!text, R!NoAnswer

(* A complete list answers with its frame's position and line.               *)
LEMMA CompleteKeeps ==
    ASSUME ReaderInv, lists # <<>>, R!Complete(R!Top), UNCHANGED <<R!input, R!position, forms, status>>
    PROVE  ReaderInv'
<1> DEFINE n == Len(lists)
<1>1. /\ n \in Nat \ {0} /\ IsSequence(R!Front(lists)) /\ Len(R!Front(lists)) = n - 1
      /\ \A i \in 1..n-1 : R!Front(lists)[i] = lists[i]
  BY Shorter DEF ReaderInv, Opened
<1>2. lists' = R!Front(lists) /\ answer'.from = lists[n].from /\ answer'.line = lists[n].line
  BY DEF R!Complete, R!Top
<1>3. Begun(R!text, lists[n], mark)
  BY <1>1 DEF ReaderInv, Opened
<1>4. Stamped(R!text, answer', mark)
  BY <1>2, <1>3 DEF Stamped, Begun
<1>5. Opened(R!text, lists', mark)
  <2> SUFFICES ASSUME NEW i \in 1..n-1
               PROVE  Begun(R!text, lists'[i], mark) /\ (i > 1 => lists'[i].from > lists'[i - 1].from)
    BY <1>1, <1>2 DEF Opened
  <2>1. i \in 1..n /\ (i > 1 => i - 1 \in 1..n-1)
    BY <1>1
  <2> QED
    BY <1>1, <1>2, <2>1 DEF ReaderInv, Opened
<1> QED
  BY <1>4, <1>5 DEF ReaderInv, R!input, R!position, R!text

(* A frame changed for one with the same position.                           *)
LEMMA GrowKeeps ==
    ASSUME ReaderInv, lists # <<>>, UNCHANGED <<R!input, R!position, forms, status>>,
           NEW f, R!Grow(f), Begun(R!text, f, mark), f.from = R!Top.from
    PROVE  ReaderInv'
<1> DEFINE n == Len(lists)
<1>1. n \in Nat \ {0} /\ IsSequence(lists)
  BY Shorter DEF ReaderInv, Opened
<1>2. n \in 1..n
  BY <1>1
<1>3. lists' = [lists EXCEPT ![n] = f] /\ answer' = R!NoAnswer /\ f.from = lists[n].from
  BY DEF R!Grow, R!Top
<1>4. /\ IsSequence(lists') /\ Len(lists') = n
      /\ \A i \in 1..n : lists'[i] = IF i = n THEN f ELSE lists[i]
  <2>1. n \in 1..Len(lists)
    BY <1>2
  <2> HIDE DEF n
  <2>2. /\ IsSequence([lists EXCEPT ![n] = f]) /\ Len([lists EXCEPT ![n] = f]) = Len(lists)
        /\ \A i \in 1..Len(lists) : [lists EXCEPT ![n] = f][i] = IF i = n THEN f ELSE lists[i]
    BY <1>1, <2>1, Changed
  <2> QED
    BY <1>3, <2>2 DEF n
<1>5. \A i \in 1..n : lists'[i].from = lists[i].from
  BY <1>3, <1>4
<1>6. Opened(R!text, lists', mark)
  <2> SUFFICES ASSUME NEW i \in 1..n
               PROVE  Begun(R!text, lists'[i], mark) /\ (i > 1 => lists'[i].from > lists'[i - 1].from)
    BY <1>4 DEF Opened
  <2>1. Begun(R!text, lists'[i], mark)
    BY <1>4 DEF ReaderInv, Opened
  <2>2. i > 1 => i - 1 \in 1..n
    BY <1>1
  <2>3. i > 1 => lists[i].from > lists[i - 1].from
    BY DEF ReaderInv, Opened
  <2> QED
    BY <1>5, <2>1, <2>2, <2>3
<1> QED
  BY <1>3, <1>6 DEF ReaderInv, R!input, R!position, R!text

(* A list reader's frame, one or two of its fields changed.                  *)
FrameOf(s, r, w, n, l) == [items |-> s, rest |-> r, want |-> w, from |-> n, line |-> l]

Wanting(x, v)    == [x EXCEPT !.want = v]
Holding(x, d)    == [x EXCEPT !.items = d]
Ending(x, d, v)  == [x EXCEPT !.rest = d, !.want = v]

(* The list reader changes neither where a frame began nor its line.         *)
LEMMA FrameWith ==
    ASSUME NEW s, NEW r, NEW w, NEW n, NEW l
    PROVE  /\ \A v : Wanting(FrameOf(s, r, w, n, l), v) = FrameOf(s, r, v, n, l)
           /\ \A d : Holding(FrameOf(s, r, w, n, l), d) = FrameOf(d, r, w, n, l)
           /\ \A d, v : Ending(FrameOf(s, r, w, n, l), d, v) = FrameOf(s, d, v, n, l)
<1>1. ASSUME NEW v PROVE Wanting(FrameOf(s, r, w, n, l), v) = FrameOf(s, r, v, n, l)
  BY DEF FrameOf, Wanting
<1>2. ASSUME NEW d PROVE Holding(FrameOf(s, r, w, n, l), d) = FrameOf(d, r, w, n, l)
  BY DEF FrameOf, Holding
<1>3. ASSUME NEW d, NEW v PROVE Ending(FrameOf(s, r, w, n, l), d, v) = FrameOf(s, d, v, n, l)
  <2> DEFINE x == FrameOf(s, r, w, n, l)
             y == FrameOf(s, d, w, n, l)
  <2>1. [x EXCEPT !.rest = d, !.want = v] = [[x EXCEPT !.rest = d] EXCEPT !.want = v]
    OBVIOUS
  <2>2. [x EXCEPT !.rest = d] = y
    BY DEF FrameOf
  <2>3. [y EXCEPT !.want = v] = FrameOf(s, d, v, n, l)
    BY DEF FrameOf
  <2> QED
    BY <2>1, <2>2, <2>3 DEF Ending
<1> QED
  BY <1>1, <1>2, <1>3

(* The list reader takes an answer.                                          *)
LEMMA ElementKeeps ==
    ASSUME ReaderInv, R!Element
    PROVE  ReaderInv'
<1>1. lists # <<>> /\ UNCHANGED <<R!input, R!position, forms, status>>
  BY DEF R!Element
<1>2. Begun(R!text, R!Top, mark)
  <2>1. Len(lists) \in 1..Len(lists)
    BY <1>1, Shorter DEF ReaderInv, Opened
  <2> QED
    BY <2>1 DEF ReaderInv, Opened, R!Top
<1>3. CASE R!Complete(R!Top)
  BY <1>1, <1>3, CompleteKeeps
<1>4. ASSUME NEW w \in {"item", "tail", "closer"}, NEW r, NEW s, NEW f,
             f = FrameOf(s, r, w, R!Top.from, R!Top.line)
      PROVE  Begun(R!text, f, mark) /\ f.from = R!Top.from
  BY <1>2, <1>4 DEF Begun, FrameOf
<1>5. CASE \E f : R!Grow(f) /\ Begun(R!text, f, mark) /\ f.from = R!Top.from
  BY <1>1, <1>5, GrowKeeps
<1>6. R!Complete(R!Top) \/ \E f : R!Grow(f) /\ Begun(R!text, f, mark) /\ f.from = R!Top.from
  <2> DEFINE f(s, r, w) == FrameOf(s, r, w, R!Top.from, R!Top.line)
  <2>1. /\ R!Top = f(R!Top.items, R!Top.rest, R!Top.want)
        /\ R!Top.want \in {"item", "tail", "closer"}
    BY <1>2 DEF Begun, FrameOf
  <2>2. /\ \A v : Wanting(R!Top, v) = f(R!Top.items, R!Top.rest, v)
        /\ \A d : Holding(R!Top, d) = f(d, R!Top.rest, R!Top.want)
        /\ \A d, v : Ending(R!Top, d, v) = f(R!Top.items, d, v)
    <3> DEFINE g == f(R!Top.items, R!Top.rest, R!Top.want)
    <3>1. /\ \A v : Wanting(g, v) = f(R!Top.items, R!Top.rest, v)
          /\ \A d : Holding(g, d) = f(d, R!Top.rest, R!Top.want)
          /\ \A d, v : Ending(g, d, v) = f(R!Top.items, d, v)
      BY FrameWith
    <3>2. R!Top = g
      BY <2>1
    <3> HIDE DEF f, g
    <3> QED
      BY <3>1, <3>2
  <2>3. \A s, r : \A w \in {"item", "tail", "closer"} :
           Begun(R!text, f(s, r, w), mark) /\ f(s, r, w).from = R!Top.from
    BY <1>4
  <2> HIDE DEF f
  <2>4. \/ R!Complete(R!Top)
        \/ R!Grow(Wanting(R!Top, "tail"))
        \/ \E d : R!Grow(Holding(R!Top, Append(R!Top.items, d)))
        \/ \E d : R!Grow(Ending(R!Top, d, "closer"))
    BY DEF R!Element, R!Item, R!Rest, R!Closer, Wanting, Holding, Ending
  <2> DEFINE Grows == \E g : R!Grow(g) /\ Begun(R!text, g, mark) /\ g.from = R!Top.from
  <2>5. ASSUME R!Grow(Wanting(R!Top, "tail")) PROVE Grows
    BY <2>2, <2>3, <2>5
  <2>6. ASSUME NEW d, R!Grow(Holding(R!Top, Append(R!Top.items, d))) PROVE Grows
    BY <2>1, <2>2, <2>3, <2>6
  <2>7. ASSUME NEW d, R!Grow(Ending(R!Top, d, "closer")) PROVE Grows
    BY <2>2, <2>3, <2>7
  <2> QED
    BY <2>4, <2>5, <2>6, <2>7
<1> QED
  BY <1>3, <1>5, <1>6

(* What is handed over is stamped already.                                   *)
LEMMA AnswerKeeps ==
    ASSUME ReaderInv, R!Answer
    PROVE  ReaderInv'
<1> DEFINE f == [datum |-> answer.datum, from |-> answer.from, line |-> answer.line,
                 upto |-> mark, asked |-> given]
           n == Len(forms)
<1>1. /\ answer # R!NoAnswer /\ forms' = Append(forms, f) /\ answer' = R!NoAnswer
      /\ UNCHANGED <<R!input, R!position, lists, status>>
  BY DEF R!Answer
<1>2. f.upto \in Nat /\ Stamped(R!text, f, f.upto)
  BY <1>1 DEF ReaderInv, Stamped, Cursors
<1>3. /\ IsSequence(forms') /\ Len(forms') = n + 1 /\ n \in Nat
      /\ \A i \in 1..n : forms'[i] = forms[i]
      /\ forms'[n + 1] = f
  BY <1>1, Longer DEF ReaderInv, Handed
<1> HIDE DEF f
<1>4. Handed(R!text, forms')
  <2> SUFFICES ASSUME NEW i \in 1..n+1
               PROVE  forms'[i].upto \in Nat /\ Stamped(R!text, forms'[i], forms'[i].upto)
    BY <1>3 DEF Handed
  <2>1. i \in 1..n \/ i = n + 1
    BY <1>3
  <2> QED
    BY <1>2, <1>3, <2>1 DEF ReaderInv, Handed
<1> QED
  BY <1>1, <1>4 DEF ReaderInv, R!input, R!position, R!text

(* Every step keeps it.                                                      *)
LEMMA ReaderInvNext ==
    ASSUME TypesAreThere, ReaderInv, [R!Next]_(R!vars)
    PROVE  ReaderInv'
<1>1. CASE R!ReadToken
  <2>1. PICK token \in R!Tokens :
           \/ R!Skip(token) \/ R!Atom(token) \/ R!OpenList(token) \/ R!CloseList(token) \/ R!NoMore(token)
    BY <1>1 DEF R!ReadToken
  <2>2. answer = R!NoAnswer
    BY <1>1 DEF R!ReadToken
  <2>3. TokenOk(token)
    BY <2>2, TokensOk
  <2> QED
    BY <2>1, <2>2, <2>3, SkipKeeps, AtomKeeps, OpenKeeps, CloseKeeps, NoMoreKeeps
<1>2. CASE R!Element
  BY <1>2, ElementKeeps
<1>3. CASE R!AnswerNil
  BY <1>3 DEF R!AnswerNil, ReaderInv, R!input, R!position, R!text
<1>4. CASE R!Answer
  BY <1>4, AnswerKeeps
<1>5. CASE UNCHANGED R!vars
  BY <1>5 DEF R!vars, ReaderInv, R!input, R!position, R!text, R!NoAnswer
<1> QED
  BY <1>1, <1>2, <1>3, <1>4, <1>5 DEF R!Next

(* The invariant.                                                            *)
LEMMA ReaderInvHolds ==
    ASSUME TypesAreThere
    PROVE  R!Spec => []ReaderInv
BY ReaderInvInit, ReaderInvNext, PTL DEF R!Spec

(* x_token_read, x_type_buffer_retain: the base of the buffer never passes   *)
(* the write cursor nor this the end of the input, the line counted is the   *)
(* base's, and the lists being read begin at brackets, each inside the one   *)
(* before.                                                                   *)
THEOREM ReaderTyped ==
    ASSUME TypesAreThere
    PROVE  R!Spec => []R!TypeOK
<1>1. ReaderInv => R!TypeOK
  <2> SUFFICES ASSUME ReaderInv PROVE R!TypeOK
    OBVIOUS
  <2>1. /\ 0 <= mark /\ mark <= given /\ given <= Len(R!text)
        /\ counted = R!Newlines(SubSeq(R!text, 1, mark))
    BY DEF ReaderInv, Cursors, Lines
  <2>2. \A i \in 1..Len(lists) :
           /\ lists[i].want \in {"item", "tail", "closer"}
           /\ R!text[lists[i].from + 1] = "("
           /\ i > 1 => lists[i].from > lists[i - 1].from
    BY DEF ReaderInv, Opened, Begun
  <2> QED
    BY <2>1, <2>2 DEF ReaderInv, R!TypeOK
<1> QED
  BY <1>1, ReaderInvHolds, PTL

(* x_token_read, x_sexp_list_read: whatever is handed over carries its line, *)
(* a list that of its opening bracket and an atom that of its end, however   *)
(* far the analysers looked and however the lists nest, in any text at all.  *)
THEOREM LinesAreRight ==
    ASSUME TypesAreThere
    PROVE  R!Spec => []LinesRight
<1>1. ReaderInv => LinesRight
  <2>1. R!text = text /\ \A s : R!Newlines(s) = Newlines(s)
    BY DEF R!text, text, R!Newlines, Newlines, Cardinality, R!Cardinality, IsFiniteSet, R!IsFiniteSet
  <2> QED
    BY <2>1 DEF ReaderInv, LinesRight, Handed, Stamped, Lines
<1> QED
  BY <1>1, ReaderInvHolds, PTL
=============================================================================
