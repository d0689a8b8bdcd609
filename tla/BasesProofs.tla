---------------------------- MODULE BasesProofs -----------------------------
(* Errors, guards and evaluations across bases, for every number of bases    *)
(* and every depth of the stack: what a frame gives back when it ends is     *)
(* what the registers were when it was pushed, so that between raises they   *)
(* are what the stack says, and a raise finds the innermost frame that waits *)
(* for it.                                                                   *)
EXTENDS Bases, SequenceTheorems, NaturalsInduction, WellFoundedInduction, TLAPS

(* Handlers and frames that were really made: none is named 0.               *)
Saved  == [id : Id, env : Id \cup {RootEnv}]
Frames == [id : Id, kind : Kind, base : Base, in : Base,
           env : Id \cup {RootEnv}, prev : Seq(Saved), roots : Seq(Id)]
Stacks == Seq(Frames)
Conts  == [base : Base, stack : Stacks, env : Id \cup {RootEnv}, slot : Seq(Saved),
           chain : Seq(Id), held : BOOLEAN]
Cells  == [Base -> Seq(Seq(Saved))]

(* The types, as strong as the steps need them.                              *)
Typed ==
    /\ program \in Programs
    /\ stack \in Stacks /\ Len(stack) <= program.depth
    /\ cells \in Cells
    /\ env \in [Base -> Id \cup {RootEnv}]
    /\ chain \in [Base -> Seq(Id)]
    /\ jump \in Saved \cup {NoJump}
    /\ exited \in BOOLEAN /\ (exited => jump = NoJump)
    /\ cont \in Conts /\ Len(cont.stack) <= program.depth

-----------------------------------------------------------------------------
(* The least of a set of naturals.                                           *)
LEMMA Least ==
    ASSUME NEW T, T \subseteq Nat, T # {}
    PROVE  \E x \in T : \A y \in T : x <= y
<1> DEFINE Less == {p \in Nat \X Nat : p[1] < p[2]}
<1>1. IsWellFoundedOn(OpToRel(<, Nat), Nat)
  BY NatLessThanWellFounded
<1>2. OpToRel(<, Nat) = Less
  BY DEF OpToRel
<1>3. \E x \in T : \A y \in T : <<y, x>> \notin Less
  <2> HIDE DEF Less
  <2> QED
    BY <1>1, <1>2, WFMin
<1>4. PICK x \in T : \A y \in T : <<y, x>> \notin Less
  BY <1>3
<1>5. ASSUME NEW y \in T PROVE x <= y
  <2>1. x \in Nat /\ y \in Nat
    OBVIOUS
  <2>2. y < x => <<y, x>> \in Less
    BY <2>1
  <2> QED
    BY <1>4, <2>1, <2>2
<1> QED
  BY <1>5

(* The greatest of a bounded one.                                            *)
LEMMA Greatest ==
    ASSUME NEW N \in Nat, NEW T, T \subseteq 0..N, T # {}
    PROVE  \E x \in T : \A y \in T : y <= x
<1> DEFINE U == {N - x : x \in T}
<1>1. U \subseteq Nat /\ U # {}
  <2>1. ASSUME NEW x \in T PROVE N - x \in Nat /\ N - x \in U
    OBVIOUS
  <2> QED
    BY <2>1
<1>2. PICK u \in U : \A w \in U : u <= w
  <2> HIDE DEF U
  <2> QED
    BY <1>1, Least
<1>3. PICK x \in T : u = N - x
  OBVIOUS
<1>4. ASSUME NEW y \in T PROVE y <= x
  <2>1. N - y \in U /\ x \in 0..N /\ y \in 0..N
    OBVIOUS
  <2>2. N - x <= N - y
    BY <1>2, <1>3, <2>1
  <2> QED
    BY <2>1, <2>2
<1> QED
  BY <1>4

(* What no step between two points changes is the same at both.              *)
LEMMA Still ==
    ASSUME NEW n \in Nat, NEW m \in 0..n, NEW f, \A i \in m + 1..n : f[i] = f[i - 1]
    PROVE  f[n] = f[m]
<1> DEFINE T == {k \in m..n : f[k] # f[m]}
<1>1. T = {}
  <2> SUFFICES ASSUME T # {} PROVE FALSE
    OBVIOUS
  <2>1. T \subseteq Nat
    OBVIOUS
  <2>2. PICK k \in T : \A j \in T : k <= j
    <3> HIDE DEF T
    <3> QED
      BY <2>1, Least
  <2>3. k \in m + 1..n /\ f[k] # f[m]
    OBVIOUS
  <2>4. k - 1 \in m..n /\ k - 1 \notin T
    BY <2>2, <2>3
  <2> QED
    BY <2>3, <2>4
<1>2. n \in m..n
  OBVIOUS
<1> QED
  BY <1>1, <1>2

-----------------------------------------------------------------------------
(* A fresh name is one that nothing holds.                                   *)
LEMMA NewIdFresh ==
    ASSUME Free # {}
    PROVE  NewId \in Id /\ NewId \notin Held
<1>1. Free \subseteq Nat
  BY BasesAssumption DEF Free
<1>2. \E i \in Free : \A j \in Free : i <= j
  BY <1>1, Least
<1> QED
  BY <1>2 DEF NewId, Free

LEMMA NoneNamedZero == 0 \notin Id /\ NoJump \notin Saved /\ NoJump.id = 0
BY BasesAssumption DEF NoJump, Saved

(* The frames below one.                                                     *)
LEMMA FramesBelow ==
    ASSUME NEW s \in Stacks, NEW n \in 1..Len(s)
    PROVE  /\ SubSeq(s, 1, n - 1) \in Stacks /\ Len(SubSeq(s, 1, n - 1)) = n - 1
           /\ \A i \in 1..n - 1 : SubSeq(s, 1, n - 1)[i] = s[i]
<1>1. Len(s) \in Nat
  BY LenProperties DEF Stacks
<1>2. \A i \in 1..(n - 1) : s[i] \in Frames
  BY <1>1, ElementOfSeq DEF Stacks
<1>3. /\ SubSeq(s, 1, n - 1) \in Seq(Frames)
      /\ Len(SubSeq(s, 1, n - 1)) = IF 1 <= n - 1 THEN (n - 1) - 1 + 1 ELSE 0
      /\ \A i \in 1..(n - 1) - 1 + 1 : SubSeq(s, 1, n - 1)[i] = s[1 + i - 1]
  BY <1>1, <1>2, SubSeqProperties
<1> QED
  BY <1>1, <1>3 DEF Stacks

(* The stack without its newest frame, and the frame.                        *)
LEMMA TopOf ==
    ASSUME NEW s \in Stacks, s # <<>>
    PROVE  /\ Len(s) \in Nat \ {0} /\ Last(s) = s[Len(s)] /\ s[Len(s)] \in Frames
           /\ Front(s) \in Stacks /\ Len(Front(s)) = Len(s) - 1
           /\ \A i \in 1..Len(s) - 1 : Front(s)[i] = s[i]
<1>1. Len(s) \in Nat \ {0}
  BY EmptySeq DEF Stacks
<1>2. Len(s) \in 1..Len(s)
  BY <1>1
<1>3. s[Len(s)] \in Frames
  BY <1>2, ElementOfSeq DEF Stacks
<1>4. Front(s) = SubSeq(s, 1, Len(s) - 1)
  BY DEF Front
<1>5. Last(s) = s[Len(s)]
  BY DEF Last
<1> QED
  BY <1>1, <1>2, <1>3, <1>4, <1>5, FramesBelow

LEMMA RunningTyped ==
    ASSUME Typed
    PROVE  Running \in Base
<1>1. stack # <<>> => Last(stack) \in Frames
  BY TopOf DEF Typed
<1> QED
  BY <1>1 DEF Running, Top, Frames, Base

(* Cells after the top one's slot is set, a cell pushed, or the top one lost.*)
LEMMA CellsTyped ==
    ASSUME NEW c \in Cells, NEW b \in Base, NEW hs \in Seq(Saved)
    PROVE  /\ [c EXCEPT ![b] = <<hs>> \o @] \in Cells
           /\ [c EXCEPT ![b] = <<hs>> \o Tail(@)] \in Cells
           /\ [c EXCEPT ![b] = Tail(@)] \in Cells
           /\ c[b] # <<>> => Head(c[b]) \in Seq(Saved)
<1>1. c[b] \in Seq(Seq(Saved)) /\ <<hs>> \in Seq(Seq(Saved))
  BY DEF Cells
<1>2. Tail(c[b]) \in Seq(Seq(Saved))
  <2>1. CASE c[b] = <<>>
    BY <2>1
  <2>2. CASE c[b] # <<>>
    BY <1>1, <2>2, HeadTailProperties
  <2> QED
    BY <2>1, <2>2
<1>3. <<hs>> \o c[b] \in Seq(Seq(Saved)) /\ <<hs>> \o Tail(c[b]) \in Seq(Seq(Saved))
  BY <1>1, <1>2, ConcatProperties
<1>4. c[b] # <<>> => Head(c[b]) \in Seq(Saved)
  BY <1>1, HeadTailProperties
<1> QED
  BY <1>1, <1>2, <1>3, <1>4 DEF Cells

(* A raise jumps to a real handler, or ends the process.                     *)
Envs == [Base -> Id \cup {RootEnv}]
Raised(b, cs, e) ==
    IF Head(cs[b]) = <<>>
    THEN exited' = TRUE /\ jump' = NoJump /\ env' = e
    ELSE /\ jump' = Head(Head(cs[b])) /\ jump' \in Saved /\ jump' # NoJump /\ exited' = FALSE
         /\ env' = [e EXCEPT ![b] = jump'.env] /\ env' \in Envs

LEMMA Raises ==
    ASSUME NEW b \in Base, NEW cs \in Cells, NEW e \in Envs, exited = FALSE,
           RaiseIn(b, cs, e)
    PROVE  cs[b] # <<>> /\ Raised(b, cs, e)
<1>1. cs[b] # <<>> /\ cs[b] \in Seq(Seq(Saved))
  BY DEF RaiseIn, Cells
<1>2. Head(cs[b]) \in Seq(Saved)
  BY <1>1, HeadTailProperties
<1>3. CASE Head(cs[b]) = <<>>
  BY <1>1, <1>3 DEF RaiseIn, Raised
<1>4. CASE Head(cs[b]) # <<>>
  <2>1. Head(Head(cs[b])) \in Saved
    BY <1>2, <1>4, HeadTailProperties
  <2>2. Head(Head(cs[b])) # NoJump /\ Head(Head(cs[b])).env \in Id \cup {RootEnv}
    BY <2>1, NoneNamedZero DEF Saved
  <2>3. /\ jump' = Head(Head(cs[b])) /\ exited' = FALSE
        /\ env' = [e EXCEPT ![b] = Head(Head(cs[b])).env]
    BY <1>4 DEF RaiseIn
  <2> HIDE DEF Saved
  <2>4. env' \in Envs
    BY <2>2, <2>3 DEF Envs
  <2> QED
    BY <1>1, <1>4, <2>1, <2>2, <2>3, <2>4 DEF Raised
<1> QED
  BY <1>3, <1>4

-----------------------------------------------------------------------------
(* The types hold, whatever the programs do with bases and continuations.    *)
LEMMA InitTyped ==
    ASSUME Init
    PROVE  Typed
<1>1. <<>> \in Stacks /\ Len(<<>>) = 0 /\ <<>> \in Seq(Saved) /\ <<>> \in Seq(Id)
  BY EmptySeq DEF Stacks
<1>2. << <<>> >> \in Seq(Seq(Saved))
  BY <1>1
<1>3. program.depth \in Nat
  BY BasesAssumption DEF Init
<1>4. NoCont \in Conts
  BY <1>1 DEF NoCont, Conts, Base
<1>5. cells \in Cells /\ env \in [Base -> Id \cup {RootEnv}] /\ chain \in [Base -> Seq(Id)]
  BY <1>1, <1>2 DEF Init, Cells
<1>6. NoCont.stack = <<>>
  BY DEF NoCont
<1>7. /\ stack \in Stacks /\ Len(stack) <= program.depth
      /\ cont \in Conts /\ Len(cont.stack) <= program.depth
  BY <1>1, <1>3, <1>4, <1>6 DEF Init
<1>8. program \in Programs /\ jump \in Saved \cup {NoJump} /\ exited = FALSE
  BY DEF Init
<1> QED
  BY <1>5, <1>7, <1>8 DEF Typed

(* What is pushed is a frame, with a name of its own.                        *)
Fresh(f) == f \in Frames /\ f.id = NewId /\ NewId \in Id /\ NewId \notin Held
Pushes(f) == CanPush /\ Fresh(f) /\ stack' = Append(stack, f)

LEMMA PushTyped ==
    ASSUME Typed, NEW f, Pushes(f)
    PROVE  stack' \in Stacks /\ Len(stack') = Len(stack) + 1 /\ Len(stack') <= program.depth
<1>1. f \in Frames /\ stack \in Seq(Frames) /\ Len(stack) < program.depth /\ program.depth \in Nat
  BY BasesAssumption DEF Pushes, Fresh, Typed, Stacks, CanPush
<1>2. Append(stack, f) \in Seq(Frames) /\ Len(Append(stack, f)) = Len(stack) + 1
  BY <1>1, AppendProperties
<1> QED
  BY <1>1, <1>2 DEF Pushes, Stacks

(* The frames a call, a guard and a base-eval push.                          *)
CallFrame  == [id |-> NewId, kind |-> "body", base |-> Running, in |-> Running,
               env |-> env[Running], prev |-> <<>>, roots |-> <<>>]
GuardFrame == [id |-> NewId, kind |-> "guard", base |-> Running, in |-> Running,
               env |-> env[Running], prev |-> Slot(Running), roots |-> chain[Running]]
EvalFrame(t) == [id |-> NewId, kind |-> "eval", base |-> Running, in |-> t,
                 env |-> env[t], prev |-> <<>>, roots |-> <<>>]

LEMMA FramesPushed ==
    ASSUME Typed
    PROVE  /\ Call => Pushes(CallFrame)
           /\ Guard => Pushes(GuardFrame)
           /\ \A t \in Base : BaseEval(t) => Pushes(EvalFrame(t))
<1>1. Running \in Base
  BY RunningTyped
<1>2. \A b \in Base : env[b] \in Id \cup {RootEnv} /\ chain[b] \in Seq(Id)
  BY DEF Typed
<1>3. <<>> \in Seq(Saved) /\ <<>> \in Seq(Id)
  BY EmptySeq
<1>4. CanPush => NewId \in Id /\ NewId \notin Held
  BY NewIdFresh DEF CanPush
<1>5. Call => Pushes(CallFrame)
  BY <1>1, <1>2, <1>3, <1>4 DEF Call, Pushes, Fresh, CallFrame, Frames, Kind
<1>6. ASSUME Guard PROVE Pushes(GuardFrame)
  <2>1. Slot(Running) \in Seq(Saved)
    <3>1. cells[Running] # <<>> /\ cells[Running] \in Seq(Seq(Saved))
      BY <1>1, <1>6 DEF Guard, Typed, Cells
    <3> QED
      BY <3>1, HeadTailProperties DEF Slot
  <2> QED
    BY <1>1, <1>2, <1>4, <1>6, <2>1 DEF Guard, Pushes, Fresh, GuardFrame, Frames, Kind
<1>7. ASSUME NEW t \in Base, BaseEval(t) PROVE Pushes(EvalFrame(t))
  BY <1>1, <1>2, <1>3, <1>4, <1>7 DEF BaseEval, Pushes, Fresh, EvalFrame, Frames, Kind
<1> QED
  BY <1>5, <1>6, <1>7

(* The frame a jump is to.                                                   *)
LEMMA AtIs ==
    ASSUME Typed, jump.id \in Live
    PROVE  /\ At \in 1..Len(stack) /\ stack[At].id = jump.id /\ stack[At] \in Frames
           /\ Len(stack) \in Nat
<1>1. stack \in [1..Len(stack) -> Frames] /\ DOMAIN stack = 1..Len(stack) /\ Len(stack) \in Nat
  BY LenProperties DEF Typed, Stacks
<1>2. \E i \in DOMAIN stack : stack[i].id = jump.id
  BY DEF Live
<1>3. At \in DOMAIN stack /\ stack[At].id = jump.id
  BY <1>2 DEF At
<1> QED
  BY <1>1, <1>3

(* What Catch leaves on the stack.                                           *)
Handling(f) == [f EXCEPT !.kind = "handling"]
Caught(n) == Append(SubSeq(stack, 1, n - 1), Handling(stack[n]))

LEMMA CaughtTyped ==
    ASSUME Typed, NEW n \in 1..Len(stack)
    PROVE  /\ Handling(stack[n]) \in Frames
           /\ Caught(n) \in Stacks /\ Len(Caught(n)) = n /\ n <= program.depth
           /\ \A i \in 1..n - 1 : Caught(n)[i] = stack[i]
           /\ Caught(n)[n] = Handling(stack[n])
<1>1. stack[n] \in Frames
  BY ElementOfSeq DEF Typed, Stacks
<1>2. Handling(stack[n]) \in Frames
  BY <1>1 DEF Handling, Frames, Kind
<1>3. SubSeq(stack, 1, n - 1) \in Seq(Frames) /\ Len(SubSeq(stack, 1, n - 1)) = n - 1
      /\ \A i \in 1..n - 1 : SubSeq(stack, 1, n - 1)[i] = stack[i]
  BY FramesBelow DEF Typed, Stacks
<1>4. n \in Nat /\ n <= program.depth
  <2>1. Len(stack) \in Nat /\ program.depth \in Nat
    BY LenProperties, BasesAssumption DEF Typed, Stacks
  <2> QED
    BY <2>1 DEF Typed
<1> DEFINE u == SubSeq(stack, 1, n - 1)
           h == Handling(stack[n])
<1>5. /\ Append(u, h) \in Seq(Frames) /\ Len(Append(u, h)) = Len(u) + 1
      /\ \A i \in 1..Len(u) : Append(u, h)[i] = u[i]
      /\ Append(u, h)[Len(u) + 1] = h
  BY <1>2, <1>3, AppendProperties
<1>6. Caught(n) = Append(u, h)
  BY DEF Caught
<1> HIDE DEF u, h
<1>7. Len(u) = n - 1 /\ Len(u) + 1 = n
  BY <1>3, <1>4 DEF u
<1>8. \A i \in 1..n - 1 : Append(u, h)[i] = stack[i]
  BY <1>3, <1>5, <1>7 DEF u
<1> QED
  BY <1>2, <1>4, <1>5, <1>6, <1>7, <1>8 DEF Stacks, h

LEMMA StepTyped ==
    ASSUME Typed, [Next]_vars
    PROVE  Typed'
<1> DEFINE Same == program' = program
<1>1. Running \in Base
  BY RunningTyped
<1>2. program.depth \in Nat /\ Len(stack) \in Nat /\ DOMAIN stack = 1..Len(stack)
  BY BasesAssumption, LenProperties DEF Typed, Stacks
<1>3. /\ \A b \in Base : env[b] \in Id \cup {RootEnv} /\ chain[b] \in Seq(Id)
      /\ \A b \in Base : cells[b] \in Seq(Seq(Saved))
  BY DEF Typed, Cells
<1>4. /\ CanPush => NewId \in Id
      /\ jump \in Saved \cup {NoJump}
  BY NewIdFresh DEF CanPush, Typed
<1>5. stack # <<>> =>
        /\ Top \in Frames /\ Front(stack) \in Stacks /\ Len(Front(stack)) <= program.depth
  <2> SUFFICES ASSUME stack # <<>>
               PROVE  Top \in Frames /\ Front(stack) \in Stacks /\ Len(Front(stack)) <= program.depth
    OBVIOUS
  <2>1. /\ Len(stack) \in Nat \ {0} /\ Last(stack) = stack[Len(stack)] /\ stack[Len(stack)] \in Frames
        /\ Front(stack) \in Stacks /\ Len(Front(stack)) = Len(stack) - 1
    BY TopOf DEF Typed
  <2> QED
    BY <1>2, <2>1 DEF Top, Typed
<1>6. ASSUME Call, Same PROVE Typed'
  <2>1. Pushes(CallFrame)
    BY <1>6, FramesPushed
  <2>2. stack' \in Stacks /\ Len(stack') <= program.depth
    BY <2>1, PushTyped
  <2>3. chain' = [chain EXCEPT ![Running] = <<NewId>> \o @] /\ env' = [env EXCEPT ![Running] = NewId]
        /\ NewId \in Id
    BY <1>4, <1>6 DEF Call
  <2>4. <<NewId>> \o chain[Running] \in Seq(Id)
    <3>1. <<NewId>> \in Seq(Id) /\ chain[Running] \in Seq(Id)
      BY <1>1, <1>3, <2>3
    <3> QED
      BY <3>1, ConcatProperties
  <2> QED
    BY <1>6, <2>2, <2>3, <2>4 DEF Call, Typed
<1>7. ASSUME Return, Same PROVE Typed'
  <2>1. Top \in Frames /\ stack' \in Stacks /\ Len(stack') <= program.depth
    BY <1>5, <1>7 DEF Return
  <2>2. Top.base \in Base /\ Top.env \in Id \cup {RootEnv}
    BY <2>1 DEF Frames
  <2>3. (IF chain[Top.base] = <<>> THEN chain[Top.base] ELSE Tail(chain[Top.base])) \in Seq(Id)
    BY <1>3, <2>2, HeadTailProperties
  <2>4. /\ chain' = [chain EXCEPT ![Top.base] = IF @ = <<>> THEN @ ELSE Tail(@)]
        /\ env' = [env EXCEPT ![Top.base] = Top.env]
    BY <1>7 DEF Return
  <2>5. chain' \in [Base -> Seq(Id)] /\ env' \in [Base -> Id \cup {RootEnv}]
    BY <2>2, <2>3, <2>4 DEF Typed
  <2> QED
    BY <1>7, <2>1, <2>5 DEF Return, Typed
<1>8. ASSUME Guard, Same PROVE Typed'
  <2>1. Pushes(GuardFrame)
    BY <1>8, FramesPushed
  <2>2. stack' \in Stacks /\ Len(stack') <= program.depth
    BY <2>1, PushTyped
  <2>3. cells[Running] # <<>> /\ cells' = WithSlot(Running, GuardHandler(NewId, Running)) /\ NewId \in Id
    BY <1>4, <1>8 DEF Guard
  <2>4. GuardHandler(NewId, Running) \in Seq(Saved)
    <3>1. [id |-> NewId, env |-> env[Running]] \in Saved
      BY <1>1, <1>3, <2>3 DEF Saved
    <3>2. Slot(Running) \in Seq(Saved)
      BY <1>1, <1>3, <2>3, HeadTailProperties DEF Slot
    <3>3. <<[id |-> NewId, env |-> env[Running]]>> \in Seq(Saved)
      <4> HIDE DEF Saved
      <4> QED
        BY <3>1
    <3> QED
      BY <3>2, <3>3, ConcatProperties DEF GuardHandler
  <2>5. cells' \in Cells
    BY <1>1, <2>3, <2>4, CellsTyped DEF WithSlot, Typed
  <2> QED
    BY <1>8, <2>2, <2>5 DEF Guard, Typed
<1>9. ASSUME EndGuard, Same PROVE Typed'
  <2>1. Top \in Frames /\ stack' \in Stacks /\ Len(stack') <= program.depth
    BY <1>5, <1>9 DEF EndGuard
  <2>2. Top.base \in Base /\ Top.env \in Id \cup {RootEnv} /\ Top.prev \in Seq(Saved)
    BY <2>1 DEF Frames
  <2>3. cells' \in Cells
    BY <1>9, <2>2, CellsTyped DEF EndGuard, WithSlot, Typed
  <2>4. GuardEnv(Top) \in Id \cup {RootEnv}
    BY <1>3, <2>2 DEF GuardEnv
  <2>5. env' \in [Base -> Id \cup {RootEnv}]
    BY <1>9, <2>2, <2>4 DEF EndGuard, Typed
  <2> QED
    BY <1>9, <2>1, <2>3, <2>5 DEF EndGuard, Typed
<1>10. ASSUME NEW t \in Base, BaseEval(t), Same PROVE Typed'
  <2>1. Pushes(EvalFrame(t))
    BY <1>10, FramesPushed
  <2>2. stack' \in Stacks /\ Len(stack') <= program.depth
    BY <2>1, PushTyped
  <2>3. cells' = [cells EXCEPT ![t] = << <<[id |-> NewId, env |-> env[t]]>> >> \o @] /\ NewId \in Id
    BY <1>4, <1>10 DEF BaseEval
  <2>4. <<[id |-> NewId, env |-> env[t]]>> \in Seq(Saved)
    <3>1. [id |-> NewId, env |-> env[t]] \in Saved
      BY <1>3, <2>3 DEF Saved
    <3> HIDE DEF Saved
    <3> QED
      BY <3>1
  <2>5. cells' \in Cells
    BY <2>3, <2>4, CellsTyped DEF Typed
  <2> QED
    BY <1>10, <2>2, <2>5 DEF BaseEval, Typed
<1>11. ASSUME EndEval, Same PROVE Typed'
  <2>1. Top \in Frames /\ stack' \in Stacks /\ Len(stack') <= program.depth
    BY <1>5, <1>11 DEF EndEval
  <2>2. Top.in \in Base
    BY <2>1 DEF Frames
  <2>3. <<>> \in Seq(Saved)
    BY EmptySeq
  <2>4. cells' \in Cells
    BY <1>11, <2>2, <2>3, CellsTyped DEF EndEval, Popped, Typed
  <2> QED
    BY <1>11, <2>1, <2>4 DEF EndEval, Typed
<1>12. ASSUME Error, Same PROVE Typed'
  <2>1. exited = FALSE /\ RaiseIn(Running, cells, env)
    BY <1>12 DEF Error, Steady, Typed
  <2>2. cells \in Cells /\ env \in Envs
    BY DEF Typed, Envs
  <2>3. Raised(Running, cells, env)
    BY <1>1, <2>1, <2>2, Raises
  <2> QED
    BY <1>12, <2>2, <2>3 DEF Error, Raised, Typed, Envs
<1>13. ASSUME Catch, Same PROVE Typed'
  <2>1. /\ At \in 1..Len(stack) /\ stack[At] \in Frames /\ jump # NoJump
    BY <1>13, AtIs DEF Catch
  <2>2. stack' = Caught(At)
    BY <1>13 DEF Catch, Caught, Handling
  <2>3. stack' \in Stacks /\ Len(stack') <= program.depth
    BY <2>1, <2>2, CaughtTyped
  <2>4. /\ stack[At].base \in Base /\ stack[At].prev \in Seq(Saved)
        /\ stack[At].roots \in Seq(Id) /\ stack[At].id \in Id
    BY <2>1 DEF Frames
  <2>5. cells' \in Cells
    <3>1. cells' = WithSlot(stack[At].base, stack[At].prev)
      BY <1>13 DEF Catch, SlotBack
    <3> QED
      BY <2>4, <3>1, CellsTyped DEF WithSlot, Typed
  <2>6. /\ chain' = [chain EXCEPT ![stack[At].base] = stack[At].roots]
        /\ env' = [env EXCEPT ![stack[At].base] = stack[At].id]
    BY <1>13 DEF Catch, RootsBack
  <2>7. exited' = exited /\ jump' = NoJump /\ cont' = cont
    BY <1>13 DEF Catch
  <2> QED
    BY <1>13, <2>3, <2>4, <2>5, <2>6, <2>7 DEF Typed
<1>14. ASSUME Propagate, Same PROVE Typed'
  <2> DEFINE f == stack[At]
  <2>1. /\ At \in 1..Len(stack) /\ f \in Frames /\ jump # NoJump
    BY <1>14, AtIs DEF Propagate
  <2>2. f.base \in Base /\ f.in \in Base
    BY <2>1 DEF Frames
  <2>3. stack' \in Stacks /\ Len(stack') = At - 1
    BY <1>14, <2>1, FramesBelow DEF Propagate, Typed
  <2>4. Len(stack') <= program.depth
    <3>1. Len(stack) <= program.depth
      BY DEF Typed
    <3> QED
      BY <1>2, <2>1, <2>3, <3>1
  <2>5. <<>> \in Seq(Saved)
    BY EmptySeq
  <2>6. Popped(f.in) \in Cells
    <3> HIDE DEF f
    <3> QED
      BY <2>2, <2>5, CellsTyped DEF Popped, Typed
  <2>7. TargetEnv(f) \in Envs
    <3>1. jump.env \in Id \cup {RootEnv}
      BY <2>1 DEF Typed, Saved
    <3> HIDE DEF f
    <3> QED
      BY <2>2, <3>1 DEF TargetEnv, Typed, Envs
  <2>8. exited = FALSE /\ cells' = Popped(f.in) /\ RaiseIn(f.base, Popped(f.in), TargetEnv(f))
    BY <1>14, <2>1 DEF Propagate, Typed
  <2>9. Raised(f.base, Popped(f.in), TargetEnv(f))
    <3> HIDE DEF f
    <3> QED
      BY <2>2, <2>6, <2>7, <2>8, Raises
  <2>10. jump' \in Saved \cup {NoJump} /\ exited' \in BOOLEAN /\ (exited' => jump' = NoJump)
         /\ env' \in Envs
    <3> HIDE DEF f
    <3> QED
      BY <2>7, <2>9 DEF Raised
  <2> QED
    BY <1>14, <2>3, <2>4, <2>6, <2>8, <2>10 DEF Propagate, Typed, Envs
<1>15. ASSUME Capture, Same PROVE Typed'
  <2>1. Slot(Running) \in Seq(Saved)
    BY <1>1, <1>3, <1>15, HeadTailProperties DEF Capture, Slot
  <2>2. cont' \in Conts /\ cont'.stack = stack
    BY <1>1, <1>3, <1>15, <2>1 DEF Capture, Conts, Typed
  <2> QED
    BY <1>15, <2>2 DEF Capture, Typed
<1>16. ASSUME Invoke, Same PROVE Typed'
  <2>1. /\ cont.base \in Base /\ cont.stack \in Stacks /\ cont.env \in Id \cup {RootEnv}
        /\ cont.slot \in Seq(Saved) /\ cont.chain \in Seq(Id)
    BY DEF Typed, Conts
  <2>2. cells' \in Cells
    BY <1>16, <2>1, CellsTyped DEF Invoke, WithSlot, Typed
  <2> QED
    BY <1>16, <2>1, <2>2 DEF Invoke, EnvBack, ChainBack, Typed
<1>17. CASE UNCHANGED vars
  BY <1>17 DEF vars, Typed
<1> QED
  BY <1>6, <1>7, <1>8, <1>9, <1>10, <1>11, <1>12, <1>13, <1>14, <1>15, <1>16, <1>17 DEF Next, Step

LEMMA TypedAsStated ==
    ASSUME Typed
    PROVE  TypeOK
<1>1. Saved \subseteq Handler
  BY DEF Saved, Handler
<1>2. \A s \in Seq(Saved) : s \in Seq(Handler)
  BY <1>1, SeqMonotonic
<1>3. \A s \in Seq(Seq(Saved)) : s \in Seq(Seq(Handler))
  BY <1>2, SeqMonotonic
<1>4. cells \in [Base -> Seq(Seq(Handler))]
  BY <1>3 DEF Typed, Cells
<1>5. Frames \subseteq Frame
  BY <1>2 DEF Frames, Frame
<1>6. stack \in Seq(Frame) /\ cont.stack \in Seq(Frame) /\ cont.base \in Base
  BY <1>5, SeqMonotonic DEF Typed, Stacks, Conts
<1>7. jump \in Handler
  BY <1>1 DEF Typed, NoJump, Handler
<1> QED
  BY <1>4, <1>6, <1>7 DEF Typed, TypeOK

(* Every state the program can be in has the types the engine keeps.         *)
THEOREM TypesHold == Spec => []TypeOK
<1>1. Init => Typed
  BY InitTyped
<1>2. Typed /\ [Next]_vars => Typed'
  BY StepTyped
<1>3. Typed => TypeOK
  BY TypedAsStated
<1> QED
  BY <1>1, <1>2, <1>3, PTL DEF Spec

-----------------------------------------------------------------------------
(* How frames may stand on one another: each runs in the base the one below  *)
(* evaluates in, only a base-eval evaluates in another base, and in which is *)
(* a matter of the bases the program holds.  No two have one name.           *)
RunningAt(stk, n) == IF n = 0 THEN Host ELSE stk[n].in
OnTop(uses, f, b) ==
    /\ f.base = b
    /\ f.kind # "eval" => f.in = f.base
    /\ "children" \notin uses => f.base = Host /\ f.in = Host
    /\ "reentry" \notin uses /\ f.base # Host => f.in = f.base
Distinct(stk) == \A i, j \in 1..Len(stk) : stk[i].id = stk[j].id => i = j
WellStacked(uses, stk) ==
    Distinct(stk) /\ \A i \in 1..Len(stk) : OnTop(uses, stk[i], RunningAt(stk, i - 1))

Stacked ==
    /\ WellStacked(program.uses, stack)
    /\ WellStacked(program.uses, cont.stack)
    /\ cont.base = RunningAt(cont.stack, Len(cont.stack))

(* What the steps do to a stack: keep its n oldest frames, and put one on    *)
(* them or none.                                                             *)
Cut(s, t, n) == n \in 0..Len(s) /\ t \in Stacks /\ Len(t) = n /\ \A i \in 1..n : t[i] = s[i]
Grown(s, t, n, f) ==
    /\ n \in 0..Len(s) /\ f \in Frames
    /\ t \in Stacks /\ Len(t) = n + 1 /\ \A i \in 1..n : t[i] = s[i]
    /\ t[n + 1] = f

LEMMA PushGrows ==
    ASSUME Typed, NEW f, Pushes(f)
    PROVE  /\ Grown(stack, stack', Len(stack), f)
           /\ \A i \in 1..Len(stack) : stack[i].id # f.id
<1>1. f \in Frames /\ stack \in Seq(Frames) /\ stack' = Append(stack, f)
  BY DEF Pushes, Fresh, Typed, Stacks
<1>2. /\ Append(stack, f) \in Seq(Frames) /\ Len(Append(stack, f)) = Len(stack) + 1
      /\ \A i \in 1..Len(stack) : Append(stack, f)[i] = stack[i]
      /\ Append(stack, f)[Len(stack) + 1] = f
  BY <1>1, AppendProperties
<1>3. Len(stack) \in Nat /\ DOMAIN stack = 1..Len(stack)
  BY <1>1, LenProperties
<1>4. ASSUME NEW i \in 1..Len(stack) PROVE stack[i].id # f.id
  <2>1. stack[i] \in ToSet(stack)
    BY <1>3 DEF ToSet
  <2>2. stack[i].id \in Named(stack)
    BY <2>1 DEF Named
  <2>3. stack[i].id \in Held
    BY <2>2 DEF Held
  <2> QED
    BY <2>3 DEF Pushes, Fresh
<1> QED
  BY <1>1, <1>2, <1>3, <1>4 DEF Grown, Stacks

LEMMA PopCuts ==
    ASSUME Typed, stack # <<>>, stack' = Front(stack)
    PROVE  /\ Cut(stack, stack', Len(stack) - 1)
           /\ Top = stack[Len(stack)] /\ Top \in Frames /\ Len(stack) \in Nat \ {0}
<1>1. /\ Len(stack) \in Nat \ {0} /\ Last(stack) = stack[Len(stack)] /\ stack[Len(stack)] \in Frames
      /\ Front(stack) \in Stacks /\ Len(Front(stack)) = Len(stack) - 1
      /\ \A i \in 1..Len(stack) - 1 : Front(stack)[i] = stack[i]
  BY TopOf DEF Typed
<1> QED
  BY <1>1 DEF Cut, Top

LEMMA PropagateCuts ==
    ASSUME Typed, Propagate
    PROVE  /\ At \in 1..Len(stack) /\ stack[At] \in Frames /\ stack[At].id = jump.id
           /\ Len(stack) \in Nat /\ Cut(stack, stack', At - 1)
<1>1. /\ At \in 1..Len(stack) /\ stack[At] \in Frames /\ stack[At].id = jump.id
      /\ Len(stack) \in Nat
  BY AtIs DEF Propagate
<1>2. stack' = SubSeq(stack, 1, At - 1)
  BY DEF Propagate
<1>3. /\ SubSeq(stack, 1, At - 1) \in Stacks /\ Len(SubSeq(stack, 1, At - 1)) = At - 1
      /\ \A i \in 1..At - 1 : SubSeq(stack, 1, At - 1)[i] = stack[i]
  BY <1>1, FramesBelow DEF Typed
<1> QED
  BY <1>1, <1>2, <1>3 DEF Cut

LEMMA CatchGrows ==
    ASSUME Typed, Catch
    PROVE  /\ At \in 1..Len(stack) /\ stack[At] \in Frames /\ stack[At].id = jump.id
           /\ Len(stack) \in Nat /\ Grown(stack, stack', At - 1, Handling(stack[At]))
<1>1. /\ At \in 1..Len(stack) /\ stack[At] \in Frames /\ stack[At].id = jump.id
      /\ Len(stack) \in Nat
  BY AtIs DEF Catch
<1>2. stack' = Caught(At)
  BY DEF Catch, Caught, Handling
<1>3. /\ Handling(stack[At]) \in Frames
      /\ Caught(At) \in Stacks /\ Len(Caught(At)) = At
      /\ \A i \in 1..At - 1 : Caught(At)[i] = stack[i]
      /\ Caught(At)[At] = Handling(stack[At])
  BY <1>1, CaughtTyped
<1>4. At - 1 \in 0..Len(stack) /\ (At - 1) + 1 = At
  BY <1>1
<1> QED
  BY <1>1, <1>2, <1>3, <1>4 DEF Grown

-----------------------------------------------------------------------------
LEMMA CutStacked ==
    ASSUME NEW s \in Stacks, NEW t, NEW n, Cut(s, t, n), NEW uses, WellStacked(uses, s)
    PROVE  WellStacked(uses, t)
<1>1. n \in Nat /\ n <= Len(s) /\ Len(t) = n /\ (\A i \in 1..n : t[i] = s[i] /\ i \in 1..Len(s))
  <2>1. Len(s) \in Nat
    BY LenProperties DEF Stacks
  <2> QED
    BY <2>1 DEF Cut
<1>2. Distinct(t)
  BY <1>1 DEF Distinct, WellStacked
<1>3. ASSUME NEW i \in 1..n PROVE OnTop(uses, t[i], RunningAt(t, i - 1))
  <2>1. i \in 1..Len(s) /\ t[i] = s[i] /\ (i - 1 = 0 \/ i - 1 \in 1..n)
    BY <1>1
  <2>2. RunningAt(t, i - 1) = RunningAt(s, i - 1)
    BY <1>1, <2>1 DEF RunningAt
  <2> QED
    BY <2>1, <2>2 DEF WellStacked
<1> QED
  BY <1>1, <1>2, <1>3 DEF WellStacked

LEMMA GrownStacked ==
    ASSUME NEW s \in Stacks, NEW t, NEW n, NEW f, Grown(s, t, n, f), NEW uses, WellStacked(uses, s),
           \A i \in 1..n : s[i].id # f.id, OnTop(uses, f, RunningAt(s, n))
    PROVE  WellStacked(uses, t)
<1>1. n \in Nat /\ n <= Len(s) /\ Len(t) = n + 1 /\ t[n + 1] = f
      /\ (\A i \in 1..n : t[i] = s[i] /\ i \in 1..Len(s))
  <2>1. Len(s) \in Nat
    BY LenProperties DEF Stacks
  <2> QED
    BY <2>1 DEF Grown
<1>2. \A i \in 1..n + 1 : i = n + 1 \/ i \in 1..n
  BY <1>1
<1>3. Distinct(t)
  <2> SUFFICES ASSUME NEW i \in 1..n + 1, NEW j \in 1..n + 1, t[i].id = t[j].id PROVE i = j
    BY <1>1 DEF Distinct
  <2>1. \A k, l \in 1..n : s[k].id = s[l].id => k = l
    BY <1>1 DEF Distinct, WellStacked
  <2>2. i = n + 1 \/ i \in 1..n
    BY <1>2
  <2>3. j = n + 1 \/ j \in 1..n
    BY <1>2
  <2> QED
    BY <1>1, <2>1, <2>2, <2>3
<1>4. ASSUME NEW i \in 1..n + 1 PROVE OnTop(uses, t[i], RunningAt(t, i - 1))
  <2>1. i - 1 = 0 \/ i - 1 \in 1..n
    BY <1>1
  <2>2. RunningAt(t, i - 1) = RunningAt(s, i - 1)
    BY <1>1, <2>1 DEF RunningAt
  <2>3. CASE i = n + 1
    BY <1>1, <2>2, <2>3
  <2>4. CASE i \in 1..n
    BY <1>1, <2>2, <2>4 DEF WellStacked
  <2> QED
    BY <1>2, <2>3, <2>4
<1> QED
  BY <1>1, <1>3, <1>4 DEF WellStacked

(* A frame pushed stands right, whichever it is.                             *)
LEMMA PushedOnTop ==
    ASSUME Typed, Stacked
    PROVE  /\ Running = RunningAt(stack, Len(stack))
           /\ Call => OnTop(program.uses, CallFrame, Running)
           /\ Guard => OnTop(program.uses, GuardFrame, Running)
           /\ \A t \in Base : BaseEval(t) => OnTop(program.uses, EvalFrame(t), Running)
<1>1. Running = RunningAt(stack, Len(stack))
  <2>1. CASE stack = <<>>
    BY <2>1 DEF Running, RunningAt
  <2>2. CASE stack # <<>>
    BY <2>2, TopOf DEF Running, RunningAt, Top, Typed
  <2> QED
    BY <2>1, <2>2
<1>2. "children" \notin program.uses => Running = Host
  <2>1. CASE Len(stack) = 0
    BY <1>1, <2>1 DEF RunningAt
  <2>2. CASE Len(stack) # 0
    <3>1. Len(stack) \in 1..Len(stack)
      BY <2>2, LenProperties DEF Typed, Stacks
    <3>2. OnTop(program.uses, stack[Len(stack)], RunningAt(stack, Len(stack) - 1))
      BY <3>1 DEF Stacked, WellStacked
    <3> QED
      BY <1>1, <2>2, <3>2 DEF OnTop, RunningAt
  <2> QED
    BY <2>1, <2>2
<1>3. ASSUME NEW t \in Base, BaseEval(t) PROVE OnTop(program.uses, EvalFrame(t), Running)
  <2>1. t \in Reachable(Running)
    BY <1>3 DEF BaseEval
  <2>2. "children" \notin program.uses => t = Host
    BY <1>2, <2>1 DEF Reachable
  <2>3. "reentry" \notin program.uses /\ Running # Host => t = Running
    BY <2>1 DEF Reachable
  <2> QED
    BY <1>2, <2>2, <2>3 DEF OnTop, EvalFrame
<1>4. OnTop(program.uses, CallFrame, Running) /\ OnTop(program.uses, GuardFrame, Running)
  BY <1>2 DEF OnTop, CallFrame, GuardFrame
<1> QED
  BY <1>1, <1>3, <1>4

LEMMA InitStacked ==
    ASSUME Init
    PROVE  Stacked
<1>1. Len(<<>>) = 0
  OBVIOUS
<1>2. \A uses : WellStacked(uses, <<>>)
  BY <1>1 DEF WellStacked, Distinct
<1>3. cont.stack = <<>> /\ cont.base = Host /\ stack = <<>>
  BY DEF Init, NoCont
<1> QED
  BY <1>1, <1>2, <1>3 DEF Stacked, RunningAt

LEMMA StepStacked ==
    ASSUME Typed, Typed', Stacked, [Next]_vars
    PROVE  Stacked'
<1> DEFINE Same == program' = program
           u == program.uses
<1>1. Running = RunningAt(stack, Len(stack)) /\ stack \in Stacks
  BY PushedOnTop DEF Typed
<1>2. WellStacked(u, stack) /\ WellStacked(u, cont.stack)
      /\ cont.base = RunningAt(cont.stack, Len(cont.stack))
  BY DEF Stacked
<1>3. ASSUME Same, cont' = cont, WellStacked(u, stack') PROVE Stacked'
  BY <1>2, <1>3 DEF Stacked
<1>4. ASSUME NEW f, Pushes(f), OnTop(u, f, Running) PROVE WellStacked(u, stack')
  <2>1. Grown(stack, stack', Len(stack), f) /\ \A i \in 1..Len(stack) : stack[i].id # f.id
    BY <1>4, PushGrows
  <2> HIDE DEF u
  <2> QED
    BY <1>1, <1>2, <1>4, <2>1, GrownStacked
<1>5. ASSUME stack # <<>>, stack' = Front(stack) PROVE WellStacked(u, stack')
  <2>1. Cut(stack, stack', Len(stack) - 1)
    BY <1>5, PopCuts
  <2> HIDE DEF u
  <2> QED
    BY <1>1, <1>2, <2>1, CutStacked
<1>6. Call /\ Same => Stacked'
  BY <1>3, <1>4, FramesPushed, PushedOnTop DEF Call
<1>7. Guard /\ Same => Stacked'
  BY <1>3, <1>4, FramesPushed, PushedOnTop DEF Guard
<1>8. ASSUME NEW t \in Base, BaseEval(t), Same PROVE Stacked'
  BY <1>3, <1>4, <1>8, FramesPushed, PushedOnTop DEF BaseEval
<1>9. Return /\ Same => Stacked'
  BY <1>3, <1>5 DEF Return
<1>10. EndGuard /\ Same => Stacked'
  BY <1>3, <1>5 DEF EndGuard
<1>11. EndEval /\ Same => Stacked'
  BY <1>3, <1>5 DEF EndEval
<1>12. Error /\ Same => Stacked'
  BY <1>2, <1>3 DEF Error
<1>13. ASSUME Catch, Same PROVE Stacked'
  <2>1. /\ At \in 1..Len(stack) /\ stack[At] \in Frames /\ Len(stack) \in Nat
        /\ Grown(stack, stack', At - 1, Handling(stack[At]))
    BY <1>13, CatchGrows
  <2>2. /\ Handling(stack[At]).id = stack[At].id /\ Handling(stack[At]).base = stack[At].base
        /\ Handling(stack[At]).in = stack[At].in
    BY <2>1 DEF Handling, Frames
  <2>3. OnTop(u, stack[At], RunningAt(stack, At - 1))
    BY <1>2, <2>1 DEF WellStacked
  <2>4. stack[At].kind = "guard"
    BY <1>13 DEF Catch
  <2>5. OnTop(u, Handling(stack[At]), RunningAt(stack, At - 1))
    BY <2>2, <2>3, <2>4 DEF OnTop
  <2>6. \A i \in 1..At - 1 : stack[i].id # Handling(stack[At]).id
    <3>1. \A i \in 1..At - 1 : i \in 1..Len(stack) /\ i # At
      BY <2>1
    <3> QED
      BY <1>2, <2>1, <2>2, <3>1 DEF WellStacked, Distinct
  <2>7. WellStacked(u, stack')
    <3> HIDE DEF u
    <3> QED
      BY <1>1, <1>2, <2>1, <2>5, <2>6, GrownStacked
  <2>8. cont' = cont
    BY <1>13 DEF Catch
  <2> QED
    BY <1>3, <1>13, <2>7, <2>8
<1>14. ASSUME Propagate, Same PROVE Stacked'
  <2>1. Cut(stack, stack', At - 1)
    BY <1>14, PropagateCuts
  <2>2. WellStacked(u, stack')
    <3> HIDE DEF u
    <3> QED
      BY <1>1, <1>2, <2>1, CutStacked
  <2>3. cont' = cont
    BY <1>14 DEF Propagate
  <2> QED
    BY <1>3, <1>14, <2>2, <2>3
<1>15. ASSUME Capture, Same PROVE Stacked'
  <2>1. cont'.stack = stack /\ cont'.base = Running /\ stack' = stack
    BY <1>15 DEF Capture
  <2> QED
    BY <1>1, <1>2, <1>15, <2>1 DEF Stacked
<1>16. ASSUME Invoke, Same PROVE Stacked'
  <2>1. stack' = cont.stack /\ cont' = cont
    BY <1>16 DEF Invoke
  <2> QED
    BY <1>2, <1>3, <1>16, <2>1
<1>17. CASE UNCHANGED vars
  BY <1>2, <1>17 DEF vars, Stacked
<1> QED
  BY <1>6, <1>7, <1>8, <1>9, <1>10, <1>11, <1>12, <1>13, <1>14, <1>15, <1>16, <1>17 DEF Next, Step

-----------------------------------------------------------------------------
(* FlattenSeq, by the partial flattenings it is built from.                  *)
IsFlat(F, C) == F[1] = C[1] /\ \A i \in 2..Len(C) : F[i] = F[i - 1] \o C[i]

LEMMA FlattenIs ==
    ASSUME NEW S, NEW C \in Seq(Seq(S)), Len(C) # 0,
           NEW F \in [1..Len(C) -> Seq(S)], IsFlat(F, C)
    PROVE  FlattenSeq(C) = F[Len(C)]
<1> DEFINE Goes(G) == G = [i \in 1..Len(C) |-> IF i = 1 THEN C[i] ELSE G[i - 1] \o C[i]]
           G == CHOOSE G : Goes(G)
<1>1. Len(C) \in Nat \ {0} /\ 1 \in 1..Len(C)
  BY LenProperties
<1>2. Goes(F)
  <2>1. ASSUME NEW i \in 1..Len(C)
        PROVE  F[i] = IF i = 1 THEN C[i] ELSE F[i - 1] \o C[i]
    <3>1. i = 1 \/ i \in 2..Len(C)
      BY <1>1
    <3> QED
      BY <3>1 DEF IsFlat
  <2> QED
    BY <2>1
<1>3. Goes(G)
  <2> HIDE DEF Goes
  <2> QED
    BY <1>2
<1>4. \A i \in 1..Len(C) : G[i] = IF i = 1 THEN C[i] ELSE G[i - 1] \o C[i]
  <2> HIDE DEF G
  <2> QED
    BY <1>3
<1>5. \A i \in 1..Len(C) : F[i] = IF i = 1 THEN C[i] ELSE F[i - 1] \o C[i]
  BY <1>2
<1>6. FlattenSeq(C) = G[Len(C)]
  BY <1>1 DEF FlattenSeq
<1> HIDE DEF G, Goes
<1> DEFINE T == {i \in 1..Len(C) : G[i] # F[i]}
<1>7. T = {}
  <2> SUFFICES ASSUME T # {} PROVE FALSE
    OBVIOUS
  <2>1. T \subseteq Nat
    OBVIOUS
  <2>2. PICK k \in T : \A j \in T : k <= j
    <3> HIDE DEF T
    <3> QED
      BY <2>1, Least
  <2>3. k \in 1..Len(C) /\ G[k] # F[k]
    OBVIOUS
  <2>4. k # 1
    BY <1>4, <1>5, <2>3
  <2>5. k - 1 \in 1..Len(C) /\ k - 1 \notin T
    BY <2>2, <2>3, <2>4
  <2>6. G[k - 1] = F[k - 1]
    BY <2>5
  <2>7. G[k] = G[k - 1] \o C[k] /\ F[k] = F[k - 1] \o C[k]
    BY <1>4, <1>5, <2>3, <2>4
  <2> QED
    BY <2>3, <2>6, <2>7
<1>8. Len(C) \in 1..Len(C) /\ Len(C) \notin T
  BY <1>1, <1>7
<1>9. G[Len(C)] = F[Len(C)]
  BY <1>8
<1> QED
  BY <1>6, <1>9

(* Pushing an element on a sequence, and what is there after.                *)
LEMMA Consed ==
    ASSUME NEW S, NEW x \in S, NEW s \in Seq(S)
    PROVE  /\ <<x>> \o s \in Seq(S) /\ Len(<<x>> \o s) = Len(s) + 1 /\ Len(s) \in Nat
           /\ (<<x>> \o s)[1] = x
           /\ \A i \in 1..Len(s) : (<<x>> \o s)[i + 1] = s[i]
           /\ \A i \in 2..Len(s) + 1 : (<<x>> \o s)[i] = s[i - 1]
           /\ Head(<<x>> \o s) = x /\ Tail(<<x>> \o s) = s /\ <<x>> \o s # <<>>
<1>1. <<x>> \in Seq(S) /\ Len(<<x>>) = 1 /\ <<x>>[1] = x /\ Len(s) \in Nat
  BY LenProperties
<1>2. /\ <<x>> \o s \in Seq(S) /\ Len(<<x>> \o s) = 1 + Len(s)
      /\ \A i \in 1..1 + Len(s) : (<<x>> \o s)[i] = IF i <= 1 THEN <<x>>[i] ELSE s[i - 1]
  BY <1>1, ConcatProperties
<1> DEFINE d == <<x>> \o s
<1>3. d \in Seq(S) /\ Len(d) = Len(s) + 1 /\ d # <<>>
  BY <1>1, <1>2
<1>4. d[1] = x /\ (\A i \in 1..Len(s) : d[i + 1] = s[i]) /\ (\A i \in 2..Len(s) + 1 : d[i] = s[i - 1])
  <2>1. d[1] = x
    BY <1>1, <1>2
  <2>2. ASSUME NEW i \in 1..Len(s) PROVE d[i + 1] = s[i]
    <3>1. i + 1 \in 1..1 + Len(s) /\ ~(i + 1 <= 1) /\ (i + 1) - 1 = i
      BY <1>1
    <3> QED
      BY <1>2, <3>1
  <2>3. ASSUME NEW i \in 2..Len(s) + 1 PROVE d[i] = s[i - 1]
    <3>1. i \in 1..1 + Len(s) /\ ~(i <= 1)
      BY <1>1
    <3> QED
      BY <1>2, <3>1
  <2> QED
    BY <2>1, <2>2, <2>3
<1> HIDE DEF d
<1>5. Head(d) = x
  BY <1>1, <1>3, <1>4
<1>6. Tail(d) = s
  <2>1. Tail(d) \in Seq(S) /\ Len(Tail(d)) = Len(d) - 1
        /\ \A i \in 1..Len(Tail(d)) : Tail(d)[i] = d[i + 1]
    BY <1>3, HeadTailProperties
  <2>2. Len(Tail(d)) = Len(s)
    BY <1>1, <1>3, <2>1
  <2>3. \A i \in 1..Len(s) : Tail(d)[i] = s[i]
    BY <1>4, <2>1, <2>2
  <2> QED
    BY <2>1, <2>2, <2>3, SeqEqual
<1> QED
  BY <1>1, <1>3, <1>4, <1>5, <1>6 DEF d

LEMMA HeadAndTail ==
    ASSUME NEW S, NEW s \in Seq(S), s # <<>>
    PROVE  s = <<Head(s)>> \o Tail(s) /\ Head(s) \in S /\ Tail(s) \in Seq(S)
<1>1. /\ Head(s) \in S /\ Tail(s) \in Seq(S) /\ Len(Tail(s)) = Len(s) - 1
      /\ \A i \in 1..Len(Tail(s)) : Tail(s)[i] = s[i + 1]
  BY HeadTailProperties
<1>2. Len(s) \in Nat \ {0} /\ Head(s) = s[1]
  BY EmptySeq
<1> DEFINE d == <<Head(s)>> \o Tail(s)
<1>3. /\ d \in Seq(S) /\ Len(d) = Len(Tail(s)) + 1 /\ d[1] = Head(s)
      /\ \A i \in 2..Len(Tail(s)) + 1 : d[i] = Tail(s)[i - 1]
  BY <1>1, Consed
<1> HIDE DEF d
<1>4. Len(d) = Len(s)
  BY <1>1, <1>2, <1>3
<1>5. ASSUME NEW i \in 1..Len(s) PROVE d[i] = s[i]
  <2>1. CASE i = 1
    BY <1>2, <1>3, <2>1
  <2>2. CASE i # 1
    <3>1. i \in 2..Len(Tail(s)) + 1 /\ i - 1 \in 1..Len(Tail(s)) /\ (i - 1) + 1 = i
      BY <1>1, <1>2, <2>2
    <3> QED
      BY <1>1, <1>3, <3>1
  <2> QED
    BY <2>1, <2>2
<1>6. d = s
  BY <1>3, <1>4, <1>5, SeqEqual
<1> QED
  BY <1>1, <1>6 DEF d

(* The partial flattenings exist.                                            *)
LEMMA Flattens ==
    ASSUME NEW S, NEW C \in Seq(Seq(S)), Len(C) # 0
    PROVE  \E F \in [1..Len(C) -> Seq(S)] : IsFlat(F, C)
<1> DEFINE Upto(n, F) == F[1] = C[1] /\ \A i \in 2..n : F[i] = F[i - 1] \o C[i]
           Done(n) == \E F \in [1..n -> Seq(S)] : Upto(n, F)
           T == {n \in 1..Len(C) : ~Done(n)}
<1>1. Len(C) \in Nat \ {0} /\ Len(C) \in 1..Len(C) /\ \A i \in 1..Len(C) : C[i] \in Seq(S)
  BY LenProperties, ElementOfSeq
<1>2. ASSUME NEW k \in 1..Len(C), \A j \in 1..Len(C) : j < k => Done(j) PROVE Done(k)
  <2>1. CASE k = 1
    <3>1. [i \in 1..k |-> C[1]] \in [1..k -> Seq(S)]
      BY <1>1
    <3>2. Upto(k, [i \in 1..k |-> C[1]])
      BY <2>1
    <3> QED
      BY <3>1, <3>2
  <2>2. CASE k # 1
    <3>1. k - 1 \in 1..Len(C) /\ k - 1 < k
      BY <2>2
    <3>2. Done(k - 1)
      <4> HIDE DEF Done
      <4> QED
        BY <1>2, <3>1
    <3>3. PICK F \in [1..k - 1 -> Seq(S)] : Upto(k - 1, F)
      BY <3>2
    <3> DEFINE G == [i \in 1..k |-> IF i = k THEN F[k - 1] \o C[k] ELSE F[i]]
    <3>4. F[k - 1] \o C[k] \in Seq(S)
      <4>1. F[k - 1] \in Seq(S) /\ C[k] \in Seq(S)
        BY <1>1, <3>1
      <4> QED
        BY <4>1, ConcatProperties
    <3>5. G \in [1..k -> Seq(S)]
      BY <3>4
    <3>6. G[1] = C[1]
      BY <2>2, <3>3
    <3>7. G[k] = F[k - 1] \o C[k] /\ \A i \in 1..k - 1 : G[i] = F[i]
      <4>1. k \in 1..k
        OBVIOUS
      <4>2. \A i \in 1..k - 1 : i \in 1..k /\ i # k
        OBVIOUS
      <4>3. G[k] = F[k - 1] \o C[k]
        BY <4>1
      <4> QED
        BY <4>2, <4>3
    <3> HIDE DEF G
    <3>8. ASSUME NEW i \in 2..k PROVE G[i] = G[i - 1] \o C[i]
      <4>1. i - 1 \in 1..k - 1
        OBVIOUS
      <4>2. G[i - 1] = F[i - 1]
        BY <3>7, <4>1
      <4>3. CASE i = k
        BY <3>7, <4>2, <4>3
      <4>4. CASE i # k
        <5>1. i \in 2..k - 1 /\ i \in 1..k - 1
          BY <4>4
        <5>2. F[i] = F[i - 1] \o C[i]
          BY <3>3, <5>1
        <5> QED
          BY <3>7, <4>2, <5>1, <5>2
      <4> QED
        BY <4>3, <4>4
    <3>9. Upto(k, G)
      BY <3>6, <3>8
    <3> HIDE DEF Upto
    <3> QED
      BY <3>5, <3>9
  <2> QED
    BY <2>1, <2>2
<1> HIDE DEF Done
<1>3. ASSUME T # {} PROVE FALSE
  <2>1. T \subseteq Nat
    OBVIOUS
  <2>2. PICK k \in T : \A j \in T : k <= j
    <3> HIDE DEF T
    <3> QED
      BY <1>3, <2>1, Least
  <2>3. k \in 1..Len(C) /\ ~Done(k)
    OBVIOUS
  <2>4. \A j \in 1..Len(C) : j < k => Done(j)
    BY <2>2, <2>3
  <2> QED
    BY <1>2, <2>3, <2>4
<1>4. Done(Len(C))
  BY <1>1, <1>3
<1>5. PICK F \in [1..Len(C) -> Seq(S)] : Upto(Len(C), F)
  BY <1>4 DEF Done
<1> QED
  BY <1>5 DEF IsFlat

(* Three sequences one after another, however they are grouped.              *)
Regroups(x, v, w) == (x \o v) \o w = x \o (v \o w)

LEMMA Regroup ==
    ASSUME NEW S, NEW x \in Seq(S)
    PROVE  \A v \in Seq(S), w \in Seq(S) : Regroups(x, v, w)
BY ConcatAssociative DEF Regroups

(* What comes first is flattened first.                                      *)
LEMMA FlattenCons ==
    ASSUME NEW S, NEW x \in Seq(S), NEW C \in Seq(Seq(S))
    PROVE  /\ FlattenSeq(C) \in Seq(S)
           /\ FlattenSeq(<<x>> \o C) = x \o FlattenSeq(C)
<1> DEFINE D == <<x>> \o C
<1>1. /\ D \in Seq(Seq(S)) /\ Len(D) = Len(C) + 1 /\ Len(C) \in Nat /\ D[1] = x
      /\ \A i \in 2..Len(C) + 1 : D[i] = C[i - 1]
  BY Consed
<1> HIDE DEF D
<1>4. \A v \in Seq(S), w \in Seq(S) : Regroups(x, v, w)
  BY Regroup
<1>2. CASE Len(C) = 0
  <2>1. C = <<>> /\ FlattenSeq(C) = <<>>
    BY <1>2, EmptySeq DEF FlattenSeq
  <2> DEFINE F == [i \in 1..Len(D) |-> x]
  <2>2. F \in [1..Len(D) -> Seq(S)] /\ IsFlat(F, D) /\ F[Len(D)] = x /\ Len(D) # 0
    BY <1>1, <1>2 DEF IsFlat
  <2>3. FlattenSeq(D) = x
    <3> HIDE DEF F
    <3> QED
      BY <1>1, <2>2, FlattenIs
  <2> QED
    BY <2>1, <2>3, ConcatEmptySeq, EmptySeq DEF D
<1>3. CASE Len(C) # 0
  <2>1. PICK F \in [1..Len(C) -> Seq(S)] : IsFlat(F, C)
    BY <1>3, Flattens
  <2>2. FlattenSeq(C) = F[Len(C)] /\ F[Len(C)] \in Seq(S)
    <3>1. Len(C) \in 1..Len(C)
      BY <1>1, <1>3
    <3> QED
      BY <1>3, <2>1, <3>1, FlattenIs
  <2> DEFINE G == [i \in 1..Len(D) |-> IF i = 1 THEN x ELSE x \o F[i - 1]]
  <2>3. ASSUME NEW i \in 2..Len(D) PROVE G[i] = x \o F[i - 1] /\ G[i] \in Seq(S)
    <3>1. i - 1 \in 1..Len(C) /\ i \in 1..Len(D) /\ i # 1
      BY <1>1
    <3>2. F[i - 1] \in Seq(S)
      BY <3>1
    <3>3. x \o F[i - 1] \in Seq(S)
      BY <3>2, ConcatProperties
    <3> QED
      BY <3>1, <3>3
  <2>4. G[1] = x /\ 1 \in 1..Len(D)
    BY <1>1
  <2>5. \A i \in 1..Len(D) : i = 1 \/ i \in 2..Len(D)
    BY <1>1
  <2>6. G \in [1..Len(D) -> Seq(S)]
    <3>1. \A i \in 1..Len(D) : G[i] \in Seq(S)
      BY <2>3, <2>4, <2>5
    <3> QED
      BY <3>1
  <2>7. ASSUME NEW i \in 2..Len(D) PROVE G[i] = G[i - 1] \o D[i]
    <3>1. i - 1 \in 1..Len(C) /\ D[i] = C[i - 1] /\ Len(C) \in Nat
      BY <1>1
    <3>2. C[i - 1] \in Seq(S)
      BY <3>1, ElementOfSeq
    <3> HIDE DEF G
    <3>3. CASE i = 2
      <4>1. i - 1 = 1
        BY <3>3
      <4>2. F[1] = C[1]
        BY <2>1 DEF IsFlat
      <4>3. G[i] = x \o F[1]
        BY <2>3, <4>1
      <4>4. D[i] = C[1] /\ G[i - 1] = x
        BY <2>4, <3>1, <4>1
      <4> QED
        BY <4>2, <4>3, <4>4
    <3>4. CASE i # 2
      <4>1. i - 1 \in 2..Len(D) /\ i - 1 \in 2..Len(C) /\ (i - 1) - 1 \in 1..Len(C)
        BY <1>1, <3>4
      <4>2. F[i - 1] = F[(i - 1) - 1] \o C[i - 1]
        BY <2>1, <4>1 DEF IsFlat
      <4>3. G[i - 1] = x \o F[(i - 1) - 1]
        BY <2>3, <4>1
      <4>4. F[(i - 1) - 1] \in Seq(S)
        BY <4>1
      <4>5. (x \o F[(i - 1) - 1]) \o C[i - 1] = x \o (F[(i - 1) - 1] \o C[i - 1])
        <5> DEFINE v == F[(i - 1) - 1]
                   w == C[i - 1]
        <5>1. v \in Seq(S) /\ w \in Seq(S)
          BY <3>2, <4>4
        <5> HIDE DEF v, w
        <5>2. Regroups(x, v, w)
          BY ONLY <5>1, <1>4
        <5> QED
          BY ONLY <5>2 DEF v, w, Regroups
      <4> QED
        BY <2>3, <3>1, <4>2, <4>3, <4>5
    <3> QED
      BY <3>3, <3>4
  <2> HIDE DEF G
  <2>8. IsFlat(G, D)
    BY <1>1, <2>4, <2>7 DEF IsFlat
  <2>9. Len(D) # 0 /\ Len(D) \in 2..Len(D) /\ Len(D) - 1 = Len(C)
    BY <1>1, <1>3
  <2>10. FlattenSeq(D) = G[Len(D)]
    BY <1>1, <2>6, <2>8, <2>9, FlattenIs
  <2>11. G[Len(D)] = x \o F[Len(C)]
    BY <2>3, <2>9
  <2> QED
    BY <2>2, <2>10, <2>11 DEF D
<1> QED
  BY <1>2, <1>3

-----------------------------------------------------------------------------
(* The cells as they were when each frame was pushed.                        *)
Idle(f) == f.kind \in {"body", "handling"}
HandlerOf(f) == [id |-> f.id, env |-> f.env]
CellsAfter(c, f) ==
    IF f.kind = "guard" THEN [c EXCEPT ![f.in] = << <<HandlerOf(f)>> \o Head(@) >> \o Tail(@)]
    ELSE IF f.kind = "eval" THEN [c EXCEPT ![f.in] = << <<HandlerOf(f)>> >> \o @]
    ELSE c

(* The handler of the innermost frame that waits, of the n oldest: it waits  *)
(* in the base that runs, and the frames on it are that base's.              *)
AllIdle(stk, n) == \A j \in 1..n : Idle(stk[j])
TargetAt(stk, n, h, a) ==
    /\ h = HandlerOf(stk[a]) /\ ~Idle(stk[a]) /\ stk[a].in = RunningAt(stk, n)
    /\ \A j \in a + 1..n : Idle(stk[j]) /\ stk[j].base = stk[a].in
Target(stk, n, h) == \E a \in 1..n : TargetAt(stk, n, h, a)
Innermost(stk, n, c) ==
    IF Head(c[RunningAt(stk, n)]) = <<>> THEN AllIdle(stk, n)
    ELSE Target(stk, n, Head(Head(c[RunningAt(stk, n)])))

(* The handlers in a base's cells, and the frames that wait in the base.     *)
Names(hs) == [i \in DOMAIN hs |-> hs[i].id]
Part(f, b) == IF Waits(f, b) THEN <<f.id>> ELSE <<>>
Parts(stk, n, b) == [i \in 1..n |-> Part(stk[n - i + 1], b)]
Linked(stk, n, c) == \A b \in Base : Names(FlattenSeq(c[b])) = FlattenSeq(Parts(stk, n, b))

Filled(c) == c \in Cells /\ \A b \in Base : c[b] # <<>>
Sound(stk, n, c) == Filled(c) /\ Innermost(stk, n, c) /\ Linked(stk, n, c)

(* What a frame does to the cells of the base it waits in, and to the rest.  *)
LEMMA CellsGrow ==
    ASSUME NEW c, Filled(c), NEW f \in Frames
    PROVE  /\ Filled(CellsAfter(c, f)) /\ HandlerOf(f) \in Saved
           /\ \A b \in Base : ~Waits(f, b) => CellsAfter(c, f)[b] = c[b]
           /\ ~Idle(f) =>
                /\ Waits(f, f.in)
                /\ Head(CellsAfter(c, f)[f.in]) # <<>>
                /\ Head(Head(CellsAfter(c, f)[f.in])) = HandlerOf(f)
                /\ FlattenSeq(CellsAfter(c, f)[f.in]) = <<HandlerOf(f)>> \o FlattenSeq(c[f.in])
<1> DEFINE h == HandlerOf(f)
           x == Head(c[f.in])
           T == Tail(c[f.in])
           g == << <<h>> \o x >> \o T
           e == << <<h>> >> \o c[f.in]
<1>1. h \in Saved /\ f.in \in Base /\ f.kind \in Kind
  BY DEF HandlerOf, Saved, Frames
<1>2. c \in Cells /\ c[f.in] \in Seq(Seq(Saved)) /\ c[f.in] # <<>>
  BY <1>1 DEF Filled, Cells
<1>3. c[f.in] = <<x>> \o T /\ x \in Seq(Saved) /\ T \in Seq(Seq(Saved))
  BY <1>2, HeadAndTail
<1> HIDE DEF h, x, T
<1>4. <<h>> \in Seq(Saved)
  BY <1>1
<1>5. <<h>> \o x \in Seq(Saved) /\ <<h>> \o x # <<>> /\ Head(<<h>> \o x) = h
  BY <1>1, <1>3, Consed
<1>6. g \in Seq(Seq(Saved)) /\ g # <<>> /\ Head(g) = <<h>> \o x
  BY <1>3, <1>5, Consed
<1>7. FlattenSeq(g) = <<h>> \o FlattenSeq(c[f.in])
  <2>1. FlattenSeq(g) = (<<h>> \o x) \o FlattenSeq(T) /\ FlattenSeq(T) \in Seq(Saved)
    BY <1>3, <1>5, FlattenCons
  <2>2. FlattenSeq(c[f.in]) = x \o FlattenSeq(T)
    BY <1>3, FlattenCons
  <2>3. (<<h>> \o x) \o FlattenSeq(T) = <<h>> \o (x \o FlattenSeq(T))
    BY <1>3, <1>4, <2>1, ConcatAssociative
  <2> QED
    BY <2>1, <2>2, <2>3
<1>8. e \in Seq(Seq(Saved)) /\ e # <<>> /\ Head(e) = <<h>> /\ <<h>> # <<>> /\ Head(<<h>>) = h
  <2>1. e \in Seq(Seq(Saved)) /\ e # <<>> /\ Head(e) = <<h>>
    BY <1>2, <1>4, Consed
  <2>2. <<h>> # <<>> /\ Head(<<h>>) = h
    OBVIOUS
  <2> QED
    BY <2>1, <2>2
<1>9. FlattenSeq(e) = <<h>> \o FlattenSeq(c[f.in])
  BY <1>2, <1>4, FlattenCons
<1>10. CASE f.kind = "guard"
  <2> DEFINE d == [c EXCEPT ![f.in] = g]
  <2>1. CellsAfter(c, f) = d
    BY <1>10 DEF CellsAfter, h, x, T
  <2>2. d \in Cells /\ d[f.in] = g /\ \A b \in Base : b # f.in => d[b] = c[b]
    BY <1>1, <1>2, <1>6 DEF Cells
  <2> HIDE DEF d, g
  <2>3. Filled(d)
    BY <1>6, <2>2 DEF Filled
  <2>4. ~Idle(f) /\ \A b \in Base : Waits(f, b) <=> b = f.in
    BY <1>10 DEF Idle, Waits
  <2> QED
    BY <1>1, <1>5, <1>6, <1>7, <2>1, <2>2, <2>3, <2>4 DEF h
<1>11. CASE f.kind = "eval"
  <2> DEFINE d == [c EXCEPT ![f.in] = e]
  <2>1. CellsAfter(c, f) = d
    BY <1>11 DEF CellsAfter, h
  <2>2. d \in Cells /\ d[f.in] = e /\ \A b \in Base : b # f.in => d[b] = c[b]
    BY <1>1, <1>2, <1>8 DEF Cells
  <2> HIDE DEF d, e
  <2>3. Filled(d)
    BY <1>8, <2>2 DEF Filled
  <2>4. ~Idle(f) /\ \A b \in Base : Waits(f, b) <=> b = f.in
    BY <1>11 DEF Idle, Waits
  <2> QED
    BY <1>1, <1>8, <1>9, <2>1, <2>2, <2>3, <2>4 DEF h
<1>12. CASE f.kind \in {"body", "handling"}
  BY <1>1, <1>12 DEF CellsAfter, Idle, h
<1> QED
  BY <1>1, <1>10, <1>11, <1>12 DEF Kind

LEMMA InnermostGrows ==
    ASSUME NEW s \in Stacks, NEW n \in Nat, n + 1 <= Len(s), NEW c, Filled(c), Innermost(s, n, c),
           s[n + 1].base = RunningAt(s, n),
           s[n + 1].kind # "eval" => s[n + 1].in = s[n + 1].base
    PROVE  Innermost(s, n + 1, CellsAfter(c, s[n + 1]))
<1> DEFINE f == s[n + 1]
           d == CellsAfter(c, f)
<1>1. f \in Frames
  BY ElementOfSeq, LenProperties DEF Stacks
<1>2. RunningAt(s, n + 1) = f.in /\ f.in \in Base
  BY <1>1 DEF RunningAt, Frames
<1>3. /\ \A b \in Base : ~Waits(f, b) => d[b] = c[b]
      /\ ~Idle(f) => Head(d[f.in]) # <<>> /\ Head(Head(d[f.in])) = HandlerOf(f)
  BY <1>1, CellsGrow
<1> HIDE DEF d
<1>4. CASE ~Idle(f)
  <2>1. TargetAt(s, n + 1, HandlerOf(f), n + 1)
    BY <1>2, <1>4 DEF TargetAt
  <2>2. Target(s, n + 1, HandlerOf(f))
    BY <2>1 DEF Target
  <2> HIDE DEF f
  <2> QED
    BY <1>2, <1>3, <1>4, <2>2 DEF Innermost, d, f
<1>5. CASE Idle(f)
  <2>1. f.in = RunningAt(s, n) /\ d[f.in] = c[f.in]
    BY <1>2, <1>3, <1>5 DEF Idle, Waits
  <2>2. \A j \in 1..n + 1 : j = n + 1 \/ j \in 1..n
    OBVIOUS
  <2>3. CASE Head(c[f.in]) = <<>>
    <3>1. AllIdle(s, n)
      BY <2>1, <2>3 DEF Innermost
    <3>2. AllIdle(s, n + 1)
      BY <1>5, <2>2, <3>1 DEF AllIdle
    <3> QED
      BY <1>2, <2>1, <2>3, <3>2 DEF Innermost, d
  <2>4. CASE Head(c[f.in]) # <<>>
    <3>1. PICK a \in 1..n : TargetAt(s, n, Head(Head(c[f.in])), a)
      BY <2>1, <2>4 DEF Innermost, Target
    <3>2. ASSUME NEW j \in a + 1..n + 1 PROVE Idle(s[j]) /\ s[j].base = s[a].in
      <4>1. j = n + 1 \/ j \in a + 1..n
        OBVIOUS
      <4> QED
        BY <1>5, <3>1, <4>1 DEF TargetAt
    <3>3. TargetAt(s, n + 1, Head(Head(c[f.in])), a)
      BY <1>2, <2>1, <3>1, <3>2 DEF TargetAt
    <3>4. Target(s, n + 1, Head(Head(c[f.in])))
      <4>1. a \in 1..n + 1
        OBVIOUS
      <4> QED
        BY <3>3, <4>1 DEF Target
    <3> QED
      BY <1>2, <2>1, <2>4, <3>4 DEF Innermost, d
  <2> QED
    BY <2>3, <2>4
<1> QED
  BY <1>4, <1>5

LEMMA NamesCons ==
    ASSUME NEW h \in Saved, NEW hs \in Seq(Saved)
    PROVE  Names(<<h>> \o hs) = <<h.id>> \o Names(hs) /\ Names(hs) \in Seq(Id)
<1> DEFINE d == <<h>> \o hs
<1>1. /\ d \in Seq(Saved) /\ Len(d) = Len(hs) + 1 /\ Len(hs) \in Nat /\ d[1] = h
      /\ \A i \in 2..Len(hs) + 1 : d[i] = hs[i - 1]
  BY Consed
<1>2. /\ DOMAIN d = 1..Len(d) /\ DOMAIN hs = 1..Len(hs)
      /\ (\A i \in 1..Len(hs) : hs[i] \in Saved) /\ (\A i \in 1..Len(d) : d[i] \in Saved)
  BY <1>1, LenProperties, ElementOfSeq
<1>3. \A k \in Saved : k.id \in Id
  BY DEF Saved
<1> HIDE DEF d
<1>4. Names(d) \in Seq(Id) /\ Len(Names(d)) = Len(hs) + 1 /\ \A i \in 1..Len(d) : Names(d)[i] = d[i].id
  BY <1>1, <1>2, <1>3 DEF Names
<1>5. Names(hs) \in Seq(Id) /\ Len(Names(hs)) = Len(hs) /\ \A i \in 1..Len(hs) : Names(hs)[i] = hs[i].id
  BY <1>1, <1>2, <1>3 DEF Names
<1> DEFINE e == <<h.id>> \o Names(hs)
<1>6. /\ e \in Seq(Id) /\ Len(e) = Len(hs) + 1 /\ e[1] = h.id
      /\ \A i \in 2..Len(hs) + 1 : e[i] = Names(hs)[i - 1]
  BY <1>3, <1>5, Consed
<1> HIDE DEF e
<1>7. ASSUME NEW i \in 1..Len(hs) + 1 PROVE Names(d)[i] = e[i]
  <2>1. CASE i = 1
    BY <1>1, <1>4, <1>6, <2>1
  <2>2. CASE i # 1
    <3>1. i \in 2..Len(hs) + 1 /\ i - 1 \in 1..Len(hs) /\ i \in 1..Len(d)
      BY <1>1, <2>2
    <3> QED
      BY <1>1, <1>4, <1>5, <1>6, <3>1
  <2> QED
    BY <2>1, <2>2
<1>8. Names(d) = e
  BY <1>4, <1>6, <1>7, SeqEqual
<1> QED
  BY <1>5, <1>8 DEF d, e

LEMMA PartsCons ==
    ASSUME NEW s \in Stacks, NEW n \in Nat, n + 1 <= Len(s), NEW b
    PROVE  /\ Parts(s, n, b) \in Seq(Seq(Id)) /\ Part(s[n + 1], b) \in Seq(Id)
           /\ Parts(s, n + 1, b) = <<Part(s[n + 1], b)>> \o Parts(s, n, b)
<1>1. \A i \in 1..n + 1 : s[i].id \in Id
  <2>1. \A i \in 1..n + 1 : s[i] \in Frames
    BY ElementOfSeq, LenProperties DEF Stacks
  <2> QED
    BY <2>1 DEF Frames
<1>2. \A i \in 1..n + 1 : Part(s[i], b) \in Seq(Id)
  BY <1>1, EmptySeq DEF Part
<1>3. \A i \in 1..n : n - i + 1 \in 1..n + 1
  OBVIOUS
<1>4. Parts(s, n, b) \in Seq(Seq(Id)) /\ Len(Parts(s, n, b)) = n
      /\ \A i \in 1..n : Parts(s, n, b)[i] = Part(s[n - i + 1], b)
  BY <1>2, <1>3 DEF Parts
<1>5. \A i \in 1..n + 1 : (n + 1) - i + 1 \in 1..n + 1
  OBVIOUS
<1>6. Parts(s, n + 1, b) \in Seq(Seq(Id)) /\ Len(Parts(s, n + 1, b)) = n + 1
      /\ \A i \in 1..n + 1 : Parts(s, n + 1, b)[i] = Part(s[(n + 1) - i + 1], b)
  BY <1>2, <1>5 DEF Parts
<1>7. Part(s[n + 1], b) \in Seq(Id)
  BY <1>2
<1> DEFINE e == <<Part(s[n + 1], b)>> \o Parts(s, n, b)
<1>8. /\ e \in Seq(Seq(Id)) /\ Len(e) = n + 1 /\ e[1] = Part(s[n + 1], b)
      /\ \A i \in 2..n + 1 : e[i] = Parts(s, n, b)[i - 1]
  BY <1>4, <1>7, Consed
<1> HIDE DEF e
<1>9. ASSUME NEW i \in 1..n + 1 PROVE Parts(s, n + 1, b)[i] = e[i]
  <2>1. CASE i = 1
    <3>1. (n + 1) - i + 1 = n + 1
      BY <2>1
    <3> QED
      BY <1>6, <1>8, <2>1, <3>1
  <2>2. CASE i # 1
    <3>1. i \in 2..n + 1 /\ i - 1 \in 1..n /\ (n + 1) - i + 1 = n - (i - 1) + 1
      BY <2>2
    <3>2. e[i] = Part(s[n - (i - 1) + 1], b)
      BY <1>4, <1>8, <3>1
    <3> QED
      BY <1>6, <3>1, <3>2
  <2> QED
    BY <2>1, <2>2
<1>10. Parts(s, n + 1, b) = e
  BY <1>6, <1>8, <1>9, SeqEqual
<1> QED
  BY <1>4, <1>7, <1>10 DEF e

LEMMA LinkedGrows ==
    ASSUME NEW s \in Stacks, NEW n \in Nat, n + 1 <= Len(s), NEW c, Filled(c), Linked(s, n, c)
    PROVE  Linked(s, n + 1, CellsAfter(c, s[n + 1]))
<1> DEFINE f == s[n + 1]
           d == CellsAfter(c, f)
<1>1. f \in Frames
  BY ElementOfSeq, LenProperties DEF Stacks
<1>2. /\ HandlerOf(f) \in Saved
      /\ \A b \in Base : ~Waits(f, b) => d[b] = c[b]
      /\ ~Idle(f) => FlattenSeq(d[f.in]) = <<HandlerOf(f)>> \o FlattenSeq(c[f.in])
  BY <1>1, CellsGrow
<1> HIDE DEF d
<1>3. ASSUME NEW b \in Base
      PROVE  Names(FlattenSeq(d[b])) = FlattenSeq(Parts(s, n + 1, b))
  <2>1. /\ Parts(s, n, b) \in Seq(Seq(Id)) /\ Part(f, b) \in Seq(Id)
        /\ Parts(s, n + 1, b) = <<Part(f, b)>> \o Parts(s, n, b)
    BY PartsCons
  <2>2. FlattenSeq(Parts(s, n + 1, b)) = Part(f, b) \o FlattenSeq(Parts(s, n, b))
        /\ FlattenSeq(Parts(s, n, b)) \in Seq(Id)
    BY <2>1, FlattenCons
  <2>3. Names(FlattenSeq(c[b])) = FlattenSeq(Parts(s, n, b))
    BY DEF Linked
  <2> HIDE DEF f
  <2>4. CASE Waits(f, b)
    <3>1. b = f.in /\ ~Idle(f) /\ Part(f, b) = <<f.id>> /\ HandlerOf(f).id = f.id
      BY <2>4 DEF Waits, Idle, Part, HandlerOf
    <3>2. FlattenSeq(d[b]) = <<HandlerOf(f)>> \o FlattenSeq(c[b])
      BY <1>2, <3>1
    <3>3. FlattenSeq(c[b]) \in Seq(Saved)
      <4>1. c[b] \in Seq(Seq(Saved)) /\ <<>> \in Seq(Saved)
        BY EmptySeq DEF Filled, Cells
      <4> QED
        BY <4>1, FlattenCons
    <3>4. Names(FlattenSeq(d[b])) = <<HandlerOf(f).id>> \o Names(FlattenSeq(c[b]))
      BY <1>2, <3>2, <3>3, NamesCons
    <3> QED
      BY <2>2, <2>3, <3>1, <3>4
  <2>5. CASE ~Waits(f, b)
    <3>1. Part(f, b) = <<>> /\ d[b] = c[b]
      BY <1>2, <2>5 DEF Part
    <3>2. <<>> \o FlattenSeq(Parts(s, n, b)) = FlattenSeq(Parts(s, n, b))
      BY <2>2, ConcatEmptySeq
    <3> QED
      BY <2>2, <2>3, <3>1, <3>2
  <2> QED
    BY <2>4, <2>5
<1> QED
  BY <1>3 DEF Linked, d

LEMMA SoundGrows ==
    ASSUME NEW s \in Stacks, NEW n \in Nat, n + 1 <= Len(s), NEW c, Sound(s, n, c),
           s[n + 1].base = RunningAt(s, n),
           s[n + 1].kind # "eval" => s[n + 1].in = s[n + 1].base
    PROVE  Sound(s, n + 1, CellsAfter(c, s[n + 1]))
<1>1. s[n + 1] \in Frames
  BY ElementOfSeq, LenProperties DEF Stacks
<1>2. Filled(CellsAfter(c, s[n + 1]))
  BY <1>1, CellsGrow DEF Sound
<1>3. Innermost(s, n + 1, CellsAfter(c, s[n + 1]))
  BY InnermostGrows DEF Sound
<1>4. Linked(s, n + 1, CellsAfter(c, s[n + 1]))
  BY LinkedGrows DEF Sound
<1> QED
  BY <1>2, <1>3, <1>4 DEF Sound

(* What is so of the n oldest frames is so of any stack that has them.       *)
LEMMA SoundBelow ==
    ASSUME NEW s, NEW t, NEW n \in Nat, \A i \in 1..n : t[i] = s[i], NEW c, Sound(s, n, c)
    PROVE  Sound(t, n, c)
<1>1. RunningAt(t, n) = RunningAt(s, n)
  BY DEF RunningAt
<1>2. AllIdle(s, n) => AllIdle(t, n)
  BY DEF AllIdle
<1>3. ASSUME NEW h, Target(s, n, h) PROVE Target(t, n, h)
  <2>1. PICK a \in 1..n : TargetAt(s, n, h, a)
    BY <1>3 DEF Target
  <2>2. \A j \in a + 1..n : j \in 1..n
    OBVIOUS
  <2>3. TargetAt(t, n, h, a)
    BY <1>1, <2>1, <2>2 DEF TargetAt
  <2> QED
    BY <2>3 DEF Target
<1>4. Innermost(t, n, c)
  BY <1>1, <1>2, <1>3 DEF Sound, Innermost
<1>5. \A b : Parts(t, n, b) = Parts(s, n, b)
  <2>1. \A i \in 1..n : t[n - i + 1] = s[n - i + 1]
    OBVIOUS
  <2> QED
    BY <2>1 DEF Parts
<1>6. Linked(t, n, c)
  BY <1>5 DEF Sound, Linked
<1> QED
  BY <1>4, <1>6 DEF Sound

(* A record of the cells: as the frames made them, from a process's first;   *)
(* what a guard gives back is what the slot held when it was pushed.         *)
Records(stk, cs) ==
    /\ cs[0] = [b \in Base |-> << <<>> >>]
    /\ \A i \in 1..Len(stk) : cs[i] = CellsAfter(cs[i - 1], stk[i])
    /\ \A i \in 1..Len(stk) :
         stk[i].kind \in {"guard", "handling"} => stk[i].prev = Head(cs[i - 1][stk[i].base])
    /\ \A i \in 0..Len(stk) : Sound(stk, i, cs[i])

LEMMA RecordsFirst ==
    Records(<<>>, [i \in 0..0 |-> [b \in Base |-> << <<>> >>]])
<1> DEFINE c == [b \in Base |-> << <<>> >>]
           cs == [i \in 0..0 |-> c]
<1>1. <<>> \in Seq(Saved) /\ << <<>> >> \in Seq(Seq(Saved)) /\ << <<>> >> # <<>> /\ Head(<< <<>> >>) = <<>>
  BY EmptySeq
<1>2. Filled(c) /\ \A b \in Base : c[b] = << <<>> >>
  BY <1>1 DEF Filled, Cells
<1> HIDE DEF c
<1>3. Innermost(<<>>, 0, c)
  BY <1>1, <1>2 DEF Innermost, RunningAt, AllIdle, Base
<1>4. ASSUME NEW b \in Base PROVE Names(FlattenSeq(c[b])) = FlattenSeq(Parts(<<>>, 0, b))
  <2>1. FlattenSeq(<<>>) = <<>>
    BY DEF FlattenSeq
  <2>2. FlattenSeq(<< <<>> >>) = <<>>
    <3>1. << <<>> >> = << <<>> >> \o <<>>
      BY <1>1, ConcatEmptySeq
    <3>2. <<>> \in Seq(Seq(Saved))
      BY EmptySeq
    <3>3. FlattenSeq(<< <<>> >> \o <<>>) = <<>> \o FlattenSeq(<<>>)
      BY <1>1, <3>2, FlattenCons
    <3> QED
      BY <1>1, <2>1, <3>1, <3>3, ConcatEmptySeq
  <2>3. Parts(<<>>, 0, b) = <<>>
    BY DEF Parts
  <2>4. Names(<<>>) = <<>>
    BY DEF Names
  <2> QED
    BY <1>2, <2>1, <2>2, <2>3, <2>4
<1>5. Sound(<<>>, 0, c)
  BY <1>2, <1>3, <1>4 DEF Sound, Linked
<1>6. Len(<<>>) = 0 /\ cs[0] = c
  OBVIOUS
<1>7. Records(<<>>, cs)
  BY <1>5, <1>6 DEF Records, c
<1> QED
  BY <1>7 DEF c

LEMMA RecordsCut ==
    ASSUME NEW s \in Stacks, NEW t, NEW n, Cut(s, t, n), NEW cs, Records(s, cs)
    PROVE  Records(t, cs)
<1>1. n \in Nat /\ n <= Len(s) /\ Len(t) = n /\ (\A i \in 1..n : t[i] = s[i] /\ i \in 1..Len(s))
      /\ Len(s) \in Nat
  <2>1. Len(s) \in Nat
    BY LenProperties DEF Stacks
  <2> QED
    BY <2>1 DEF Cut
<1>2. ASSUME NEW i \in 0..n PROVE Sound(t, i, cs[i])
  <2>1. Sound(s, i, cs[i])
    <3>1. i \in 0..Len(s)
      BY <1>1
    <3> QED
      BY <3>1 DEF Records
  <2>2. i \in Nat /\ \A j \in 1..i : t[j] = s[j]
    BY <1>1
  <2> QED
    BY <2>1, <2>2, SoundBelow
<1>3. \A i \in 1..n : cs[i] = CellsAfter(cs[i - 1], t[i])
  BY <1>1 DEF Records
<1>4. \A i \in 1..n :
        t[i].kind \in {"guard", "handling"} => t[i].prev = Head(cs[i - 1][t[i].base])
  BY <1>1 DEF Records
<1> QED
  BY <1>1, <1>2, <1>3, <1>4 DEF Records

LEMMA RecordsGrown ==
    ASSUME NEW s \in Stacks, NEW t, NEW n, NEW f, Grown(s, t, n, f), NEW cs, Records(s, cs),
           NEW uses, OnTop(uses, f, RunningAt(s, n)),
           f.kind \in {"guard", "handling"} => f.prev = Head(cs[n][f.base])
    PROVE  \E ds : Records(t, ds) /\ ds[n + 1] = CellsAfter(cs[n], f)
<1>1. /\ n \in Nat /\ n <= Len(s) /\ Len(t) = n + 1 /\ t[n + 1] = f /\ t \in Stacks
      /\ \A i \in 1..n : t[i] = s[i] /\ i \in 1..Len(s)
      /\ Len(s) \in Nat
  <2>1. Len(s) \in Nat
    BY LenProperties DEF Stacks
  <2> QED
    BY <2>1 DEF Grown
<1> DEFINE ds == [i \in 0..n + 1 |-> IF i = n + 1 THEN CellsAfter(cs[n], f) ELSE cs[i]]
<1>2. ds[n + 1] = CellsAfter(cs[n], f) /\ \A i \in 0..n : ds[i] = cs[i]
  BY <1>1
<1> HIDE DEF ds
<1>3. \A i \in 1..n + 1 : i = n + 1 \/ i \in 1..n
  BY <1>1
<1>4. ASSUME NEW i \in 0..n PROVE Sound(t, i, ds[i])
  <2>1. Sound(s, i, cs[i])
    <3>1. i \in 0..Len(s)
      BY <1>1
    <3> QED
      BY <3>1 DEF Records
  <2>2. i \in Nat /\ \A j \in 1..i : t[j] = s[j]
    BY <1>1
  <2> QED
    BY <1>2, <2>1, <2>2, SoundBelow
<1>5. Sound(t, n + 1, ds[n + 1])
  <2>1. Sound(t, n, cs[n])
    <3>1. n \in 0..n
      BY <1>1
    <3> QED
      BY <1>2, <1>4, <3>1
  <2>2. RunningAt(t, n) = RunningAt(s, n)
    BY <1>1 DEF RunningAt
  <2>3. f.base = RunningAt(t, n) /\ (f.kind # "eval" => f.in = f.base)
    BY <2>2 DEF OnTop
  <2>4. n + 1 <= Len(t)
    BY <1>1
  <2> QED
    BY <1>1, <1>2, <2>1, <2>3, <2>4, SoundGrows
<1>6. \A i \in 0..n + 1 : Sound(t, i, ds[i])
  <2>1. \A i \in 0..n + 1 : i = n + 1 \/ i \in 0..n
    BY <1>1
  <2> QED
    BY <1>4, <1>5, <2>1
<1>7. ASSUME NEW i \in 1..n + 1
      PROVE  /\ ds[i] = CellsAfter(ds[i - 1], t[i])
             /\ t[i].kind \in {"guard", "handling"} => t[i].prev = Head(ds[i - 1][t[i].base])
  <2>1. ds[i - 1] = cs[i - 1]
    BY <1>1, <1>2
  <2>2. CASE i = n + 1
    <3>1. i - 1 = n
      BY <1>1, <2>2
    <3> QED
      BY <1>1, <1>2, <2>1, <2>2, <3>1
  <2>3. CASE i \in 1..n
    <3>1. i \in 0..n /\ ds[i] = cs[i] /\ t[i] = s[i] /\ i \in 1..Len(s)
      BY <1>1, <1>2, <2>3
    <3> QED
      BY <2>1, <3>1 DEF Records
  <2> QED
    BY <1>3, <2>2, <2>3
<1>8. ds[0] = [b \in Base |-> << <<>> >>]
  <2>1. 0 \in 0..n
    BY <1>1
  <2> QED
    BY <1>2, <2>1 DEF Records
<1>9. Records(t, ds)
  BY <1>1, <1>6, <1>7, <1>8 DEF Records
<1> QED
  BY <1>2, <1>9

(* What the ends of a guard and of a base-eval leave is what was there.      *)
LEMMA GivenBack ==
    ASSUME NEW c, Filled(c), NEW f \in Frames
    PROVE  /\ Idle(f) => CellsAfter(c, f) = c
           /\ f.kind \in {"guard", "handling"} /\ f.in = f.base /\ f.prev = Head(c[f.base]) =>
                [CellsAfter(c, f) EXCEPT ![f.base] = <<f.prev>> \o Tail(@)] = c
           /\ f.kind = "eval" => [CellsAfter(c, f) EXCEPT ![f.in] = Tail(@)] = c
<1> DEFINE h == HandlerOf(f)
           d == CellsAfter(c, f)
<1>1. h \in Saved /\ f.in \in Base
  BY CellsGrow DEF Frames
<1>2. c \in [Base -> Seq(Seq(Saved))] /\ c[f.in] \in Seq(Seq(Saved)) /\ c[f.in] # <<>>
  BY <1>1 DEF Filled, Cells
<1>3. /\ c[f.in] = <<Head(c[f.in])>> \o Tail(c[f.in]) /\ Head(c[f.in]) \in Seq(Saved)
      /\ Tail(c[f.in]) \in Seq(Seq(Saved))
  BY <1>2, HeadAndTail
<1>4. Idle(f) => d = c
  BY DEF Idle, CellsAfter
<1> HIDE DEF h
<1>5. ASSUME f.kind \in {"guard", "handling"}, f.in = f.base, f.prev = Head(c[f.base])
      PROVE  [d EXCEPT ![f.base] = <<f.prev>> \o Tail(@)] = c
  <2>1. CASE f.kind = "guard"
    <3> DEFINE g == << <<h>> \o f.prev >> \o Tail(c[f.in])
    <3>1. <<h>> \o f.prev \in Seq(Saved)
      BY <1>1, <1>3, <1>5, Consed
    <3>2. Tail(g) = Tail(c[f.in])
      <4>1. \A x \in Seq(Saved), T \in Seq(Seq(Saved)) : Tail(<<x>> \o T) = T
        BY Consed
      <4> QED
        BY <1>3, <3>1, <4>1
    <3> HIDE DEF g
    <3>3. d = [c EXCEPT ![f.in] = g]
      BY <1>5, <2>1 DEF CellsAfter, g, h
    <3> HIDE DEF d
    <3>4. d[f.in] = g
      BY <1>1, <1>2, <3>3
    <3>5. [d EXCEPT ![f.in] = <<f.prev>> \o Tail(@)] = [c EXCEPT ![f.in] = <<f.prev>> \o Tail(g)]
      BY <1>1, <1>2, <3>3, <3>4
    <3>6. <<f.prev>> \o Tail(g) = c[f.in]
      BY <1>3, <1>5, <3>2
    <3> QED
      BY <1>1, <1>2, <1>5, <3>5, <3>6
  <2>2. CASE f.kind = "handling"
    <3>1. d = c
      BY <1>4, <2>2 DEF Idle
    <3> HIDE DEF d
    <3> QED
      BY <1>1, <1>2, <1>3, <1>5, <3>1
  <2> QED
    BY <1>5, <2>1, <2>2
<1>6. ASSUME f.kind = "eval" PROVE [d EXCEPT ![f.in] = Tail(@)] = c
  <2> DEFINE g == << <<h>> >> \o c[f.in]
  <2>1. Tail(g) = c[f.in]
    <3>1. <<h>> \in Seq(Saved)
      BY <1>1
    <3> QED
      BY <1>2, <3>1, Consed
  <2> HIDE DEF g
  <2>2. d = [c EXCEPT ![f.in] = g]
    BY <1>6 DEF CellsAfter, g, h
  <2> HIDE DEF d
  <2> QED
    BY <1>1, <1>2, <2>1, <2>2
<1> QED
  BY <1>4, <1>5, <1>6

-----------------------------------------------------------------------------
(* Without continuations the cells are what the stack's frames made them,    *)
(* also while an error is on its way, and it is on its way to the innermost  *)
(* frame that waits.                                                         *)
Recorded == \E cs : Records(stack, cs) /\ cells = cs[Len(stack)]
Aimed ==
    /\ jump # NoJump => Target(stack, Len(stack), jump)
    /\ exited => AllIdle(stack, Len(stack))
Tracked == "continuations" \notin program.uses => ~cont.held /\ Recorded /\ Aimed

(* The handlers reachable from the cells are the frames that wait.           *)
LEMMA RecordedHandlers ==
    ASSUME Typed, Recorded, NEW b \in Base
    PROVE  Installed(b) = Waiting(b)
<1>1. PICK cs : Records(stack, cs) /\ cells = cs[Len(stack)]
  BY DEF Recorded
<1>2. Len(stack) \in Nat /\ DOMAIN stack = 1..Len(stack)
  BY LenProperties DEF Typed, Stacks
<1>3. Len(stack) \in 0..Len(stack)
  BY <1>2
<1>4. Linked(stack, Len(stack), cells)
  BY <1>1, <1>3 DEF Records, Sound
<1>5. Names(FlattenSeq(cells[b])) = FlattenSeq(Parts(stack, Len(stack), b))
  BY <1>4 DEF Linked
<1>6. Installed(b) = Names(FlattenSeq(cells[b]))
  BY DEF Installed, Names
<1> DEFINE fs == Newest(stack)
<1>7. fs = [i \in 1..Len(stack) |-> stack[Len(stack) - i + 1]]
  BY DEF Newest, Reverse
<1> HIDE DEF fs
<1>8. DOMAIN fs = 1..Len(stack) /\ \A i \in 1..Len(stack) : fs[i] = stack[Len(stack) - i + 1]
  BY <1>7
<1> DEFINE ps == [i \in DOMAIN fs |-> IF Waits(fs[i], b) THEN <<fs[i].id>> ELSE <<>>]
<1>9. Parts(stack, Len(stack), b) = ps
  BY <1>8 DEF Parts, Part
<1>10. Waiting(b) = FlattenSeq(ps)
  BY DEF Waiting, fs
<1> QED
  BY <1>5, <1>6, <1>9, <1>10

(* A raise where the cells are recorded is aimed.                            *)
LEMMA RaisedAim ==
    ASSUME NEW t \in Stacks, NEW cs, Records(t, cs), NEW e, NEW b,
           b = RunningAt(t, Len(t)), Raised(b, cs[Len(t)], e)
    PROVE  /\ jump' # NoJump => Target(t, Len(t), jump')
           /\ exited' => AllIdle(t, Len(t))
<1>1. Len(t) \in 0..Len(t)
  BY LenProperties DEF Stacks
<1>2. Innermost(t, Len(t), cs[Len(t)])
  BY <1>1 DEF Records, Sound
<1>3. CASE Head(cs[Len(t)][b]) = <<>>
  BY <1>2, <1>3 DEF Innermost, Raised
<1>4. CASE Head(cs[Len(t)][b]) # <<>>
  BY <1>2, <1>4 DEF Innermost, Raised
<1> QED
  BY <1>3, <1>4

(* The frame a jump is to is the one it was aimed at.                        *)
LEMMA AtTarget ==
    ASSUME Typed, Stacked, Target(stack, Len(stack), jump)
    PROVE  /\ At \in 1..Len(stack) /\ jump.id \in Live
           /\ TargetAt(stack, Len(stack), jump, At)
<1>1. PICK a \in 1..Len(stack) : TargetAt(stack, Len(stack), jump, a)
  BY DEF Target
<1>2. DOMAIN stack = 1..Len(stack)
  BY LenProperties DEF Typed, Stacks
<1>3. jump.id = stack[a].id
  BY <1>1 DEF TargetAt, HandlerOf
<1>4. jump.id \in Live
  BY <1>2, <1>3 DEF Live
<1>5. At \in 1..Len(stack) /\ stack[At].id = jump.id
  BY <1>4, AtIs
<1>6. At = a
  BY <1>3, <1>5 DEF Stacked, WellStacked, Distinct
<1> QED
  BY <1>1, <1>4, <1>6

(* Between the frame a jump is to and the top nothing waits.                 *)
LEMMA CellsAtTarget ==
    ASSUME NEW s \in Stacks, NEW a \in 1..Len(s), NEW h, TargetAt(s, Len(s), h, a),
           NEW cs, Records(s, cs)
    PROVE  cs[Len(s)] = CellsAfter(cs[a - 1], s[a]) /\ Filled(cs[a - 1])
<1>1. Len(s) \in Nat
  BY LenProperties DEF Stacks
<1>2. ASSUME NEW i \in a + 1..Len(s) PROVE cs[i] = cs[i - 1]
  <2>1. i \in 1..Len(s) /\ i - 1 \in 0..Len(s)
    BY <1>1
  <2>2. Filled(cs[i - 1]) /\ s[i] \in Frames /\ Idle(s[i])
    BY <2>1, ElementOfSeq DEF Records, Sound, Stacks, TargetAt
  <2>3. CellsAfter(cs[i - 1], s[i]) = cs[i - 1]
    BY <2>2, GivenBack
  <2> QED
    BY <2>1, <2>3 DEF Records
<1>3. cs[Len(s)] = cs[a]
  <2>1. a \in 0..Len(s)
    BY <1>1
  <2> QED
    BY <1>1, <1>2, <2>1, Still
<1>4. a - 1 \in 0..Len(s)
  BY <1>1
<1> QED
  BY <1>3, <1>4 DEF Records, Sound

LEMMA InitTracked ==
    ASSUME Init
    PROVE  Tracked
<1>1. stack = <<>> /\ cells = [b \in Base |-> << <<>> >>] /\ cont.held = FALSE
      /\ jump = NoJump /\ exited = FALSE
  BY DEF Init, NoCont
<1> DEFINE cs == [i \in 0..0 |-> [b \in Base |-> << <<>> >>]]
<1>2. Records(<<>>, cs)
  BY RecordsFirst
<1>3. Len(<<>>) = 0 /\ cs[0] = [b \in Base |-> << <<>> >>]
  OBVIOUS
<1> HIDE DEF cs
<1>4. Recorded
  BY <1>1, <1>2, <1>3 DEF Recorded
<1> QED
  BY <1>1, <1>4 DEF Tracked, Aimed

(* Pushing and popping keep the record.                                      *)
LEMMA PushRecorded ==
    ASSUME Typed, Stacked, Recorded, NEW f, Pushes(f), OnTop(program.uses, f, Running),
           f.kind # "handling", f.kind = "guard" => f.prev = Slot(Running),
           cells' = CellsAfter(cells, f)
    PROVE  Recorded'
<1>1. PICK cs : Records(stack, cs) /\ cells = cs[Len(stack)]
  BY DEF Recorded
<1>2. Grown(stack, stack', Len(stack), f)
  BY PushGrows
<1>3. OnTop(program.uses, f, RunningAt(stack, Len(stack)))
  BY PushedOnTop
<1>4. f.kind \in {"guard", "handling"} => f.prev = Head(cs[Len(stack)][f.base])
  BY <1>1 DEF Slot, OnTop
<1>5. \E ds : Records(stack', ds) /\ ds[Len(stack) + 1] = CellsAfter(cs[Len(stack)], f)
  BY <1>1, <1>2, <1>3, <1>4, RecordsGrown DEF Typed
<1>6. Len(stack') = Len(stack) + 1
  BY <1>2 DEF Grown
<1> QED
  BY <1>1, <1>5, <1>6 DEF Recorded

LEMMA PopRecorded ==
    ASSUME Typed, Stacked, Recorded, stack # <<>>, stack' = Front(stack),
           \/ Idle(Top) /\ cells' = cells
           \/ Top.kind \in {"guard", "handling"} /\ cells' = WithSlot(Top.base, Top.prev)
           \/ Top.kind = "eval" /\ cells' = Popped(Top.in)
    PROVE  Recorded'
<1>1. PICK cs : Records(stack, cs) /\ cells = cs[Len(stack)]
  BY DEF Recorded
<1>2. /\ Cut(stack, stack', Len(stack) - 1)
      /\ Top = stack[Len(stack)] /\ Top \in Frames /\ Len(stack) \in Nat \ {0}
  BY PopCuts
<1>3. Records(stack', cs) /\ Len(stack') = Len(stack) - 1
  BY <1>1, <1>2, RecordsCut DEF Typed, Cut
<1>4. Len(stack) \in 1..Len(stack) /\ Len(stack) - 1 \in 0..Len(stack)
  BY <1>2
<1> DEFINE c == cs[Len(stack) - 1]
<1>5. cells = CellsAfter(c, Top) /\ Filled(c)
      /\ (Top.kind \in {"guard", "handling"} => Top.prev = Head(c[Top.base]))
  BY <1>1, <1>2, <1>4 DEF Records, Sound
<1>6. Top.kind # "eval" => Top.in = Top.base
  BY <1>2, <1>4 DEF Stacked, WellStacked, OnTop
<1> HIDE DEF c
<1>7. cells' = c
  <2>1. CASE Idle(Top) /\ cells' = cells
    BY <1>2, <1>5, <2>1, GivenBack
  <2>2. CASE Top.kind \in {"guard", "handling"} /\ cells' = WithSlot(Top.base, Top.prev)
    BY <1>2, <1>5, <1>6, <2>2, GivenBack DEF WithSlot
  <2>3. CASE Top.kind = "eval" /\ cells' = Popped(Top.in)
    BY <1>2, <1>5, <2>3, GivenBack DEF Popped
  <2> QED
    BY <2>1, <2>2, <2>3
<1> QED
  BY <1>3, <1>7 DEF Recorded, c

LEMMA StepTracked ==
    ASSUME Typed, Stacked, Tracked, Typed', Stacked', [Next]_vars
    PROVE  Tracked'
<1> SUFFICES ASSUME "continuations" \notin program'.uses
             PROVE  ~cont'.held /\ Recorded' /\ Aimed'
  BY DEF Tracked
<1>1. program' = program
  BY DEF Next, vars
<1>2. ~cont.held /\ Recorded /\ Aimed
  BY <1>1 DEF Tracked
<1>3. ASSUME Recorded', Steady, jump' = jump, exited' = exited, cont' = cont
      PROVE  ~cont'.held /\ Recorded' /\ Aimed'
  BY <1>2, <1>3 DEF Steady, Aimed
<1>4. Running \in Base /\ Running = RunningAt(stack, Len(stack)) /\ stack \in Stacks
  BY RunningTyped, PushedOnTop DEF Typed
<1>5. CASE Call
  <2>1. Pushes(CallFrame) /\ OnTop(program.uses, CallFrame, Running)
    BY <1>5, FramesPushed, PushedOnTop
  <2>2. CallFrame.kind = "body" /\ cells' = CellsAfter(cells, CallFrame)
    BY <1>5 DEF CallFrame, CellsAfter, Call
  <2>3. Recorded'
    BY <1>2, <2>1, <2>2, PushRecorded
  <2> QED
    BY <1>3, <1>5, <2>3 DEF Call, CanPush
<1>6. CASE Return
  <2>1. Recorded'
    BY <1>2, <1>6, PopRecorded DEF Return, Idle
  <2> QED
    BY <1>3, <1>6, <2>1 DEF Return
<1>7. CASE Guard
  <2>1. Pushes(GuardFrame) /\ OnTop(program.uses, GuardFrame, Running)
    BY <1>7, FramesPushed, PushedOnTop
  <2>2. /\ GuardFrame.kind = "guard" /\ GuardFrame.in = Running /\ GuardFrame.prev = Slot(Running)
        /\ HandlerOf(GuardFrame) = [id |-> NewId, env |-> env[Running]]
    BY DEF GuardFrame, HandlerOf
  <2>3. cells' = [cells EXCEPT ![Running] = <<GuardHandler(NewId, Running)>> \o Tail(@)]
    BY <1>7 DEF Guard, WithSlot
  <2>4. GuardHandler(NewId, Running) = <<HandlerOf(GuardFrame)>> \o Head(cells[Running])
    BY <2>2 DEF GuardHandler, Slot
  <2>5. cells' = CellsAfter(cells, GuardFrame)
    BY <2>2, <2>3, <2>4 DEF CellsAfter
  <2>6. Recorded'
    BY <1>2, <2>1, <2>2, <2>5, PushRecorded
  <2> QED
    BY <1>3, <1>7, <2>6 DEF Guard, CanPush
<1>8. CASE EndGuard
  <2>1. Recorded'
    BY <1>2, <1>8, PopRecorded DEF EndGuard
  <2> QED
    BY <1>3, <1>8, <2>1 DEF EndGuard
<1>9. ASSUME NEW t \in Base, BaseEval(t) PROVE ~cont'.held /\ Recorded' /\ Aimed'
  <2>1. Pushes(EvalFrame(t)) /\ OnTop(program.uses, EvalFrame(t), Running)
    BY <1>9, FramesPushed, PushedOnTop
  <2>2. /\ EvalFrame(t).kind = "eval" /\ EvalFrame(t).in = t
        /\ HandlerOf(EvalFrame(t)) = [id |-> NewId, env |-> env[t]]
    BY DEF EvalFrame, HandlerOf
  <2>3. cells' = CellsAfter(cells, EvalFrame(t))
    BY <1>9, <2>2 DEF BaseEval, CellsAfter
  <2>4. Recorded'
    BY <1>2, <2>1, <2>2, <2>3, PushRecorded
  <2> QED
    BY <1>3, <1>9, <2>4 DEF BaseEval, CanPush
<1>10. CASE EndEval
  <2>1. Recorded'
    BY <1>2, <1>10, PopRecorded DEF EndEval
  <2> QED
    BY <1>3, <1>10, <2>1 DEF EndEval
<1>11. CASE Error
  <2>1. exited = FALSE /\ RaiseIn(Running, cells, env)
    BY <1>11 DEF Error, Steady, Typed
  <2>2. cells \in Cells /\ env \in Envs
    BY DEF Typed, Envs
  <2>3. Raised(Running, cells, env)
    BY <1>4, <2>1, <2>2, Raises
  <2>4. stack' = stack /\ cells' = cells /\ cont' = cont
    BY <1>11 DEF Error
  <2>5. Recorded'
    BY <1>2, <2>4 DEF Recorded
  <2>6. PICK cs : Records(stack, cs) /\ cells = cs[Len(stack)]
    BY <1>2 DEF Recorded
  <2>7. /\ jump' # NoJump => Target(stack, Len(stack), jump')
        /\ exited' => AllIdle(stack, Len(stack))
    BY <1>4, <2>3, <2>6, RaisedAim
  <2> QED
    BY <1>2, <2>4, <2>5, <2>7 DEF Aimed
<1>12. CASE Catch
  <2>1. Target(stack, Len(stack), jump)
    BY <1>2, <1>12 DEF Catch, Aimed
  <2>2. At \in 1..Len(stack) /\ TargetAt(stack, Len(stack), jump, At)
    BY <2>1, AtTarget
  <2> DEFINE f == stack[At]
             k == Handling(f)
  <2>3. f \in Frames /\ Len(stack) \in Nat /\ Grown(stack, stack', At - 1, k)
    BY <1>12, CatchGrows
  <2>4. f.kind = "guard" /\ f.in = f.base
    BY <1>12, <2>2 DEF Catch, Stacked, WellStacked, OnTop
  <2>5. /\ k \in Frames /\ k.kind = "handling" /\ k.in = f.in /\ k.base = f.base /\ k.prev = f.prev
    BY <2>3 DEF Handling, Frames, Kind
  <2>6. OnTop(program.uses, k, RunningAt(stack, At - 1))
    <3>1. OnTop(program.uses, f, RunningAt(stack, At - 1))
      BY <2>2 DEF Stacked, WellStacked
    <3> HIDE DEF k, f
    <3> QED
      BY <2>4, <2>5, <3>1 DEF OnTop
  <2>7. PICK cs : Records(stack, cs) /\ cells = cs[Len(stack)]
    BY <1>2 DEF Recorded
  <2> DEFINE c == cs[At - 1]
  <2>8. cells = CellsAfter(c, f) /\ Filled(c)
    BY <1>4, <2>2, <2>7, CellsAtTarget
  <2>9. f.prev = Head(c[f.base])
    BY <2>2, <2>4, <2>7 DEF Records
  <2>10. cells' = [cells EXCEPT ![f.base] = <<f.prev>> \o Tail(@)]
    BY <1>12 DEF Catch, WithSlot, SlotBack
  <2> HIDE DEF f, k, c
  <2>11. cells' = c
    BY <2>3, <2>4, <2>8, <2>9, <2>10, GivenBack
  <2>12. CellsAfter(c, k) = c
    BY <2>5 DEF CellsAfter
  <2>13. k.kind \in {"guard", "handling"} => k.prev = Head(cs[At - 1][k.base])
    BY <2>5, <2>9 DEF c
  <2>14. \E ds : Records(stack', ds) /\ ds[(At - 1) + 1] = CellsAfter(cs[At - 1], k)
    BY <1>4, <2>3, <2>6, <2>7, <2>13, RecordsGrown
  <2>15. Len(stack') = (At - 1) + 1
    BY <2>3 DEF Grown
  <2>16. Recorded'
    BY <2>11, <2>12, <2>14, <2>15 DEF Recorded, c
  <2>17. jump' = NoJump /\ exited' = exited /\ cont' = cont /\ exited = FALSE
    BY <1>12 DEF Catch, Typed
  <2> QED
    BY <1>2, <2>16, <2>17 DEF Aimed
<1>13. CASE Propagate
  <2>1. Target(stack, Len(stack), jump)
    BY <1>2, <1>13 DEF Propagate, Aimed
  <2>2. At \in 1..Len(stack) /\ TargetAt(stack, Len(stack), jump, At)
    BY <2>1, AtTarget
  <2> DEFINE f == stack[At]
  <2>3. f \in Frames /\ Len(stack) \in Nat /\ Cut(stack, stack', At - 1)
    BY <1>13, PropagateCuts
  <2>4. f.kind = "eval" /\ f.base = RunningAt(stack, At - 1) /\ f.base \in Base /\ f.in \in Base
    BY <1>13, <2>2, <2>3 DEF Propagate, Stacked, WellStacked, OnTop, Frames
  <2>5. PICK cs : Records(stack, cs) /\ cells = cs[Len(stack)]
    BY <1>2 DEF Recorded
  <2> DEFINE c == cs[At - 1]
  <2>6. cells = CellsAfter(c, f) /\ Filled(c)
    BY <1>4, <2>2, <2>5, CellsAtTarget
  <2>7. /\ cells' = Popped(f.in) /\ RaiseIn(f.base, Popped(f.in), TargetEnv(f))
        /\ cont' = cont /\ jump # NoJump
    BY <1>13 DEF Propagate
  <2> HIDE DEF f
  <2>8. Popped(f.in) = c
    BY <2>3, <2>4, <2>6, GivenBack DEF Popped
  <2>9. Records(stack', cs) /\ Len(stack') = At - 1 /\ stack' \in Stacks
    BY <1>4, <2>3, <2>5, RecordsCut DEF Cut
  <2>10. Recorded'
    BY <2>7, <2>8, <2>9 DEF Recorded, c
  <2>11. RunningAt(stack', Len(stack')) = f.base
    <3>1. At - 1 = 0 \/ At - 1 \in 1..At - 1
      BY <2>2, <2>3
    <3> QED
      BY <2>3, <2>4, <2>9, <3>1 DEF RunningAt, Cut
  <2>12. TargetEnv(f) \in Envs /\ exited = FALSE /\ c \in Cells
    <3>1. jump.env \in Id \cup {RootEnv}
      BY <2>7 DEF Typed, Saved
    <3> QED
      BY <2>4, <2>6, <2>7, <3>1 DEF TargetEnv, Typed, Envs, Filled
  <2>13. Raised(f.base, c, TargetEnv(f))
    <3> HIDE DEF c
    <3> QED
      BY <2>4, <2>7, <2>8, <2>12, Raises
  <2>14. /\ jump' # NoJump => Target(stack', Len(stack'), jump')
         /\ exited' => AllIdle(stack', Len(stack'))
    BY <2>9, <2>11, <2>13, RaisedAim
  <2> QED
    BY <1>2, <2>7, <2>10, <2>14 DEF Aimed
<1>14. CASE Capture
  BY <1>1, <1>14 DEF Capture
<1>15. CASE Invoke
  BY <1>2, <1>15 DEF Invoke
<1>16. CASE UNCHANGED vars
  BY <1>2, <1>16 DEF vars, Recorded, Aimed
<1> QED
  BY <1>5, <1>6, <1>7, <1>8, <1>9, <1>10, <1>11, <1>12, <1>13, <1>14, <1>15, <1>16 DEF Next, Step

LEMMA MaxIs ==
    ASSUME NEW I, I \subseteq Nat, NEW a \in I, \A i \in I : i <= a
    PROVE  Max(I) = a
<1> DEFINE IsMax(x) == x \in I /\ \A y \in I : x >= y
<1>1. Max(I) = CHOOSE x \in I : \A y \in I : x >= y
  BY DEF Max
<1>2. \E x \in I : \A y \in I : x >= y
  <2>1. \A y \in I : a >= y
    OBVIOUS
  <2> QED
    BY <2>1
<1>3. Max(I) \in I /\ \A y \in I : Max(I) >= y
  BY <1>1, <1>2
<1>4. Max(I) \in Nat /\ a \in Nat /\ Max(I) >= a /\ a >= Max(I)
  BY <1>3
<1> QED
  BY <1>4

-----------------------------------------------------------------------------
(* What that says of handlers and errors.                                    *)
HandlersInv == Typed /\ Stacked /\ Tracked

LEMMA HandlersInit ==
    ASSUME Init
    PROVE  HandlersInv
BY InitTyped, InitStacked, InitTracked DEF HandlersInv

LEMMA HandlersStep ==
    ASSUME HandlersInv, [Next]_vars
    PROVE  HandlersInv'
<1>1. Typed'
  BY StepTyped DEF HandlersInv
<1>2. Stacked'
  BY <1>1, StepStacked DEF HandlersInv
<1>3. Tracked'
  BY <1>1, <1>2, StepTracked DEF HandlersInv
<1> QED
  BY <1>1, <1>2, <1>3 DEF HandlersInv

LEMMA NoGuardWaits ==
    ASSUME Typed, AllIdle(stack, Len(stack))
    PROVE  InnermostGuard = 0
<1>1. {i \in 1..Len(stack) : stack[i].kind = "guard"} = {}
  BY DEF AllIdle, Idle
<1> QED
  BY <1>1 DEF InnermostGuard, SelectLastInSeq

(* A guard that catches is the innermost on the stack.                       *)
LEMMA CatchStep ==
    ASSUME HandlersInv, [Next]_vars, Catches, Returning
    PROVE  Len(stack') = InnermostGuard
<1>1. Catch
  <2>1. jump # NoJump /\ jump' = NoJump /\ exited' = FALSE
    <3>1. Typed'
      BY StepTyped DEF HandlersInv
    <3> QED
      BY <3>1 DEF Catches, Typed
  <2>2. ~Steady /\ jump' # jump
    BY <2>1 DEF Steady
  <2>3. ASSUME Propagate PROVE FALSE
    <3> DEFINE f == stack[At]
    <3>1. f \in Frames /\ At \in 1..Len(stack)
      BY <2>3, PropagateCuts DEF HandlersInv
    <3>2. f.base \in Base /\ f.in \in Base /\ jump.env \in Id \cup {RootEnv}
      BY <2>1, <3>1 DEF Frames, HandlersInv, Typed, Saved
    <3>3. RaiseIn(f.base, Popped(f.in), TargetEnv(f)) /\ exited = FALSE
      BY <2>1, <2>3 DEF Propagate, HandlersInv, Typed
    <3> HIDE DEF f
    <3>4. Popped(f.in) \in Cells
      <4>1. <<>> \in Seq(Saved) /\ cells \in Cells
        BY EmptySeq DEF HandlersInv, Typed
      <4> QED
        BY <3>2, <4>1, CellsTyped DEF Popped
    <3>5. TargetEnv(f) \in Envs
      BY <3>2 DEF TargetEnv, HandlersInv, Typed, Envs
    <3>6. Raised(f.base, Popped(f.in), TargetEnv(f))
      BY <3>2, <3>3, <3>4, <3>5, Raises
    <3> QED
      BY <2>1, <3>6 DEF Raised
  <2>4. ~Call /\ ~Return /\ ~Guard /\ ~EndGuard /\ (\A t \in Base : ~BaseEval(t)) /\ ~EndEval
        /\ ~Error /\ ~Capture /\ ~Invoke
    BY <2>2 DEF Call, Return, Guard, EndGuard, BaseEval, EndEval, Error, Capture, Invoke, CanPush
  <2>5. ~UNCHANGED vars
    BY <2>2 DEF vars
  <2> QED
    BY <2>3, <2>4, <2>5 DEF Next, Step
<1>2. Typed /\ Stacked /\ Target(stack, Len(stack), jump)
  BY <1>1 DEF HandlersInv, Tracked, Returning, Aimed, Catches
<1>3. At \in 1..Len(stack) /\ TargetAt(stack, Len(stack), jump, At)
  BY <1>2, AtTarget
<1>4. Len(stack) \in Nat /\ stack[At].kind = "guard" /\ Len(stack') = At
  BY <1>1, <1>2, <1>3, CatchGrows DEF Catch, Grown
<1> DEFINE I == {i \in 1..Len(stack) : stack[i].kind = "guard"}
<1>5. At \in I /\ I \subseteq Nat
  BY <1>3, <1>4
<1>6. ASSUME NEW i \in I PROVE i <= At
  <2>1. i > At => i \in At + 1..Len(stack)
    BY <1>3, <1>4
  <2>2. i \in At + 1..Len(stack) => Idle(stack[i])
    BY <1>3 DEF TargetAt
  <2>3. ~Idle(stack[i]) /\ i \in Nat /\ At \in Nat
    BY <1>4, <1>5 DEF Idle
  <2> QED
    BY <2>1, <2>2, <2>3
<1>7. InnermostGuard = IF I # {} THEN Max(I) ELSE 0
  BY DEF InnermostGuard, SelectLastInSeq
<1> HIDE DEF I
<1>8. Max(I) = At
  BY <1>5, <1>6, MaxIs
<1> QED
  BY <1>4, <1>5, <1>7, <1>8

(* In programs whose frames return once, the handlers reachable from a       *)
(* base's cells are, innermost first, those of the frames that wait for an   *)
(* error in it.                                                              *)
THEOREM HandlersMatch == Spec => []HandlersAreTheStack
<1>1. Init => HandlersInv
  BY HandlersInit
<1>2. HandlersInv /\ [Next]_vars => HandlersInv'
  BY HandlersStep
<1>3. HandlersInv => HandlersAreTheStack
  BY RecordedHandlers DEF HandlersInv, Tracked, Returning, HandlersAreTheStack
<1> QED
  BY <1>1, <1>2, <1>3, PTL DEF Spec

(* There an error ends the process only when no guard is on the stack.       *)
THEOREM NoGuardIsPassedOver == Spec => []UncaughtUnguarded
<1>1. Init => HandlersInv
  BY HandlersInit
<1>2. HandlersInv /\ [Next]_vars => HandlersInv'
  BY HandlersStep
<1>3. HandlersInv => UncaughtUnguarded
  BY NoGuardWaits DEF HandlersInv, Tracked, Aimed, Returning, UncaughtUnguarded
<1> QED
  BY <1>1, <1>2, <1>3, PTL DEF Spec

(* There an error is caught by the innermost guard on the stack, through     *)
(* however many base-evals.                                                  *)
THEOREM InnermostCatches == Spec => CatchesInnermost
<1>1. Init => HandlersInv
  BY HandlersInit
<1>2. HandlersInv /\ [Next]_vars => HandlersInv'
  BY HandlersStep
<1>3. HandlersInv /\ [Next]_vars => [Catches /\ Returning => Len(stack') = InnermostGuard]_vars
  BY CatchStep
<1> QED
  BY <1>1, <1>2, <1>3, PTL DEF Spec, CatchesInnermost

-----------------------------------------------------------------------------
(* The environment a base was left in by the n oldest frames: that of its    *)
(* newest body or handler body.                                              *)
Owns(f, b) == f.base = b /\ f.kind \in {"body", "handling"}
Owners(stk, n, b) == {i \in 1..n : Owns(stk[i], b)}
EnvAt(stk, n, b) == IF Owners(stk, n, b) # {} THEN stk[Max(Owners(stk, n, b))].id ELSE RootEnv

LEMMA EnvFirst == \A stk, b : EnvAt(stk, 0, b) = RootEnv
BY DEF EnvAt, Owners

LEMMA EnvBelow ==
    ASSUME NEW s, NEW t, NEW n \in Nat, \A i \in 1..n : t[i] = s[i], NEW b
    PROVE  EnvAt(t, n, b) = EnvAt(s, n, b)
<1>1. Owners(t, n, b) = Owners(s, n, b)
  BY DEF Owners
<1> DEFINE I == Owners(s, n, b)
<1>2. CASE I = {}
  BY <1>1, <1>2 DEF EnvAt
<1>3. CASE I # {}
  <2>1. I \subseteq 0..n /\ I \subseteq 1..n /\ I \subseteq Nat
    BY DEF Owners
  <2> HIDE DEF I
  <2>2. PICK a \in I : \A i \in I : i <= a
    BY <1>3, <2>1, Greatest
  <2>3. Max(I) \in 1..n
    BY <2>1, <2>2, MaxIs
  <2> QED
    BY <1>1, <1>3, <2>3 DEF EnvAt, I
<1> QED
  BY <1>2, <1>3

LEMMA EnvGrows ==
    ASSUME NEW s, NEW n \in Nat, NEW b
    PROVE  EnvAt(s, n + 1, b) = IF Owns(s[n + 1], b) THEN s[n + 1].id ELSE EnvAt(s, n, b)
<1>1. \A i \in 1..n + 1 : i = n + 1 \/ i \in 1..n
  OBVIOUS
<1>2. CASE Owns(s[n + 1], b)
  <2>1. /\ n + 1 \in Owners(s, n + 1, b) /\ Owners(s, n + 1, b) \subseteq Nat
        /\ \A i \in Owners(s, n + 1, b) : i <= n + 1
    BY <1>2 DEF Owners
  <2>2. Max(Owners(s, n + 1, b)) = n + 1
    BY <2>1, MaxIs
  <2> QED
    BY <1>2, <2>1, <2>2 DEF EnvAt
<1>3. CASE ~Owns(s[n + 1], b)
  <2>1. Owners(s, n + 1, b) = Owners(s, n, b)
    BY <1>1, <1>3 DEF Owners
  <2> QED
    BY <1>3, <2>1 DEF EnvAt
<1> QED
  BY <1>2, <1>3

LEMMA EnvQuiet ==
    ASSUME NEW s, NEW n \in Nat, NEW m \in 0..n, NEW b, \A i \in m + 1..n : ~Owns(s[i], b)
    PROVE  EnvAt(s, n, b) = EnvAt(s, m, b)
<1>1. \A i \in 1..n : i \in m + 1..n \/ i \in 1..m
  OBVIOUS
<1>2. Owners(s, n, b) = Owners(s, m, b)
  BY <1>1 DEF Owners
<1> QED
  BY <1>2 DEF EnvAt

(* Each frame holds the environment of the base it evaluates in, as it was   *)
(* when the frame was pushed.                                                *)
EnvSaved(stk) == \A i \in 1..Len(stk) : stk[i].env = EnvAt(stk, i - 1, stk[i].in)

LEMMA SavedCut ==
    ASSUME NEW s \in Stacks, NEW t, NEW n, Cut(s, t, n), EnvSaved(s)
    PROVE  EnvSaved(t) /\ \A b : EnvAt(t, n, b) = EnvAt(s, n, b)
<1>1. /\ n \in Nat /\ Len(t) = n
      /\ \A i \in 1..n : t[i] = s[i] /\ i \in 1..Len(s) /\ i - 1 \in Nat
      /\ \A i \in 1..n : \A j \in 1..i - 1 : t[j] = s[j]
  <2>1. Len(s) \in Nat
    BY LenProperties DEF Stacks
  <2> QED
    BY <2>1 DEF Cut
<1>2. ASSUME NEW i \in 1..n PROVE t[i].env = EnvAt(t, i - 1, t[i].in)
  <2>1. EnvAt(t, i - 1, s[i].in) = EnvAt(s, i - 1, s[i].in)
    BY <1>1, EnvBelow
  <2> QED
    BY <1>1, <2>1 DEF EnvSaved
<1>3. \A b : EnvAt(t, n, b) = EnvAt(s, n, b)
  BY <1>1, EnvBelow
<1> QED
  BY <1>1, <1>2, <1>3 DEF EnvSaved

LEMMA SavedGrown ==
    ASSUME NEW s \in Stacks, NEW t, NEW n, NEW f, Grown(s, t, n, f), EnvSaved(s),
           f.env = EnvAt(s, n, f.in)
    PROVE  /\ EnvSaved(t)
           /\ \A b : EnvAt(t, n + 1, b) = IF Owns(f, b) THEN f.id ELSE EnvAt(s, n, b)
<1>1. /\ n \in Nat /\ Len(t) = n + 1 /\ t[n + 1] = f
      /\ \A i \in 1..n : t[i] = s[i] /\ i \in 1..Len(s)
      /\ \A i \in 1..n + 1 : i - 1 \in Nat /\ \A j \in 1..i - 1 : t[j] = s[j]
      /\ \A i \in 1..n + 1 : i = n + 1 \/ i \in 1..n
  <2>1. Len(s) \in Nat
    BY LenProperties DEF Stacks
  <2>2. n \in Nat /\ n <= Len(s) /\ Len(t) = n + 1 /\ t[n + 1] = f /\ \A i \in 1..n : t[i] = s[i]
    BY <2>1 DEF Grown
  <2>3. \A i \in 1..n : i \in 1..Len(s)
    BY <2>1, <2>2
  <2>4. ASSUME NEW i \in 1..n + 1 PROVE i - 1 \in Nat /\ \A j \in 1..i - 1 : t[j] = s[j]
    <3>1. i - 1 \in Nat /\ \A j \in 1..i - 1 : j \in 1..n
      BY <2>2
    <3> QED
      BY <2>2, <3>1
  <2>5. \A i \in 1..n + 1 : i = n + 1 \/ i \in 1..n
    BY <2>2
  <2> HIDE DEF Grown
  <2> QED
    BY ONLY <2>2, <2>3, <2>4, <2>5
<1>2. \A b : EnvAt(t, n, b) = EnvAt(s, n, b)
  <2>1. n \in Nat /\ \A i \in 1..n : t[i] = s[i]
    BY <1>1
  <2> QED
    BY ONLY <2>1, EnvBelow
<1>3. ASSUME NEW i \in 1..n + 1 PROVE t[i].env = EnvAt(t, i - 1, t[i].in)
  <2>1. CASE i = n + 1
    <3>1. i - 1 = n
      BY <1>1, <2>1
    <3> QED
      BY <1>1, <1>2, <2>1, <3>1
  <2>2. CASE i \in 1..n
    <3>1. EnvAt(t, i - 1, s[i].in) = EnvAt(s, i - 1, s[i].in)
      BY <1>1, EnvBelow
    <3> QED
      BY <1>1, <2>2, <3>1 DEF EnvSaved
  <2> QED
    BY <1>1, <2>1, <2>2
<1>4. \A b : EnvAt(t, n + 1, b) = IF Owns(f, b) THEN f.id ELSE EnvAt(s, n, b)
  BY <1>1, <1>2, EnvGrows
<1> QED
  BY <1>1, <1>3, <1>4 DEF EnvSaved

(* Each base's environment is what the stack says; while an error is on its  *)
(* way, that of the base it is raised in is the handler's instead.           *)
Current ==
    ~exited => \A b \in Base :
        jump = NoJump \/ b # RunningAt(stack, Len(stack)) => env[b] = EnvAt(stack, Len(stack), b)
Environs ==
    OneBase =>
    /\ EnvSaved(stack) /\ EnvSaved(cont.stack)
    /\ cont.env = EnvAt(cont.stack, Len(cont.stack), cont.base)
    /\ Current

(* With no child everything is the host's.                                   *)
LEMMA HostOnly ==
    ASSUME NEW s \in Stacks, NEW uses, WellStacked(uses, s), "children" \notin uses
    PROVE  /\ RunningAt(s, Len(s)) = Host
           /\ \A b \in Base \ {Host} : EnvAt(s, Len(s), b) = RootEnv
<1>1. \A i \in 1..Len(s) : s[i].base = Host /\ s[i].in = Host
  BY DEF WellStacked, OnTop
<1>2. Len(s) = 0 \/ Len(s) \in 1..Len(s)
  BY LenProperties DEF Stacks
<1>3. RunningAt(s, Len(s)) = Host
  BY <1>1, <1>2 DEF RunningAt
<1>4. ASSUME NEW b \in Base \ {Host} PROVE EnvAt(s, Len(s), b) = RootEnv
  <2>1. Owners(s, Len(s), b) = {}
    BY <1>1 DEF Owners, Owns
  <2> QED
    BY <2>1 DEF EnvAt
<1> QED
  BY <1>3, <1>4

(* The frame a jump is to evaluates in the base that runs, and so do those   *)
(* on it: it is where the error was aimed, or there is one base.             *)
LEMMA JumpBase ==
    ASSUME NEW s \in Stacks, NEW uses, WellStacked(uses, s), NEW h,
           "continuations" \notin uses => Target(s, Len(s), h),
           "continuations" \notin uses \/ "children" \notin uses,
           NEW i \in 1..Len(s), s[i].id = h.id
    PROVE  /\ s[i].in = RunningAt(s, Len(s))
           /\ \A j \in i + 1..Len(s) : s[j].base = s[i].in
           /\ "children" \in uses => TargetAt(s, Len(s), h, i)
<1>1. CASE "continuations" \notin uses
  <2>1. PICK a \in 1..Len(s) : TargetAt(s, Len(s), h, a)
    BY <1>1 DEF Target
  <2>2. s[a].id = h.id
    BY <2>1 DEF TargetAt, HandlerOf
  <2>3. a = i
    BY <2>2 DEF WellStacked, Distinct
  <2> QED
    BY <2>1, <2>3 DEF TargetAt
<1>2. CASE "children" \notin uses
  <2>1. \A j \in 1..Len(s) : s[j].base = Host /\ s[j].in = Host
    BY <1>2 DEF WellStacked, OnTop
  <2>2. \A j \in i + 1..Len(s) : j \in 1..Len(s)
    BY LenProperties DEF Stacks
  <2> QED
    BY <1>2, <2>1, <2>2, HostOnly
<1> QED
  BY <1>1, <1>2

LEMMA InitEnvirons ==
    ASSUME Init
    PROVE  Environs
<1>1. Len(<<>>) = 0 /\ EnvSaved(<<>>)
  BY DEF EnvSaved
<1>2. /\ stack = <<>> /\ cont.stack = <<>> /\ cont.env = RootEnv
      /\ \A b \in Base : env[b] = RootEnv
  BY DEF Init, NoCont
<1> QED
  BY <1>1, <1>2, EnvFirst DEF Environs, Current

(* A frame pushed, or popped, between raises.                                *)
LEMMA PushCurrent ==
    ASSUME Typed, Stacked, NEW f, Pushes(f), OnTop(program.uses, f, Running),
           EnvSaved(stack), Current,
           f.env = env[f.in], f.in \in Base,
           \A b \in Base : env'[b] = IF Owns(f, b) THEN f.id ELSE env[b]
    PROVE  EnvSaved(stack') /\ \A b \in Base : env'[b] = EnvAt(stack', Len(stack'), b)
<1>1. Grown(stack, stack', Len(stack), f) /\ stack \in Stacks
  BY PushGrows DEF Typed
<1>2. \A b \in Base : env[b] = EnvAt(stack, Len(stack), b)
  BY DEF Pushes, CanPush, Steady, Current
<1>3. f.env = EnvAt(stack, Len(stack), f.in)
  BY <1>2
<1>4. /\ EnvSaved(stack')
      /\ \A b : EnvAt(stack', Len(stack) + 1, b) = IF Owns(f, b) THEN f.id ELSE EnvAt(stack, Len(stack), b)
  BY <1>1, <1>3, SavedGrown
<1>5. Len(stack') = Len(stack) + 1
  BY <1>1 DEF Grown
<1> QED
  BY <1>2, <1>4, <1>5

LEMMA PopCurrent ==
    ASSUME Typed, Stacked, stack # <<>>, stack' = Front(stack), Steady,
           EnvSaved(stack), Current,
           \A b \in Base : env'[b] = IF Owns(Top, b) THEN Top.env ELSE env[b]
    PROVE  EnvSaved(stack') /\ \A b \in Base : env'[b] = EnvAt(stack', Len(stack'), b)
<1>1. /\ Cut(stack, stack', Len(stack) - 1) /\ stack \in Stacks
      /\ Top = stack[Len(stack)] /\ Len(stack) \in Nat \ {0}
  BY PopCuts DEF Typed
<1>2. Len(stack) \in 1..Len(stack) /\ Len(stack) - 1 \in Nat /\ (Len(stack) - 1) + 1 = Len(stack)
  BY <1>1
<1>3. EnvSaved(stack') /\ \A b : EnvAt(stack', Len(stack) - 1, b) = EnvAt(stack, Len(stack) - 1, b)
  BY <1>1, SavedCut
<1>4. Len(stack') = Len(stack) - 1
  BY <1>1 DEF Cut
<1>5. \A b \in Base : env[b] = EnvAt(stack, Len(stack), b)
  BY DEF Steady, Current
<1>6. \A b : EnvAt(stack, (Len(stack) - 1) + 1, b) =
             IF Owns(stack[(Len(stack) - 1) + 1], b) THEN stack[(Len(stack) - 1) + 1].id
             ELSE EnvAt(stack, Len(stack) - 1, b)
  BY <1>2, EnvGrows
<1>7. \A b : EnvAt(stack, Len(stack), b) = IF Owns(Top, b) THEN Top.id ELSE EnvAt(stack, Len(stack) - 1, b)
  BY <1>1, <1>2, <1>6
<1>8. Top.env = EnvAt(stack, Len(stack) - 1, Top.in)
  BY <1>1, <1>2 DEF EnvSaved
<1>9. \A b : Owns(Top, b) => Top.in = b
  BY <1>1, <1>2 DEF Owns, Stacked, WellStacked, OnTop
<1>10. ASSUME NEW b \in Base PROVE env'[b] = EnvAt(stack, Len(stack) - 1, b)
  <2>1. CASE Owns(Top, b)
    BY <1>8, <1>9, <2>1
  <2>2. CASE ~Owns(Top, b)
    BY <1>5, <1>7, <2>2
  <2> QED
    BY <2>1, <2>2
<1> QED
  BY <1>3, <1>4, <1>10

LEMMA StepEnvirons ==
    ASSUME Typed, Stacked, Tracked, Environs, Typed', Stacked', [Next]_vars
    PROVE  Environs'
<1> SUFFICES ASSUME OneBase'
             PROVE  /\ EnvSaved(stack') /\ EnvSaved(cont'.stack)
                    /\ cont'.env = EnvAt(cont'.stack, Len(cont'.stack), cont'.base)
                    /\ Current'
  BY DEF Environs, EnvSaved
<1> DEFINE Goal == /\ EnvSaved(stack') /\ EnvSaved(cont'.stack)
                   /\ cont'.env = EnvAt(cont'.stack, Len(cont'.stack), cont'.base)
                   /\ Current'
<1>1. program' = program
  BY DEF Next, vars
<1>2. "continuations" \notin program.uses \/ "children" \notin program.uses
  BY <1>1 DEF OneBase
<1>3. /\ EnvSaved(stack) /\ EnvSaved(cont.stack)
      /\ cont.env = EnvAt(cont.stack, Len(cont.stack), cont.base)
      /\ Current
  BY <1>2 DEF Environs, OneBase
<1>4. Running \in Base /\ Running = RunningAt(stack, Len(stack)) /\ stack \in Stacks
      /\ env \in [Base -> Id \cup {RootEnv}]
  BY RunningTyped, PushedOnTop DEF Typed
<1>5. ASSUME EnvSaved(stack'), \A b \in Base : env'[b] = EnvAt(stack', Len(stack'), b), cont' = cont
      PROVE  Goal
  BY <1>3, <1>5 DEF Current
<1>6. ASSUME Call PROVE Goal
  <2>1. Pushes(CallFrame) /\ OnTop(program.uses, CallFrame, Running)
    BY <1>6, FramesPushed, PushedOnTop
  <2>2. /\ CallFrame.in = Running /\ CallFrame.env = env[Running] /\ CallFrame.id = NewId
        /\ \A b : Owns(CallFrame, b) <=> b = Running
    BY DEF CallFrame, Owns
  <2>3. \A b \in Base : env'[b] = IF Owns(CallFrame, b) THEN CallFrame.id ELSE env[b]
    BY <1>4, <1>6, <2>2 DEF Call
  <2>4. EnvSaved(stack') /\ \A b \in Base : env'[b] = EnvAt(stack', Len(stack'), b)
    BY <1>3, <1>4, <2>1, <2>2, <2>3, PushCurrent
  <2> QED
    BY <1>5, <1>6, <2>4 DEF Call
<1>7. ASSUME Guard PROVE Goal
  <2>1. Pushes(GuardFrame) /\ OnTop(program.uses, GuardFrame, Running)
    BY <1>7, FramesPushed, PushedOnTop
  <2>2. GuardFrame.in = Running /\ GuardFrame.env = env[Running] /\ \A b : ~Owns(GuardFrame, b)
    BY DEF GuardFrame, Owns
  <2>3. \A b \in Base : env'[b] = IF Owns(GuardFrame, b) THEN GuardFrame.id ELSE env[b]
    BY <1>7, <2>2 DEF Guard
  <2>4. EnvSaved(stack') /\ \A b \in Base : env'[b] = EnvAt(stack', Len(stack'), b)
    BY <1>3, <1>4, <2>1, <2>2, <2>3, PushCurrent
  <2> QED
    BY <1>5, <1>7, <2>4 DEF Guard
<1>8. ASSUME NEW t \in Base, BaseEval(t) PROVE Goal
  <2>1. Pushes(EvalFrame(t)) /\ OnTop(program.uses, EvalFrame(t), Running)
    BY <1>8, FramesPushed, PushedOnTop
  <2>2. EvalFrame(t).in = t /\ EvalFrame(t).env = env[t] /\ \A b : ~Owns(EvalFrame(t), b)
    BY DEF EvalFrame, Owns
  <2>3. \A b \in Base : env'[b] = IF Owns(EvalFrame(t), b) THEN EvalFrame(t).id ELSE env[b]
    BY <1>8, <2>2 DEF BaseEval
  <2>4. EnvSaved(stack') /\ \A b \in Base : env'[b] = EnvAt(stack', Len(stack'), b)
    BY <1>3, <2>1, <2>2, <2>3, PushCurrent
  <2> QED
    BY <1>5, <1>8, <2>4 DEF BaseEval
<1>9. ASSUME Return PROVE Goal
  <2>1. \A b \in Base : env'[b] = IF Owns(Top, b) THEN Top.env ELSE env[b]
    BY <1>4, <1>9 DEF Return, Owns
  <2>2. EnvSaved(stack') /\ \A b \in Base : env'[b] = EnvAt(stack', Len(stack'), b)
    BY <1>3, <1>9, <2>1, PopCurrent DEF Return
  <2> QED
    BY <1>5, <1>9, <2>2 DEF Return
<1>10. ASSUME EndGuard PROVE Goal
  <2>1. \A b \in Base : env'[b] = IF Owns(Top, b) THEN Top.env ELSE env[b]
    BY <1>4, <1>10 DEF EndGuard, GuardEnv, Owns
  <2>2. EnvSaved(stack') /\ \A b \in Base : env'[b] = EnvAt(stack', Len(stack'), b)
    BY <1>3, <1>10, <2>1, PopCurrent DEF EndGuard
  <2> QED
    BY <1>5, <1>10, <2>2 DEF EndGuard
<1>11. ASSUME EndEval PROVE Goal
  <2>1. \A b \in Base : env'[b] = IF Owns(Top, b) THEN Top.env ELSE env[b]
    BY <1>11 DEF EndEval, Owns
  <2>2. EnvSaved(stack') /\ \A b \in Base : env'[b] = EnvAt(stack', Len(stack'), b)
    BY <1>3, <1>11, <2>1, PopCurrent DEF EndEval
  <2> QED
    BY <1>5, <1>11, <2>2 DEF EndEval
<1>12. ASSUME Error PROVE Goal
  <2>1. exited = FALSE /\ RaiseIn(Running, cells, env) /\ jump = NoJump
    BY <1>12 DEF Error, Steady, Typed
  <2>2. cells \in Cells /\ env \in Envs
    BY DEF Typed, Envs
  <2>3. Raised(Running, cells, env)
    BY <1>4, <2>1, <2>2, Raises
  <2>4. stack' = stack /\ cont' = cont
    BY <1>12 DEF Error
  <2>5. exited' \/ (jump' # NoJump /\ \A b \in Base \ {Running} : env'[b] = env[b])
    BY <1>4, <2>3 DEF Raised
  <2>6. \A b \in Base : env[b] = EnvAt(stack, Len(stack), b)
    BY <1>3, <2>1 DEF Current
  <2>7. Current'
    BY <1>4, <2>4, <2>5, <2>6 DEF Current
  <2> QED
    BY <1>3, <2>4, <2>7
<1>13. ASSUME Catch PROVE Goal
  <2> DEFINE f == stack[At]
             k == Handling(f)
  <2>1. At \in 1..Len(stack) /\ f \in Frames /\ Len(stack) \in Nat /\ f.id = jump.id
        /\ Grown(stack, stack', At - 1, k)
    BY <1>13, CatchGrows
  <2>2. f.kind = "guard" /\ f.in = f.base /\ f.base \in Base
    BY <1>13, <2>1 DEF Catch, Stacked, WellStacked, OnTop, Frames
  <2>3. f.in = RunningAt(stack, Len(stack)) /\ \A j \in At + 1..Len(stack) : stack[j].base = f.in
    <3>1. "continuations" \notin program.uses => Target(stack, Len(stack), jump)
      BY <1>13 DEF Tracked, Aimed, Catch
    <3> QED
      BY <1>2, <1>4, <2>1, <3>1, JumpBase DEF Stacked
  <2>4. k.id = f.id /\ k.env = f.env /\ k.in = f.in /\ k.base = f.base /\ k.kind = "handling"
    BY <2>1 DEF Handling, Frames
  <2>5. f.env = EnvAt(stack, At - 1, f.in)
    BY <1>3, <2>1 DEF EnvSaved
  <2>6. jump # NoJump /\ exited = FALSE /\ env' = [env EXCEPT ![f.base] = f.id] /\ cont' = cont
    BY <1>13 DEF Catch, Typed
  <2> HIDE DEF f, k
  <2>7. /\ EnvSaved(stack')
        /\ \A b : EnvAt(stack', (At - 1) + 1, b) = IF Owns(k, b) THEN k.id ELSE EnvAt(stack, At - 1, b)
    BY <1>3, <1>4, <2>1, <2>4, <2>5, SavedGrown
  <2>8. Len(stack') = (At - 1) + 1
    BY <2>1 DEF Grown
  <2>9. ASSUME NEW b \in Base, b # f.base PROVE env[b] = EnvAt(stack, At - 1, b)
    <3>1. env[b] = EnvAt(stack, Len(stack), b)
      BY <1>3, <2>2, <2>3, <2>6, <2>9 DEF Current
    <3>2. ASSUME NEW j \in (At - 1) + 1..Len(stack) PROVE ~Owns(stack[j], b)
      <4>1. j = At \/ j \in At + 1..Len(stack)
        BY <2>1
      <4> QED
        BY <2>2, <2>3, <2>9, <4>1 DEF Owns, f
    <3>3. At - 1 \in 0..Len(stack)
      BY <2>1
    <3>4. EnvAt(stack, Len(stack), b) = EnvAt(stack, At - 1, b)
      BY <2>1, <3>2, <3>3, EnvQuiet
    <3> QED
      BY <3>1, <3>4
  <2>10. ASSUME NEW b \in Base PROVE env'[b] = EnvAt(stack', Len(stack'), b)
    <3>1. CASE b = f.base
      BY <1>4, <2>4, <2>6, <2>7, <2>8, <3>1 DEF Owns
    <3>2. CASE b # f.base
      BY <1>4, <2>4, <2>6, <2>7, <2>8, <2>9, <3>2 DEF Owns
    <3> QED
      BY <3>1, <3>2
  <2> QED
    BY <1>5, <2>6, <2>7, <2>10
<1>14. ASSUME Propagate PROVE Goal
  <2> DEFINE f == stack[At]
  <2>1. At \in 1..Len(stack) /\ f \in Frames /\ Len(stack) \in Nat /\ f.id = jump.id
        /\ Cut(stack, stack', At - 1)
    BY <1>14, PropagateCuts
  <2>2. f.kind = "eval" /\ f.base \in Base /\ f.in \in Base /\ f.base = RunningAt(stack, At - 1)
    BY <1>14, <2>1 DEF Propagate, Stacked, WellStacked, OnTop, Frames
  <2>3. /\ f.in = RunningAt(stack, Len(stack)) /\ \A j \in At + 1..Len(stack) : stack[j].base = f.in
        /\ "children" \in program.uses => jump = HandlerOf(f)
    <3>1. "continuations" \notin program.uses => Target(stack, Len(stack), jump)
      BY <1>14 DEF Tracked, Aimed, Propagate
    <3> QED
      BY <1>2, <1>4, <2>1, <3>1, JumpBase DEF Stacked, TargetAt
  <2>4. f.env = EnvAt(stack, At - 1, f.in)
    BY <1>3, <2>1 DEF EnvSaved
  <2>5. f.base # f.in => "children" \in program.uses
    BY <2>1 DEF Stacked, WellStacked, OnTop
  <2>6. /\ jump # NoJump /\ exited = FALSE /\ cont' = cont
        /\ RaiseIn(f.base, Popped(f.in), TargetEnv(f))
    BY <1>14 DEF Propagate, Typed
  <2>7. RunningAt(stack', Len(stack')) = f.base /\ Len(stack') = At - 1
    <3>1. At - 1 = 0 \/ At - 1 \in 1..At - 1
      BY <2>1
    <3> QED
      BY <2>1, <2>2, <3>1 DEF RunningAt, Cut
  <2> HIDE DEF f
  <2>8. EnvSaved(stack') /\ \A b : EnvAt(stack', At - 1, b) = EnvAt(stack, At - 1, b)
    BY <1>3, <1>4, <2>1, SavedCut
  <2> DEFINE e == TargetEnv(f)
  <2>9. e = [env EXCEPT ![f.in] = jump.env] /\ e \in Envs /\ Popped(f.in) \in Cells
    <3>1. jump.env \in Id \cup {RootEnv}
      BY <2>6 DEF Typed, Saved
    <3>2. Popped(f.in) \in Cells
      <4>1. <<>> \in Seq(Saved) /\ cells \in Cells
        BY EmptySeq DEF Typed
      <4> QED
        BY <2>2, <4>1, CellsTyped DEF Popped
    <3> QED
      BY <1>4, <2>2, <3>1, <3>2 DEF TargetEnv, Envs
  <2> HIDE DEF e
  <2>10. Raised(f.base, Popped(f.in), e)
    BY <2>2, <2>6, <2>9, Raises DEF e
  <2>11. exited' \/ (jump' # NoJump /\ \A b \in Base \ {f.base} : env'[b] = e[b])
    BY <2>9, <2>10 DEF Raised, Envs
  <2>12. ASSUME NEW b \in Base, b # f.base PROVE e[b] = EnvAt(stack, At - 1, b)
    <3>1. CASE b = f.in
      <4>1. jump.env = f.env
        BY <2>3, <2>5, <2>12, <3>1 DEF HandlerOf
      <4>2. e[b] = jump.env
        BY <1>4, <2>9, <3>1
      <4> QED
        BY <2>4, <3>1, <4>1, <4>2
    <3>2. CASE b # f.in
      <4>1. e[b] = env[b] /\ env[b] = EnvAt(stack, Len(stack), b)
        BY <1>3, <1>4, <2>3, <2>6, <2>9, <3>2 DEF Current
      <4>2. ASSUME NEW j \in (At - 1) + 1..Len(stack) PROVE ~Owns(stack[j], b)
        <5>1. j = At \/ j \in At + 1..Len(stack)
          BY <2>1
        <5> QED
          BY <2>2, <2>3, <3>2, <5>1 DEF Owns, f
      <4>3. At - 1 \in 0..Len(stack)
        BY <2>1
      <4>4. EnvAt(stack, Len(stack), b) = EnvAt(stack, At - 1, b)
        BY <2>1, <4>2, <4>3, EnvQuiet
      <4> QED
        BY <4>1, <4>4
    <3> QED
      BY <3>1, <3>2
  <2>13. Current'
    BY <2>7, <2>8, <2>11, <2>12 DEF Current
  <2> QED
    BY <1>3, <2>6, <2>8, <2>13
<1>15. ASSUME Capture PROVE Goal
  <2>1. /\ cont'.stack = stack /\ cont'.base = Running /\ cont'.env = env[Running]
        /\ stack' = stack /\ env' = env /\ exited' = exited /\ jump' = jump /\ Steady
    BY <1>15 DEF Capture
  <2>2. \A b \in Base : env[b] = EnvAt(stack, Len(stack), b)
    BY <1>3, <2>1 DEF Current, Steady
  <2>3. Current'
    BY <2>1, <2>2 DEF Current
  <2> QED
    BY <1>3, <1>4, <2>1, <2>2, <2>3
<1>16. ASSUME Invoke PROVE Goal
  <2>1. "children" \notin program.uses
    BY <1>2, <1>16 DEF Invoke, Tracked
  <2>2. cont.stack \in Stacks /\ cont.base = RunningAt(cont.stack, Len(cont.stack))
        /\ WellStacked(program.uses, cont.stack) /\ WellStacked(program.uses, stack)
    BY DEF Typed, Conts, Stacked
  <2>3. cont.base = Host /\ \A b \in Base \ {Host} :
          EnvAt(cont.stack, Len(cont.stack), b) = RootEnv /\ EnvAt(stack, Len(stack), b) = RootEnv
    BY <1>4, <2>1, <2>2, HostOnly
  <2>4. stack' = cont.stack /\ env' = [env EXCEPT ![cont.base] = cont.env] /\ cont' = cont /\ Steady
    BY <1>16 DEF Invoke, EnvBack
  <2>5. \A b \in Base : env[b] = EnvAt(stack, Len(stack), b)
    BY <1>3, <2>4 DEF Current, Steady
  <2>6. ASSUME NEW b \in Base PROVE env'[b] = EnvAt(stack', Len(stack'), b)
    <3>1. CASE b = Host
      BY <1>3, <1>4, <2>3, <2>4, <3>1
    <3>2. CASE b # Host
      BY <1>4, <2>3, <2>4, <2>5, <3>2
    <3> QED
      BY <3>1, <3>2
  <2>7. EnvSaved(stack')
    BY <1>3, <2>4
  <2> QED
    BY <1>5, <2>4, <2>6, <2>7
<1>17. ASSUME UNCHANGED vars PROVE Goal
  <2>1. stack' = stack /\ env' = env /\ exited' = exited /\ jump' = jump /\ cont' = cont
    BY <1>17 DEF vars
  <2>2. Current'
    BY <1>3, <2>1 DEF Current
  <2> QED
    BY <1>3, <2>1, <2>2
<1> QED
  BY <1>6, <1>7, <1>8, <1>9, <1>10, <1>11, <1>12, <1>13, <1>14, <1>15, <1>16, <1>17 DEF Next, Step

(* Between raises each base evaluates in the environment of the newest of    *)
(* its own bodies or handler bodies, however errors crossed the bases and    *)
(* whatever continuation was invoked; with a continuation in one base only.  *)
EnvironsInv == HandlersInv /\ Environs

LEMMA CurrentMatches ==
    ASSUME EnvironsInv
    PROVE  EnvMatchesStack
<1> SUFFICES ASSUME Steady, OneBase, NEW b \in Base
             PROVE  env[b] = IF Owner(b) = 0 THEN RootEnv ELSE stack[Owner(b)].id
  BY DEF EnvMatchesStack
<1> DEFINE I == {i \in 1..Len(stack) : stack[i].base = b /\ stack[i].kind \in {"body", "handling"}}
<1>1. Owner(b) = IF I # {} THEN Max(I) ELSE 0
  BY DEF Owner, SelectLastInSeq
<1>2. I = Owners(stack, Len(stack), b)
  BY DEF Owners, Owns
<1>3. env[b] = EnvAt(stack, Len(stack), b)
  BY DEF EnvironsInv, Environs, Current, Steady
<1>4. Len(stack) \in Nat
  BY LenProperties DEF EnvironsInv, HandlersInv, Typed, Stacks
<1>5. I \subseteq 0..Len(stack) /\ I \subseteq Nat /\ I \subseteq 1..Len(stack)
  BY <1>4
<1> HIDE DEF I
<1>6. CASE I = {}
  BY <1>1, <1>2, <1>3, <1>6 DEF EnvAt
<1>7. CASE I # {}
  <2>1. PICK a \in I : \A i \in I : i <= a
    BY <1>4, <1>5, <1>7, Greatest
  <2>2. Max(I) \in 1..Len(stack)
    BY <1>5, <2>1, MaxIs
  <2>3. Max(I) # 0
    BY <1>4, <2>2
  <2> QED
    BY <1>1, <1>2, <1>3, <1>7, <2>3 DEF EnvAt
<1> QED
  BY <1>6, <1>7

LEMMA EnvironsStep ==
    ASSUME EnvironsInv, [Next]_vars
    PROVE  EnvironsInv'
<1>1. HandlersInv'
  BY HandlersStep DEF EnvironsInv
<1>2. Environs'
  BY <1>1, StepEnvirons DEF EnvironsInv, HandlersInv
<1> QED
  BY <1>1, <1>2 DEF EnvironsInv

(* Each base evaluates in its own newest body's environment.                 *)
THEOREM EnvironmentsMatch == Spec => []EnvMatchesStack
<1>1. Init => EnvironsInv
  BY HandlersInit, InitEnvirons DEF EnvironsInv
<1>2. EnvironsInv /\ [Next]_vars => EnvironsInv'
  BY EnvironsStep
<1>3. EnvironsInv => EnvMatchesStack
  BY CurrentMatches
<1> QED
  BY <1>1, <1>2, <1>3, PTL DEF Spec

-----------------------------------------------------------------------------
(* The host's root chain as it was when each frame was pushed.               *)
Rooted(f) == f.kind = "body" /\ f.base = Host
RootsAfter(r, f) == IF Rooted(f) THEN <<f.id>> \o r ELSE r
LiveRoots(stk, n, r) == r \in Seq(Id) /\ \A i \in 1..Len(r) : \E j \in 1..n : r[i] = stk[j].id
RootsRecord(stk, rs) ==
    /\ rs[0] = <<>>
    /\ \A i \in 1..Len(stk) : rs[i] = RootsAfter(rs[i - 1], stk[i])
    /\ \A i \in 1..Len(stk) :
         stk[i].kind \in {"guard", "handling"} /\ stk[i].base = Host => stk[i].roots = rs[i - 1]
    /\ \A i \in 0..Len(stk) : LiveRoots(stk, i, rs[i])

LEMMA RootsFirst == RootsRecord(<<>>, [i \in 0..0 |-> <<>>])
<1>1. Len(<<>>) = 0 /\ <<>> \in Seq(Id) /\ [i \in 0..0 |-> <<>>][0] = <<>>
  BY EmptySeq
<1>2. LiveRoots(<<>>, 0, <<>>)
  BY <1>1 DEF LiveRoots
<1> QED
  BY <1>1, <1>2 DEF RootsRecord

LEMMA RootsBelow ==
    ASSUME NEW s, NEW t, NEW n \in Nat, \A i \in 1..n : t[i] = s[i], NEW r, LiveRoots(s, n, r)
    PROVE  LiveRoots(t, n, r)
BY DEF LiveRoots

LEMMA RootsCut ==
    ASSUME NEW s \in Stacks, NEW t, NEW n, Cut(s, t, n), NEW rs, RootsRecord(s, rs)
    PROVE  RootsRecord(t, rs)
<1>1. /\ n \in Nat /\ n <= Len(s) /\ Len(t) = n /\ Len(s) \in Nat
      /\ \A i \in 1..n : t[i] = s[i] /\ i \in 1..Len(s)
      /\ \A i \in 0..n : i \in 0..Len(s) /\ i \in Nat /\ \A j \in 1..i : t[j] = s[j]
  <2>1. Len(s) \in Nat
    BY LenProperties DEF Stacks
  <2> QED
    BY <2>1 DEF Cut
<1>2. \A i \in 0..n : LiveRoots(t, i, rs[i])
  BY <1>1, RootsBelow DEF RootsRecord
<1>3. \A i \in 1..n : rs[i] = RootsAfter(rs[i - 1], t[i])
  BY <1>1 DEF RootsRecord
<1>4. \A i \in 1..n :
        t[i].kind \in {"guard", "handling"} /\ t[i].base = Host => t[i].roots = rs[i - 1]
  BY <1>1 DEF RootsRecord
<1> QED
  BY <1>1, <1>2, <1>3, <1>4 DEF RootsRecord

LEMMA RootsGrown ==
    ASSUME NEW s \in Stacks, NEW t, NEW n, NEW f, Grown(s, t, n, f), NEW rs, RootsRecord(s, rs),
           f.kind \in {"guard", "handling"} /\ f.base = Host => f.roots = rs[n]
    PROVE  \E qs : RootsRecord(t, qs) /\ qs[n + 1] = RootsAfter(rs[n], f)
<1>1. /\ n \in Nat /\ n <= Len(s) /\ Len(t) = n + 1 /\ t[n + 1] = f /\ Len(s) \in Nat /\ f \in Frames
      /\ \A i \in 1..n : t[i] = s[i] /\ i \in 1..Len(s)
      /\ \A i \in 0..n : i \in 0..Len(s) /\ i \in Nat /\ \A j \in 1..i : t[j] = s[j]
      /\ \A i \in 1..n + 1 : (i = n + 1 \/ i \in 1..n) /\ i - 1 \in 0..n
      /\ \A i \in 0..n + 1 : (i = n + 1 \/ i \in 0..n)
  <2>1. Len(s) \in Nat
    BY LenProperties DEF Stacks
  <2> QED
    BY <2>1 DEF Grown
<1> DEFINE qs == [i \in 0..n + 1 |-> IF i = n + 1 THEN RootsAfter(rs[n], f) ELSE rs[i]]
<1>2. qs[n + 1] = RootsAfter(rs[n], f) /\ \A i \in 0..n : qs[i] = rs[i]
  BY <1>1
<1> HIDE DEF qs
<1>3. \A i \in 0..n : LiveRoots(t, i, qs[i])
  BY <1>1, <1>2, RootsBelow DEF RootsRecord
<1>4. LiveRoots(t, n + 1, qs[n + 1])
  <2>1. n \in 0..n /\ LiveRoots(t, n, rs[n])
    BY <1>1, <1>2, <1>3
  <2> DEFINE r == rs[n]
  <2>2. r \in Seq(Id) /\ (\A i \in 1..Len(r) : \E j \in 1..n : r[i] = t[j].id)
        /\ \A j \in 1..n : j \in 1..n + 1
    BY <1>1, <2>1 DEF LiveRoots
  <2> HIDE DEF r
  <2>3. LiveRoots(t, n + 1, r)
    BY <2>2 DEF LiveRoots
  <2>4. LiveRoots(t, n + 1, <<f.id>> \o r)
    <3>1. f.id \in Id
      BY <1>1 DEF Frames
    <3> DEFINE q == <<f.id>> \o r
    <3>2. /\ q \in Seq(Id) /\ Len(q) = Len(r) + 1 /\ Len(r) \in Nat /\ q[1] = f.id
          /\ \A i \in 2..Len(r) + 1 : q[i] = r[i - 1]
      BY <2>2, <3>1, Consed
    <3> HIDE DEF q
    <3>3. ASSUME NEW i \in 1..Len(q) PROVE \E j \in 1..n + 1 : q[i] = t[j].id
      <4>1. CASE i = 1
        <5>1. n + 1 \in 1..n + 1
          BY <1>1
        <5> QED
          BY <1>1, <3>2, <4>1, <5>1
      <4>2. CASE i # 1
        <5>1. i \in 2..Len(r) + 1 /\ i - 1 \in 1..Len(r)
          BY <3>2, <4>2
        <5> QED
          BY <2>2, <3>2, <5>1
      <4> QED
        BY <4>1, <4>2
    <3> QED
      BY <3>2, <3>3 DEF LiveRoots, q
  <2> QED
    BY <1>2, <2>3, <2>4 DEF RootsAfter, r
<1>5. ASSUME NEW i \in 1..n + 1
      PROVE  /\ qs[i] = RootsAfter(qs[i - 1], t[i])
             /\ t[i].kind \in {"guard", "handling"} /\ t[i].base = Host => t[i].roots = qs[i - 1]
  <2>1. qs[i - 1] = rs[i - 1]
    BY <1>1, <1>2
  <2>2. CASE i = n + 1
    <3>1. i - 1 = n
      BY <1>1, <2>2
    <3> QED
      BY <1>1, <1>2, <2>1, <2>2, <3>1
  <2>3. CASE i \in 1..n
    <3>1. qs[i] = rs[i] /\ t[i] = s[i] /\ i \in 1..Len(s)
      BY <1>1, <1>2, <2>3
    <3> QED
      BY <2>1, <3>1 DEF RootsRecord
  <2> QED
    BY <1>1, <2>2, <2>3
<1>6. qs[0] = <<>>
  <2>1. 0 \in 0..n
    BY <1>1
  <2> QED
    BY <1>2, <2>1 DEF RootsRecord
<1>7. \A i \in 0..n + 1 : LiveRoots(t, i, qs[i])
  BY <1>1, <1>3, <1>4
<1>8. RootsRecord(t, qs)
  BY <1>1, <1>5, <1>6, <1>7 DEF RootsRecord
<1> QED
  BY <1>2, <1>8

(* The host's chain holds its bodies on the stack.  While an error is raised *)
(* in the host it may hold more, until a guard takes it back.                *)
Rooting(rs) ==
    /\ RootsRecord(stack, rs)
    /\ ~exited /\ (jump = NoJump \/ RunningAt(stack, Len(stack)) # Host) => chain[Host] = rs[Len(stack)]
ContRooting(rs) ==
    RootsRecord(cont.stack, rs) /\ (cont.base = Host => cont.chain = rs[Len(cont.stack)])
Roots ==
    OneBase /\ "reentry" \notin program.uses =>
    (\E rs : Rooting(rs)) /\ (\E rs : ContRooting(rs))

LEMMA InitRoots ==
    ASSUME Init
    PROVE  Roots
<1> DEFINE rs == [i \in 0..0 |-> <<>>]
<1>1. RootsRecord(<<>>, rs)
  BY RootsFirst
<1>2. Len(<<>>) = 0 /\ rs[0] = <<>>
  OBVIOUS
<1>3. stack = <<>> /\ cont.stack = <<>> /\ cont.chain = <<>> /\ chain[Host] = <<>>
  BY DEF Init, NoCont, Base
<1> HIDE DEF rs
<1> QED
  BY <1>1, <1>2, <1>3 DEF Roots, Rooting, ContRooting

LEMMA PushRooted ==
    ASSUME Typed, NEW f, Pushes(f), NEW rs, Rooting(rs),
           f.kind = "guard" /\ f.base = Host => f.roots = chain[Host],
           f.kind # "handling", chain'[Host] = RootsAfter(chain[Host], f)
    PROVE  \E qs : Rooting(qs)'
<1>1. Grown(stack, stack', Len(stack), f) /\ stack \in Stacks
  BY PushGrows DEF Typed
<1>2. chain[Host] = rs[Len(stack)] /\ RootsRecord(stack, rs)
  BY DEF Rooting, Pushes, CanPush, Steady
<1>3. PICK qs : RootsRecord(stack', qs) /\ qs[Len(stack) + 1] = RootsAfter(rs[Len(stack)], f)
  BY <1>1, <1>2, RootsGrown
<1>4. Len(stack') = Len(stack) + 1
  BY <1>1 DEF Grown
<1>5. Rooting(qs)'
  BY <1>2, <1>3, <1>4 DEF Rooting
<1> QED
  BY <1>5

LEMMA PopRooted ==
    ASSUME Typed, stack # <<>>, stack' = Front(stack), Steady, NEW rs, Rooting(rs),
           Rooted(Top) => chain'[Host] = (IF chain[Host] = <<>> THEN chain[Host] ELSE Tail(chain[Host])),
           ~Rooted(Top) => chain'[Host] = chain[Host]
    PROVE  Rooting(rs)'
<1>1. /\ Cut(stack, stack', Len(stack) - 1) /\ stack \in Stacks
      /\ Top = stack[Len(stack)] /\ Len(stack) \in Nat \ {0} /\ Top \in Frames
  BY PopCuts DEF Typed
<1>2. RootsRecord(stack', rs) /\ Len(stack') = Len(stack) - 1
  <2>1. RootsRecord(stack, rs)
    BY DEF Rooting
  <2>2. RootsRecord(stack', rs)
    BY <1>1, <2>1, RootsCut
  <2> QED
    BY <1>1, <2>2 DEF Cut
<1>3. Len(stack) \in 1..Len(stack) /\ Len(stack) - 1 \in 0..Len(stack)
  BY <1>1
<1>4. chain[Host] = RootsAfter(rs[Len(stack) - 1], Top) /\ rs[Len(stack) - 1] \in Seq(Id)
  BY <1>1, <1>3 DEF Rooting, Steady, RootsRecord, LiveRoots
<1> DEFINE r == rs[Len(stack) - 1]
<1> HIDE DEF r
<1>5. chain'[Host] = r
  <2>1. CASE Rooted(Top)
    <3>1. Top.id \in Id /\ r \in Seq(Id)
      BY <1>1, <1>4 DEF Frames, r
    <3>2. Tail(<<Top.id>> \o r) = r /\ <<Top.id>> \o r # <<>>
      BY <3>1, Consed
    <3> QED
      BY <1>4, <2>1, <3>2 DEF RootsAfter, r
  <2>2. CASE ~Rooted(Top)
    BY <1>4, <2>2 DEF RootsAfter, r
  <2> QED
    BY <2>1, <2>2
<1> QED
  BY <1>2, <1>5 DEF Rooting, r

(* No frame on the one a jump is to roots anything of the host's when it is  *)
(* to a frame of another base.                                               *)
LEMMA RootsAtTarget ==
    ASSUME NEW s \in Stacks, NEW i \in 1..Len(s), NEW rs, RootsRecord(s, rs),
           \A j \in i..Len(s) : ~Rooted(s[j])
    PROVE  rs[Len(s)] = rs[i - 1]
<1>1. Len(s) \in Nat /\ i - 1 \in 0..Len(s)
  BY LenProperties DEF Stacks
<1>2. ASSUME NEW j \in (i - 1) + 1..Len(s) PROVE rs[j] = rs[j - 1]
  <2>1. j \in i..Len(s) /\ j \in 1..Len(s)
    BY <1>1
  <2> QED
    BY <2>1 DEF RootsRecord, RootsAfter
<1> QED
  BY <1>1, <1>2, Still

LEMMA StepRoots ==
    ASSUME Typed, Stacked, Tracked, Roots, Typed', Stacked', [Next]_vars
    PROVE  Roots'
<1> DEFINE Goal == (\E qs : Rooting(qs)') /\ (\E qs : ContRooting(qs)')
<1> SUFFICES ASSUME OneBase', "reentry" \notin program'.uses
             PROVE  Goal
  BY DEF Roots
<1>1. program' = program
  BY DEF Next, vars
<1>2. /\ "continuations" \notin program.uses \/ "children" \notin program.uses
      /\ "reentry" \notin program.uses
  BY <1>1 DEF OneBase
<1>3. PICK rs : Rooting(rs)
  BY <1>2 DEF Roots, OneBase
<1>4. PICK cr : ContRooting(cr)
  BY <1>2 DEF Roots, OneBase
<1>5. /\ Running \in Base /\ Running = RunningAt(stack, Len(stack)) /\ stack \in Stacks
      /\ chain \in [Base -> Seq(Id)] /\ Host \in Base
  BY RunningTyped, PushedOnTop DEF Typed, Base
<1>6. ASSUME cont' = cont, \E qs : Rooting(qs)' PROVE Goal
  <2>1. ContRooting(cr)'
    BY <1>4, <1>6 DEF ContRooting
  <2> QED
    BY <1>6, <2>1
<1>7. ASSUME Call PROVE Goal
  <2>1. Pushes(CallFrame)
    BY <1>7, FramesPushed
  <2>2. CallFrame.kind = "body" /\ CallFrame.id = NewId /\ CallFrame.base = Running
    BY DEF CallFrame
  <2>3. chain'[Host] = RootsAfter(chain[Host], CallFrame)
    BY <1>5, <1>7, <2>2 DEF Call, RootsAfter, Rooted
  <2>4. \E qs : Rooting(qs)'
    BY <1>3, <2>1, <2>2, <2>3, PushRooted
  <2> QED
    BY <1>6, <1>7, <2>4 DEF Call
<1>8. ASSUME Guard PROVE Goal
  <2>1. Pushes(GuardFrame)
    BY <1>8, FramesPushed
  <2>2. GuardFrame.kind = "guard" /\ GuardFrame.base = Running /\ GuardFrame.roots = chain[Running]
    BY DEF GuardFrame
  <2>3. chain'[Host] = RootsAfter(chain[Host], GuardFrame)
    BY <1>8, <2>2 DEF Guard, RootsAfter, Rooted
  <2>4. \E qs : Rooting(qs)'
    BY <1>3, <2>1, <2>2, <2>3, PushRooted
  <2> QED
    BY <1>6, <1>8, <2>4 DEF Guard
<1>9. ASSUME NEW t \in Base, BaseEval(t) PROVE Goal
  <2>1. Pushes(EvalFrame(t))
    BY <1>9, FramesPushed
  <2>2. EvalFrame(t).kind = "eval"
    BY DEF EvalFrame
  <2>3. chain'[Host] = RootsAfter(chain[Host], EvalFrame(t))
    BY <1>9, <2>2 DEF BaseEval, RootsAfter, Rooted
  <2>4. \E qs : Rooting(qs)'
    BY <1>3, <2>1, <2>2, <2>3, PushRooted
  <2> QED
    BY <1>6, <1>9, <2>4 DEF BaseEval
<1>10. ASSUME Return PROVE Goal
  <2>1. chain' = [chain EXCEPT ![Top.base] = IF @ = <<>> THEN @ ELSE Tail(@)] /\ Top.kind = "body"
    BY <1>10 DEF Return
  <2>2. /\ Rooted(Top) => chain'[Host] = (IF chain[Host] = <<>> THEN chain[Host] ELSE Tail(chain[Host]))
        /\ ~Rooted(Top) => chain'[Host] = chain[Host]
    BY <1>5, <2>1 DEF Rooted
  <2>3. Rooting(rs)'
    BY <1>3, <1>10, <2>2, PopRooted DEF Return
  <2> QED
    BY <1>6, <1>10, <2>3 DEF Return
<1>11. ASSUME EndGuard PROVE Goal
  <2>1. ~Rooted(Top) /\ chain'[Host] = chain[Host]
    BY <1>11 DEF EndGuard, Rooted
  <2>2. Rooting(rs)'
    BY <1>3, <1>11, <2>1, PopRooted DEF EndGuard
  <2> QED
    BY <1>6, <1>11, <2>2 DEF EndGuard
<1>12. ASSUME EndEval PROVE Goal
  <2>1. ~Rooted(Top) /\ chain'[Host] = chain[Host]
    BY <1>12 DEF EndEval, Rooted
  <2>2. Rooting(rs)'
    BY <1>3, <1>12, <2>1, PopRooted DEF EndEval
  <2> QED
    BY <1>6, <1>12, <2>2 DEF EndEval
<1>13. ASSUME Error PROVE Goal
  <2>1. stack' = stack /\ cont' = cont /\ chain' = chain /\ Steady
    BY <1>13 DEF Error
  <2>2. Rooting(rs)'
    BY <1>3, <2>1 DEF Rooting, Steady
  <2> QED
    BY <1>6, <2>1, <2>2
<1>14. ASSUME Catch PROVE Goal
  <2> DEFINE f == stack[At]
             k == Handling(f)
  <2>1. At \in 1..Len(stack) /\ f \in Frames /\ Len(stack) \in Nat /\ f.id = jump.id
        /\ Grown(stack, stack', At - 1, k)
    BY <1>14, CatchGrows
  <2>2. f.kind = "guard" /\ f.in = f.base /\ f.base \in Base
    BY <1>14, <2>1 DEF Catch, Stacked, WellStacked, OnTop, Frames
  <2>3. f.in = RunningAt(stack, Len(stack)) /\ \A j \in At + 1..Len(stack) : stack[j].base = f.in
    <3>1. "continuations" \notin program.uses => Target(stack, Len(stack), jump)
      BY <1>14 DEF Tracked, Aimed, Catch
    <3> QED
      BY <1>2, <1>5, <2>1, <3>1, JumpBase DEF Stacked
  <2>4. k.base = f.base /\ k.kind = "handling" /\ k.roots = f.roots
    BY <2>1 DEF Handling, Frames
  <2>5. f.base = Host => f.roots = rs[At - 1]
    BY <1>3, <2>1, <2>2 DEF Rooting, RootsRecord
  <2>6. jump # NoJump /\ exited = FALSE /\ chain' = [chain EXCEPT ![f.base] = f.roots] /\ cont' = cont
    BY <1>14 DEF Catch, Typed, RootsBack
  <2> HIDE DEF f, k
  <2>7. PICK qs : RootsRecord(stack', qs) /\ qs[(At - 1) + 1] = RootsAfter(rs[At - 1], k)
    BY <1>3, <1>5, <2>1, <2>4, <2>5, RootsGrown DEF Rooting
  <2>8. Len(stack') = (At - 1) + 1 /\ RootsAfter(rs[At - 1], k) = rs[At - 1]
    BY <2>1, <2>4 DEF Grown, RootsAfter, Rooted
  <2>9. chain'[Host] = rs[At - 1]
    <3>1. CASE f.base = Host
      BY <1>5, <2>5, <2>6, <3>1
    <3>2. CASE f.base # Host
      <4>1. chain'[Host] = chain[Host] /\ chain[Host] = rs[Len(stack)]
        BY <1>3, <1>5, <2>2, <2>3, <2>6, <3>2 DEF Rooting
      <4>2. ASSUME NEW j \in At..Len(stack) PROVE ~Rooted(stack[j])
        <5>1. j = At \/ j \in At + 1..Len(stack)
          BY <2>1
        <5> QED
          BY <2>2, <2>3, <3>2, <5>1 DEF Rooted, f
      <4>3. rs[Len(stack)] = rs[At - 1]
        BY <1>3, <1>5, <2>1, <4>2, RootsAtTarget DEF Rooting
      <4> QED
        BY <4>1, <4>3
    <3> QED
      BY <3>1, <3>2
  <2>10. Rooting(qs)'
    BY <2>7, <2>8, <2>9 DEF Rooting
  <2> QED
    BY <1>6, <2>6, <2>10
<1>15. ASSUME Propagate PROVE Goal
  <2> DEFINE f == stack[At]
  <2>1. At \in 1..Len(stack) /\ f \in Frames /\ Len(stack) \in Nat /\ f.id = jump.id
        /\ Cut(stack, stack', At - 1)
    BY <1>15, PropagateCuts
  <2>2. /\ f.kind = "eval" /\ f.base \in Base /\ f.in \in Base /\ f.base = RunningAt(stack, At - 1)
        /\ f.base # Host => f.in = f.base
    BY <1>2, <1>15, <2>1 DEF Propagate, Stacked, WellStacked, OnTop, Frames
  <2>3. f.in = RunningAt(stack, Len(stack)) /\ \A j \in At + 1..Len(stack) : stack[j].base = f.in
    <3>1. "continuations" \notin program.uses => Target(stack, Len(stack), jump)
      BY <1>15 DEF Tracked, Aimed, Propagate
    <3> QED
      BY <1>2, <1>5, <2>1, <3>1, JumpBase DEF Stacked
  <2>4. /\ jump # NoJump /\ exited = FALSE /\ cont' = cont /\ chain' = chain
        /\ RaiseIn(f.base, Popped(f.in), TargetEnv(f))
    BY <1>15 DEF Propagate, Typed
  <2>5. RunningAt(stack', Len(stack')) = f.base /\ Len(stack') = At - 1
    <3>1. At - 1 = 0 \/ At - 1 \in 1..At - 1
      BY <2>1
    <3> QED
      BY <2>1, <2>2, <3>1 DEF RunningAt, Cut
  <2> HIDE DEF f
  <2>6. RootsRecord(stack', rs)
    BY <1>3, <1>5, <2>1, RootsCut DEF Rooting
  <2>7. exited' \/ jump' # NoJump
    <3>1. Popped(f.in) \in Cells
      <4>1. <<>> \in Seq(Saved) /\ cells \in Cells
        BY EmptySeq DEF Typed
      <4> QED
        BY <2>2, <4>1, CellsTyped DEF Popped
    <3>2. TargetEnv(f) \in Envs
      <4>1. jump.env \in Id \cup {RootEnv} /\ env \in Envs
        BY <2>4 DEF Typed, Saved, Envs
      <4> QED
        BY <2>2, <4>1 DEF TargetEnv, Envs
    <3>3. Raised(f.base, Popped(f.in), TargetEnv(f))
      BY <2>2, <2>4, <3>1, <3>2, Raises
    <3> QED
      BY <3>3 DEF Raised
  <2>8. ASSUME f.base # Host PROVE chain[Host] = rs[At - 1]
    <3>1. chain[Host] = rs[Len(stack)]
      BY <1>3, <2>2, <2>3, <2>4, <2>8 DEF Rooting
    <3>2. ASSUME NEW j \in At..Len(stack) PROVE ~Rooted(stack[j])
      <4>1. j = At \/ j \in At + 1..Len(stack)
        BY <2>1
      <4> QED
        BY <2>2, <2>3, <2>8, <4>1 DEF Rooted, f
    <3>3. rs[Len(stack)] = rs[At - 1]
      BY <1>3, <1>5, <2>1, <3>2, RootsAtTarget DEF Rooting
    <3> QED
      BY <3>1, <3>3
  <2>9. Rooting(rs)'
    BY <2>4, <2>5, <2>6, <2>7, <2>8 DEF Rooting
  <2> QED
    BY <1>6, <2>4, <2>9
<1>16. ASSUME Capture PROVE Goal
  <2>1. /\ cont'.stack = stack /\ cont'.base = Running /\ cont'.chain = chain[Running]
        /\ stack' = stack /\ chain' = chain /\ exited' = exited /\ jump' = jump /\ Steady
    BY <1>16 DEF Capture
  <2>2. Rooting(rs)'
    BY <1>3, <2>1 DEF Rooting
  <2>3. ContRooting(rs)'
    BY <1>3, <2>1 DEF Rooting, ContRooting, Steady
  <2> QED
    BY <2>2, <2>3
<1>17. ASSUME Invoke PROVE Goal
  <2>1. "children" \notin program.uses
    BY <1>2, <1>17 DEF Invoke, Tracked
  <2>2. cont.stack \in Stacks /\ cont.base = RunningAt(cont.stack, Len(cont.stack))
        /\ WellStacked(program.uses, cont.stack)
    BY DEF Typed, Conts, Stacked
  <2>3. cont.base = Host
    BY <2>1, <2>2, HostOnly
  <2>4. stack' = cont.stack /\ chain' = [chain EXCEPT ![cont.base] = cont.chain] /\ cont' = cont
    BY <1>17 DEF Invoke, ChainBack
  <2>5. chain'[Host] = cr[Len(cont.stack)] /\ RootsRecord(cont.stack, cr)
    BY <1>4, <1>5, <2>3, <2>4 DEF ContRooting
  <2>6. Rooting(cr)'
    BY <2>4, <2>5 DEF Rooting
  <2> QED
    BY <1>6, <2>4, <2>6
<1>18. ASSUME UNCHANGED vars PROVE Goal
  <2>1. stack' = stack /\ chain' = chain /\ exited' = exited /\ jump' = jump /\ cont' = cont
    BY <1>18 DEF vars
  <2>2. Rooting(rs)'
    BY <1>3, <2>1 DEF Rooting
  <2> QED
    BY <1>6, <2>1, <2>2
<1> QED
  BY <1>7, <1>8, <1>9, <1>10, <1>11, <1>12, <1>13, <1>14, <1>15, <1>16, <1>17, <1>18 DEF Next, Step

RootsInv == HandlersInv /\ Roots

LEMMA RootsStep ==
    ASSUME RootsInv, [Next]_vars
    PROVE  RootsInv'
<1>1. HandlersInv'
  BY HandlersStep DEF RootsInv
<1>2. Roots'
  BY <1>1, StepRoots DEF RootsInv, HandlersInv
<1> QED
  BY <1>1, <1>2 DEF RootsInv

LEMMA RootsAreLive ==
    ASSUME RootsInv
    PROVE  MarkWalksLiveFrames
<1> SUFFICES ASSUME OneBase, "reentry" \notin program.uses, Steady, Running = Host
             PROVE  ToSet(chain[Running]) \subseteq Live
  BY DEF MarkWalksLiveFrames, NoDeadNodes, Collects
<1>1. PICK rs : Rooting(rs)
  BY DEF RootsInv, Roots
<1>2. Len(stack) \in Nat /\ DOMAIN stack = 1..Len(stack)
  BY LenProperties DEF RootsInv, HandlersInv, Typed, Stacks
<1>3. Len(stack) \in 0..Len(stack)
  BY <1>2
<1>4. LiveRoots(stack, Len(stack), chain[Host])
  BY <1>1, <1>3 DEF Rooting, Steady, RootsRecord
<1>5. DOMAIN chain[Host] = 1..Len(chain[Host])
  BY <1>4, LenProperties DEF LiveRoots
<1>6. ASSUME NEW i \in 1..Len(chain[Host]) PROVE chain[Host][i] \in Live
  <2>1. PICK j \in 1..Len(stack) : chain[Host][i] = stack[j].id
    BY <1>4 DEF LiveRoots
  <2>2. j \in DOMAIN stack
    BY <1>2
  <2> QED
    BY <2>1, <2>2 DEF Live
<1>7. ToSet(chain[Host]) = {chain[Host][i] : i \in 1..Len(chain[Host])}
  BY <1>5 DEF ToSet
<1> QED
  BY <1>6, <1>7

(* Where the host may collect, the nodes its mark phase walks are those of   *)
(* frames still on the stack, in programs whose children do not evaluate in  *)
(* the host.                                                                 *)
THEOREM WalkedNodesAreLive == Spec => []MarkWalksLiveFrames
<1>1. Init => RootsInv
  BY HandlersInit, InitRoots DEF RootsInv
<1>2. RootsInv /\ [Next]_vars => RootsInv'
  BY RootsStep
<1>3. RootsInv => MarkWalksLiveFrames
  BY RootsAreLive
<1> QED
  BY <1>1, <1>2, <1>3, PTL DEF Spec
=============================================================================
