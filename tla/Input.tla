-------------------------------- MODULE Input --------------------------------
(* Where the engine reads from: the stacks of input descriptors, read        *)
(* buffers and line counters that include pushes and pops, the latch that    *)
(* keeps an end of input an end, and what guard, a failed read, a signal and *)
(* a re-entered continuation do to them.                                     *)
(*                                                                           *)
(* One frame stands for one C frame of x_prim_include or x_prim_guard.       *)
(* Frames of the evaluator in between hold no input state and are left out.  *)
(* Stacks are sequences with the head of the C list last.                    *)
EXTENDS Naturals, Sequences, Functions

CONSTANTS
    Cell,        \* one activation of include, or the driver: its heap cells
    Driver,      \* the cell init makes for the driver's read loop
    Fd,          \* descriptors
    Stdin,       \* the descriptor of the driver
    NoCont,      \* no continuation is held by the program
    Programs     \* programs, each whether it uses call/cc and how many frames
                 \* of include and guard it stacks up (bound)

ASSUME InputAssumption ==
    /\ Driver \in Cell /\ Stdin \in Fd
    /\ Programs \subseteq [conts : BOOLEAN, frames : Nat]

VARIABLES
    program,     \* the program being run
    filein,      \* x_base_field_filein
    buffer,      \* x_base_field_buffer
    line,        \* x_eval_field_line
    fdOf,        \* the descriptor a filein cell holds, latched or not
    latched,     \* cells holding the descriptor's complement: input ended
    open,        \* descriptors the process has open
    ended,       \* descriptors whose input brought no byte since they opened
    stack,       \* the frames of include and guard
    sigint,      \* the flag the SIGINT handler sets
    cont,        \* the continuation the program holds, if any
    exited       \* the process is over

heads == <<filein, buffer, line>>
vars  == <<program, heads, fdOf, latched, open, ended, stack, sigint, cont, exited>>

(* How a read may come out, besides with a byte: at the end of the file, with *)
(* an error, an interruption by a signal the program has caught among them,  *)
(* or interrupted by SIGINT.                                                 *)
Outcome == {"end", "fail", "sigint"}

(* What a frame found on entry.  A guard keeps it in C locals and puts it    *)
(* back; for an include it only says what its pops should lead back to.      *)
Heads == [filein : Seq(Cell), buffer : Seq(Cell), line : Seq(Cell)]
Frame == [what : {"include", "guard", "handling"}, cell : Cell, fd : Fd, entry : Heads]

Now == [filein |-> filein, buffer |-> buffer, line |-> line]

-----------------------------------------------------------------------------
Top(s)   == s[Len(s)]
Popped(s) == SubSeq(s, 1, Len(s) - 1)

Reading == ~exited /\ filein # <<>>

Guards == {i \in 1..Len(stack) : stack[i].what = "guard"}

(* Memory no list, frame or continuation refers to any more.                 *)
CellsOf(fs) == UNION {{fs[i].cell} \cup Range(fs[i].entry.filein) : i \in 1..Len(fs)}
FreeCell ==
    Cell \ (Range(filein) \cup CellsOf(stack) \cup
            (IF cont = NoCont THEN {} ELSE CellsOf(cont)))

-----------------------------------------------------------------------------
(* Errors.                                                                   *)

(* The cells above a guard's snapshot.                                       *)
OnChain(saved) ==
    /\ Len(saved.filein) <= Len(filein)
    /\ SubSeq(filein, 1, Len(saved.filein)) = saved.filein
Cut(saved) == {filein[i] : i \in Len(saved.filein)+1 .. Len(filein)}

(* The descriptors the unwinding closes; a latched cell's is recovered from  *)
(* its complement.                                                           *)
ClosedUnlatched(cells, ends) == {fdOf[c] : c \in cells \ ends}   \* fault
Closed(cells, ends)          == {fdOf[c] : c \in cells}

UnwoundKept(saved) ==                                   \* fault: filein only
    filein' = saved.filein /\ UNCHANGED <<buffer, line>>
UnwoundNot(saved) == UNCHANGED heads                    \* fault: left as they are
Unwound(saved) ==
    /\ filein' = saved.filein
    /\ buffer' = saved.buffer
    /\ line' = saved.line

Innermost(g) == g \in Guards /\ \A j \in Guards : j <= g

(* x_eval_error with the latches in ends: to the innermost guard, which     *)
(* closes what was opened since, puts the three heads back and runs its      *)
(* handler body.  Without a guard the process exits; when the snapshot is no *)
(* longer on the chain the closing loop runs off its end and crashes.        *)
Raise(ends) ==
    \/ /\ \A g \in Guards : Innermost(g) => ~OnChain(stack[g].entry)
       /\ exited' = TRUE
       /\ UNCHANGED <<heads, fdOf, open, stack, cont>>
    \/ \E g \in Guards :
          /\ Innermost(g) /\ OnChain(stack[g].entry)
          /\ open' = open \ Closed(Cut(stack[g].entry), ends)
          /\ Unwound(stack[g].entry)
          /\ stack' = Append(SubSeq(stack, 1, g - 1), [stack[g] EXCEPT !.what = "handling"])
          /\ UNCHANGED <<fdOf, cont, exited>>

(* Any error of the program, a file that cannot be opened among them.        *)
Fail ==
    /\ Reading
    /\ Raise(latched)
    /\ UNCHANGED <<latched, ended, sigint>>

-----------------------------------------------------------------------------
(* include.                                                                  *)

Include ==
    /\ Reading /\ Len(stack) < program.frames
    /\ \E fd \in Fd \ open, c \in FreeCell :
         /\ open' = open \cup {fd}
         /\ fdOf' = [fdOf EXCEPT ![c] = fd]
         /\ latched' = latched \ {c}
         /\ ended' = ended \ {fd}
         /\ filein' = Append(filein, c)
         /\ buffer' = Append(buffer, c)
         /\ line' = Append(line, c)
         /\ stack' = Append(stack, [what |-> "include", cell |-> c, fd |-> fd, entry |-> Now])
    /\ UNCHANGED <<sigint, cont, exited>>

(* The load has read the end of its input; include pops and closes.          *)
Included ==
    /\ Reading /\ stack # <<>> /\ Top(stack).what = "include"
    /\ Top(filein) \in latched
    /\ filein' = Popped(filein)
    /\ buffer' = Popped(buffer)
    /\ line' = Popped(line)
    /\ open' = open \ {Top(stack).fd}
    /\ stack' = Popped(stack)
    /\ UNCHANGED <<fdOf, latched, ended, sigint, cont, exited>>

-----------------------------------------------------------------------------
(* x_type_buffer_read with an empty buffer, asked by a load, the driver or   *)
(* the program.                                                              *)

LatchedNot(c) == latched                                           \* fault
LatchedFd(c)  == latched \cup {fdOf[c]}                  \* fault: not the cell
Latched(c)    == latched \cup {c}

(* The system call that does not bring a byte.  Only an error, with no SIGINT *)
(* flagged, is raised.                                                       *)
Read(outcome) ==
    LET c  == Top(filein)
        ok == outcome = "end" \/ sigint'
    IN  /\ Reading /\ c \notin latched
        /\ sigint' = (sigint \/ outcome = "sigint")
        /\ latched' = Latched(c)
        /\ ended' = ended \cup {fdOf[c]}
        /\ IF ok THEN UNCHANGED <<heads, fdOf, open, stack, cont, exited>>
                 ELSE Raise(latched')

-----------------------------------------------------------------------------
(* guard.                                                                    *)

Guard ==
    /\ Reading /\ Len(stack) < program.frames
    /\ stack' = Append(stack, [what |-> "guard", cell |-> Driver, fd |-> Stdin, entry |-> Now])
    /\ UNCHANGED <<heads, fdOf, latched, open, ended, sigint, cont, exited>>

(* The body or the handler body has answered.                                *)
Guarded ==
    /\ Reading /\ stack # <<>> /\ Top(stack).what # "include"
    /\ stack' = Popped(stack)
    /\ UNCHANGED <<heads, fdOf, latched, open, ended, sigint, cont, exited>>

-----------------------------------------------------------------------------
(* SIGINT outside a read, and x_eval's poll, which waits for a guard.        *)

Interrupt ==
    /\ ~exited /\ ~sigint
    /\ sigint' = TRUE
    /\ UNCHANGED <<heads, fdOf, latched, open, ended, stack, cont, exited>>

Poll ==
    /\ Reading /\ sigint /\ Guards # {}
    /\ sigint' = FALSE
    /\ Raise(latched)
    /\ UNCHANGED <<latched, ended>>

-----------------------------------------------------------------------------
(* call/cc and %cc-invoke: the C stack comes back, the input stacks do not   *)
(* take part.                                                                *)

CallCC ==
    /\ program.conts /\ Reading
    /\ cont' = stack
    /\ UNCHANGED <<heads, fdOf, latched, open, ended, stack, sigint, exited>>

Invoke ==
    /\ Reading /\ cont # NoCont
    /\ stack' = cont
    /\ UNCHANGED <<heads, fdOf, latched, open, ended, sigint, cont, exited>>

-----------------------------------------------------------------------------
Init ==
    /\ program \in Programs
    /\ filein = <<Driver>> /\ buffer = <<Driver>> /\ line = <<Driver>>
    /\ fdOf = [c \in Cell |-> Stdin]
    /\ latched = {} /\ open = {Stdin}
    /\ ended = {}
    /\ stack = <<>> /\ sigint = FALSE /\ cont = NoCont /\ exited = FALSE

Step ==
    \/ Fail \/ Include \/ Included
    \/ \E outcome \in Outcome : Read(outcome)
    \/ Guard \/ Guarded \/ Interrupt \/ Poll \/ CallCC \/ Invoke

Next == Step /\ UNCHANGED program

Spec == Init /\ [][Next]_vars

-----------------------------------------------------------------------------
(* Every variable holds a value of its kind.                                 *)
TypeOK ==
    /\ program \in Programs
    /\ {filein, buffer, line} \subseteq Seq(Cell)
    /\ fdOf \in [Cell -> Fd]
    /\ latched \subseteq Cell
    /\ open \subseteq Fd
    /\ ended \subseteq Fd
    /\ stack \in Seq(Frame)
    /\ {sigint, exited} \subseteq BOOLEAN
    /\ program.conts \/ cont = NoCont

(* What a frame's own body reads from.                                       *)
Inside(f) ==
    IF f.what = "include"
    THEN [filein |-> Append(f.entry.filein, f.cell),
          buffer |-> Append(f.entry.buffer, f.cell),
          line   |-> Append(f.entry.line, f.cell)]
    ELSE f.entry

Outermost == [filein |-> <<Driver>>, buffer |-> <<Driver>>, line |-> <<Driver>>]

(* Every C frame returns once.  What does not hold otherwise is in README.md. *)
Returning == ~program.conts

FollowsStack ==
    /\ \A i \in 1..Len(stack) :
          stack[i].entry = IF i = 1 THEN Outermost ELSE Inside(stack[i-1])
    /\ ~exited => Now = IF stack = <<>> THEN Outermost ELSE Inside(Top(stack))

(* The three input stacks are those of the frames in progress: every frame   *)
(* starts from what its caller reads from, and the innermost one's own input *)
(* is what is read next.  So an error, an end of file or a nested include    *)
(* never leaves a dead file's remaining bytes in front of the stream below.  *)
InputMatchesStack == Returning => FollowsStack

(* Whatever continuations are re-entered, what is buffered, the line it is   *)
(* on and the descriptor it came from belong to one and the same input: the  *)
(* three stacks are pushed, popped and cut back together.                    *)
HeadsInStep == filein = buffer /\ buffer = line

HeldOnce ==
    /\ ~exited => open = {fdOf[filein[i]] : i \in 1..Len(filein)}
    /\ \A i, j \in 1..Len(filein) :
          fdOf[filein[i]] = fdOf[filein[j]] => i = j
    /\ \A i \in 1..Len(stack) :
          stack[i].what = "include" => fdOf[stack[i].cell] = stack[i].fd

(* The open descriptors are exactly those of the cells on the input stack,   *)
(* each include's own among them: none leaks, none is closed while in use,   *)
(* none is held twice.                                                       *)
DescriptorsMatchInput == Returning => HeldOnce

(* A descriptor is never read again after a read that brought no byte: an    *)
(* end of input is sticky, and a persistent error is raised once.            *)
EofIsSticky ==
    [][Returning => \A o \in Outcome : Read(o) => fdOf[Top(filein)] \notin ended]_vars
=============================================================================
