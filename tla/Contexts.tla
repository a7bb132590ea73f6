------------------------------ MODULE Contexts ------------------------------
(***************************************************************************)
(* What the stack promises to a program, its subroutines and its exception *)
(* handlers: a stack of contexts.  A call or an exception saves one, and a *)
(* return brings back what was saved last, whatever ran in between.  The   *)
(* contexts are abandoned only with the stack pointer, when it gets a new  *)
(* value or when a handler returns with something below its frame.         *)
(*                                                                         *)
(* Exceptions implements this module: see ImplementsContexts there.        *)
(***************************************************************************)
EXTENDS Integers, Sequences

CONSTANT Handlers  \* where the handlers begin

VARIABLES
  contexts,  \* what is saved, the last first: [kind, value, sr]
  pc, sr,
  begin,     \* the address of the instruction that is executed, or was last
  next,      \* the address after the words that have been fetched
  a6         \* the frame pointer

vars == <<contexts, pc, sr, begin, next, a6>>

Init == contexts = <<>>

\* Anything that leaves the stack as it is.
Run == UNCHANGED contexts

Pushes(kind) ==
  /\ contexts' # <<>> /\ Tail(contexts') = contexts
  /\ Head(contexts').kind = kind

Pops(kind) ==
  /\ contexts # <<>> /\ contexts' = Tail(contexts)
  /\ Head(contexts).kind = kind

\* An exception saves the status register with where to go on or, if its vector
\* is that of a fault, with the last instruction to begin, and enters a handler.
Save ==
  /\ Pushes("frame")
  /\ Head(contexts').sr = sr
  /\ Head(contexts').value \in {next, begin}
  /\ pc' \in Handlers
  /\ UNCHANGED a6

\* The fault of a fetch through the pc skips the first bytes of its handler: those
\* of a long, of a word, or what is left of a word after its first byte.
SaveAndSkip ==
  /\ Pushes("frame")
  /\ Head(contexts').sr = sr
  /\ Head(contexts').value = begin
  /\ pc' \in {h + size : h \in Handlers, size \in {1, 2, 4}}
  /\ UNCHANGED a6

\* The status and the pc of the interrupted program come back together.
Restore ==
  /\ Pops("frame")
  /\ pc' = Head(contexts).value /\ sr' = Head(contexts).sr
  /\ UNCHANGED a6

Call == Pushes("return") /\ Head(contexts').value = next /\ UNCHANGED <<sr, a6>>

Return == Pops("return") /\ pc' = Head(contexts).value /\ UNCHANGED <<sr, a6>>

Argument == Pushes("arg") /\ UNCHANGED <<sr, a6>>

Linked(s) == s # <<>> /\ Tail(s) = contexts /\ Head(s).kind = "link" /\ Head(s).value = a6

\* There may be room for locals on the top: one longword stands for them.
WithoutLocals(s) == {s} \cup (IF s # <<>> /\ Head(s).kind = "arg" THEN {Tail(s)} ELSE {})

\* The frame pointer is saved, and there is room for locals.
Enter == (\E s \in WithoutLocals(contexts') : Linked(s)) /\ UNCHANGED sr

\* The arguments pushed since the frame pointer was saved go with it.
Leave ==
  \E n \in 1 .. Len(contexts) :
    /\ \A k \in 1 .. n - 1 : contexts[k].kind = "arg"
    /\ contexts[n].kind = "link"
    /\ a6' = contexts[n].value
    /\ contexts' = SubSeq(contexts, n + 1, Len(contexts))
    /\ UNCHANGED sr

OnlyFrame(s) == Len(s) = 1 /\ s[1].kind = "frame"

\* The stack pointer is set anew: nothing of the old stack is left, and an
\* exception may be saved on the new one.
Abandon == \E s \in WithoutLocals(contexts') : s = <<>> \/ OnlyFrame(s)

Step ==
  \/ Run \/ Save \/ SaveAndSkip \/ Restore \/ Call \/ Return \/ Argument \/ Enter \/ Leave
  \/ Abandon

Next == Step /\ begin' \in {begin, pc'} /\ next' \in {pc', pc' + 2}

Spec == Init /\ [][Next]_vars
=============================================================================
