------------------------------ MODULE UartFifo ------------------------------
(***************************************************************************)
(* What the receiver of a UART promises: a queue of at most Depth          *)
(* characters, delivered in the order they arrived.  A character that is   *)
(* put in a full queue is lost; nothing else is.  A read of the empty      *)
(* queue (an underrun) may deliver anything and changes nothing else.      *)
(***************************************************************************)
EXTENDS Naturals, Sequences

CONSTANTS
  Depth,   \* the capacity of the queue
  Chars,   \* the characters that can arrive
  NUL      \* what an empty cell holds, and what is delivered between reads

VARIABLES
  arriving, \* the character that comes from the peer
  queue,    \* the characters received and not yet read
  output    \* the character being delivered to the guest

vars == <<arriving, queue, output>>

Init == arriving = NUL /\ queue = <<>> /\ output = NUL

Arrive ==
  /\ arriving = NUL
  /\ arriving' \in Chars
  /\ UNCHANGED <<queue, output>>

Put ==
  /\ arriving # NUL
  /\ arriving' = NUL
  /\ queue' = IF Len(queue) < Depth THEN Append(queue, arriving) ELSE queue
  /\ UNCHANGED output

Get ==
  /\ output = NUL
  /\ queue # <<>>
  /\ output' = Head(queue)
  /\ queue' = Tail(queue)
  /\ UNCHANGED arriving

Underrun ==
  /\ output = NUL
  /\ queue = <<>>
  /\ output' \in Chars
  /\ UNCHANGED <<arriving, queue>>

Delivered ==
  /\ output' = NUL
  /\ UNCHANGED <<arriving, queue>>

Next == Arrive \/ Put \/ Get \/ Underrun \/ Delivered

Spec == Init /\ [][Next]_vars
=============================================================================
