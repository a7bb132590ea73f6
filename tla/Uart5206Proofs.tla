--------------------------- MODULE Uart5206Proofs ---------------------------
(***************************************************************************)
(* Proofs about Uart5206: the mutex separates the two threads, and the     *)
(* status bits never promise what the FIFO does not hold, for every set of *)
(* characters, modes, commands and masks; and the array, the count and the *)
(* mutex implement the queue of UartFifo.                                  *)
(***************************************************************************)
EXTENDS Uart5206, SequenceTheorems, TLAPS

\* The variables the argument is about.
Types ==
  /\ URB_count \in 0 .. Depth
  /\ RxRDY \in BOOLEAN
  /\ FFULL \in BOOLEAN
  /\ lock \in {"free", "cpu", "thread"}
  /\ cpu \in CpuPoints
  /\ thread \in ThreadPoints

\* Each thread holds the mutex exactly in its critical sections.
MutualExclusion ==
  /\ lock = "cpu" <=> cpu \in {"URB", "UIPCR"}
  /\ lock = "thread" <=> thread \in {"stored", "dropped"}

\* The serial thread's decision on a full FIFO still stands when it acts on it.
DecisionStands ==
  /\ thread = "stored" => URB_count < Depth
  /\ thread = "dropped" => URB_count = Depth

\* The status bits agree with the count.
BitsAreTrue ==
  /\ RxRDY => URB_count > 0
  /\ FFULL => URB_count = Depth

\* The inductive invariant.
IInv == Types /\ MutualExclusion /\ DecisionStands /\ BitsAreTrue

-----------------------------------------------------------------------------

\* It holds initially,
LEMMA InitIInv == Init => IInv
<1> SUFFICES ASSUME Init PROVE IInv
  OBVIOUS
<1>0. /\ URB_count = 0 /\ ~RxRDY /\ ~FFULL /\ RxRDY \in BOOLEAN /\ FFULL \in BOOLEAN
      /\ lock = "free" /\ cpu = "execute" /\ thread = "listen"
  BY DEF Init
<1>1. Types
  BY <1>0 DEF Types, CpuPoints, ThreadPoints, Depth
<1>2. MutualExclusion /\ DecisionStands /\ BitsAreTrue
  BY <1>0 DEF MutualExclusion, DecisionStands, BitsAreTrue
<1>3. QED
  BY <1>1, <1>2 DEF IInv

\* whatever the peer does,
LEMMA PeerIInv == ASSUME IInv, Peer PROVE IInv'
<1> USE DEF IInv, Types, MutualExclusion, DecisionStands, BitsAreTrue,
            CpuPoints, ThreadPoints, Depth, rx
<1>1. CASE Accept
  BY <1>1 DEF Accept
<1>2. CASE Escape
  BY <1>2 DEF Escape
<1>3. ASSUME NEW b \in Chars \cup {NUL, IAC}, Read(b) PROVE IInv'
  BY <1>3 DEF Read
<1>4. CASE EndOfInput
  BY <1>4 DEF EndOfInput
<1>5. QED
  BY <1>1, <1>2, <1>3, <1>4 DEF Peer, Receive

\* after every step of the serial thread
LEMMA SerialThreadIInv == ASSUME IInv, SerialThread PROVE IInv'
<1> USE DEF IInv, Types, MutualExclusion, DecisionStands, BitsAreTrue,
            CpuPoints, ThreadPoints, Depth
<1>1. CASE Listen
  BY <1>1 DEF Listen, rx
<1>2. CASE Greeted
  BY <1>2 DEF Greeted, rx
<1>3. CASE Store
  <2>1. /\ thread = "store" /\ lock = "free" /\ lock' = "thread"
        /\ thread' = IF URB_count < 3 THEN "stored" ELSE "dropped"
        /\ UNCHANGED <<RxRDY, FFULL, URB_count, cpu>>
    BY <1>3 DEF Store
  <2>2. QED
    BY <2>1
<1>4. CASE Flags
  <2>1. /\ thread \in {"stored", "dropped"}
        /\ URB_count' = IF thread = "stored" THEN URB_count + 1 ELSE URB_count
        /\ RxRDY' = TRUE /\ FFULL' = (FFULL \/ URB_count' = 3)
        /\ lock' = "free" /\ thread' = "read" /\ UNCHANGED cpu
    BY <1>4 DEF Flags
  <2>2. URB_count' \in 1 .. 3 /\ (FFULL => URB_count' = 3)
    BY <2>1
  <2>3. QED
    BY <2>1, <2>2
<1>5. CASE Close
  BY <1>5 DEF Close, rx
<1>6. CASE Forget
  BY <1>6 DEF Forget, rx
<1>7. QED
  BY <1>1, <1>2, <1>3, <1>4, <1>5, <1>6 DEF SerialThread

\* and after every step of the processor.
LEMMA ProcessorIInv == ASSUME IInv, Processor PROVE IInv'
<1> USE DEF IInv, Types, MutualExclusion, DecisionStands, BitsAreTrue,
            CpuPoints, ThreadPoints, Depth, thr
<1>1. CASE OtherInstruction
  BY <1>1 DEF OtherInstruction, rx
<1>2. ASSUME NEW irq \in Modes, WriteUMR(irq) PROVE IInv'
  BY <1>2 DEF WriteUMR, Access
<1>3. ASSUME NEW cmd \in Commands, WriteUCR(cmd[1], cmd[2]) PROVE IInv'
  <2>1. /\ cpu = "execute" /\ lock = "free" /\ cpu' = "update"
        /\ UNCHANGED <<URB_count, thr, lock>>
    BY <1>3 DEF WriteUCR, Access
  <2>2. /\ RxRDY' = (RxRDY /\ cmd[1] # "reset receiver")
        /\ FFULL' = (FFULL /\ cmd[1] # "reset receiver")
    BY <1>3 DEF WriteUCR
  <2>3. RxRDY' \in BOOLEAN /\ FFULL' \in BOOLEAN /\ (RxRDY' => RxRDY) /\ (FFULL' => FFULL)
    BY <2>2
  <2>4. Types' /\ MutualExclusion' /\ DecisionStands'
    BY <2>1, <2>3
  <2>5. BitsAreTrue'
    BY <2>1, <2>3
  <2>6. QED
    BY <2>4, <2>5
<1>4. CASE WriteUTB
  BY <1>4 DEF WriteUTB, Access, rx
<1>5. ASSUME NEW mask \in Masks, WriteUIMR(mask) PROVE IInv'
  BY <1>5 DEF WriteUIMR, Access, rx
<1>6. CASE ReadURB
  BY <1>6 DEF ReadURB
<1>7. CASE FinishReadURB
  <2>1. /\ cpu = "URB" /\ cpu' = "update" /\ lock' = "free"
        /\ URB_count' = IF URB_count = 0 THEN 0 ELSE URB_count - 1
        /\ RxRDY' = (RxRDY /\ URB_count' # 0) /\ FFULL' = FALSE
        /\ UNCHANGED thread
    BY <1>7 DEF FinishReadURB
  <2>2. URB_count' \in 0 .. 3
    BY <2>1
  <2>3. lock = "cpu" /\ thread \notin {"stored", "dropped"}
    BY <2>1
  <2>4. RxRDY' \in BOOLEAN /\ FFULL' \in BOOLEAN
    BY <2>1
  <2>5. Types'
    BY <2>1, <2>2, <2>4
  <2>6. MutualExclusion' /\ DecisionStands'
    BY <2>1, <2>3
  <2>7. BitsAreTrue'
    BY <2>1, <2>2
  <2>8. QED
    BY <2>5, <2>6, <2>7
<1>8. CASE ReadUIPCR
  BY <1>8 DEF ReadUIPCR, rx
<1>9. CASE ClearCOS
  BY <1>9 DEF ClearCOS, rx
<1>10. CASE Update
  BY <1>10 DEF Update, rx
<1>11. CASE Send
  BY <1>11 DEF Send, rx
<1>12. CASE Interrupt
  BY <1>12 DEF Interrupt, rx
<1>13. QED
  BY <1>1, <1>2, <1>3, <1>4, <1>5, <1>6, <1>7, <1>8, <1>9, <1>10, <1>11, <1>12
     DEF Processor

\* Mutual exclusion, with what it is for: the invariant of both threads' critical
\* sections (the accesses to URB, URB_count and the status bits).
THEOREM CriticalSections == Spec => []IInv
<1>1. IInv /\ UNCHANGED vars => IInv'
  BY DEF vars, rx, thr, IInv, Types, MutualExclusion, DecisionStands, BitsAreTrue
<1>2. IInv /\ [Next]_vars => IInv'
  BY <1>1, PeerIInv, SerialThreadIInv, ProcessorIInv DEF Next
<1>3. QED
  BY <1>2, InitIInv, PTL DEF Spec

\* The status register never promises what the FIFO does not hold: a ready receiver
\* has a character and a full one has three.
THEOREM StatusAlwaysTruthful == Spec => []StatusIsTruthful
<1>1. IInv => StatusIsTruthful
  BY DEF IInv, BitsAreTrue, StatusIsTruthful
<1>2. QED
  BY <1>1, CriticalSections, PTL

-----------------------------------------------------------------------------
(* The types of all variables. *)

\* The variables the critical sections are not about, and the byte in hand.
OtherTypes ==
  /\ RxIRQ \in BOOLEAN /\ TxRDY \in BOOLEAN /\ COS \in BOOLEAN /\ fd \in BOOLEAN
  /\ transmitter_enabled \in BOOLEAN /\ asserted \in BOOLEAN /\ changed \in BOOLEAN
  /\ UMR_pointer \in {0, 1}
  /\ URB \in [1 .. 3 -> Chars \cup {NUL}]
  /\ UIMR \subseteq {"FFULL", "TxRDY"}
  /\ c \in Chars \cup {NUL}
  /\ result \in Chars \cup {NUL}

\* The thread has a character in hand from the moment it reads it until it has
\* counted it, and the guest one from the shift of the FIFO to the end of its read;
\* a character that is stored and not yet counted is behind the counted ones.
Handover ==
  /\ c # NUL <=> thread \in {"store", "stored", "dropped"}
  /\ result # NUL => cpu = "URB"
  /\ thread = "stored" => URB[URB_count + 1] = c

\* What the refinement needs besides.
FifoInv == IInv /\ OtherTypes /\ Handover

\* It holds initially,
LEMMA InitFifoInv == Init => FifoInv
<1> SUFFICES ASSUME Init PROVE FifoInv
  OBVIOUS
<1>1. OtherTypes
  BY DEF Init, OtherTypes, Depth
<1>2. Handover
  BY DEF Init, Handover
<1>3. QED
  BY <1>1, <1>2, InitIInv DEF FifoInv

\* whatever the peer does,
LEMMA PeerFifoInv == ASSUME FifoInv, Peer PROVE OtherTypes' /\ Handover'
<1> USE UartAssumption DEF OtherTypes, Handover, FifoInv
<1>1. CASE Accept
  BY <1>1 DEF Accept, rx, tx, out
<1>2. CASE Escape
  BY <1>2 DEF Escape, rx, tx, out
<1>3. ASSUME NEW b \in Chars \cup {NUL, IAC}, Read(b) PROVE OtherTypes' /\ Handover'
  BY <1>3 DEF Read, rx, tx, out
<1>4. CASE EndOfInput
  BY <1>4 DEF EndOfInput, rx, tx, out
<1>5. QED
  BY <1>1, <1>2, <1>3, <1>4 DEF Peer, Receive

\* after every step of the serial thread
LEMMA SerialThreadFifoInv == ASSUME FifoInv, SerialThread PROVE OtherTypes' /\ Handover'
<1> USE DEF OtherTypes, Handover, FifoInv
<1>1. CASE Listen
  BY <1>1 DEF Listen, rx, tx, out
<1>2. CASE Greeted
  BY <1>2 DEF Greeted, rx, tx, out
<1>3. CASE Store
  <2>1. URB_count \in 0 .. 3 /\ thread = "store" /\ cpu' = cpu /\ UNCHANGED <<c, result, URB_count>>
    BY <1>3 DEF Store, IInv, Types, Depth, out
  <2>2. \/ URB_count < 3 /\ URB' = [URB EXCEPT ![URB_count + 1] = c] /\ thread' = "stored"
        \/ URB' = URB /\ thread' = "dropped"
    BY <1>3 DEF Store, Depth
  <2>3. OtherTypes'
    BY <1>3, <2>1, <2>2 DEF Store, tx, out
  <2>4. Handover'
    BY <2>1, <2>2
  <2>5. QED
    BY <2>3, <2>4
<1>4. CASE Flags
  BY <1>4 DEF Flags, tx, out
<1>5. CASE Close
  BY <1>5 DEF Close, rx, tx, out
<1>6. CASE Forget
  BY <1>6 DEF Forget, rx, tx, out
<1>7. QED
  BY <1>1, <1>2, <1>3, <1>4, <1>5, <1>6 DEF SerialThread

\* and after every step of the processor.
LEMMA ProcessorFifoInv == ASSUME FifoInv, Processor PROVE OtherTypes' /\ Handover'
<1> USE UartAssumption DEF OtherTypes, Handover, FifoInv
<1>1. CASE OtherInstruction
  BY <1>1 DEF OtherInstruction, rx, tx, thr, out
<1>2. ASSUME NEW irq \in Modes, WriteUMR(irq) PROVE OtherTypes' /\ Handover'
  BY <1>2 DEF WriteUMR, Access, tx, thr, out
<1>3. ASSUME NEW cmd \in Commands, WriteUCR(cmd[1], cmd[2]) PROVE OtherTypes' /\ Handover'
  <2>1. /\ cpu = "execute" /\ cpu' = "update"
        /\ UMR_pointer' \in {0, 1}
        /\ UNCHANGED <<RxIRQ, URB, URB_count, UIMR, asserted, thr, out, COS>>
    BY <1>3 DEF WriteUCR, Access
  <2>2. TxRDY' \in BOOLEAN /\ transmitter_enabled' \in BOOLEAN
    BY <1>3 DEF WriteUCR
  <2>3. QED
    BY <2>1, <2>2 DEF thr, out
<1>4. CASE WriteUTB
  BY <1>4 DEF WriteUTB, Access, rx, thr, out
<1>5. ASSUME NEW mask \in Masks, WriteUIMR(mask) PROVE OtherTypes' /\ Handover'
  BY <1>5 DEF WriteUIMR, Access, rx, thr, out
<1>6. CASE ReadURB
  <2>1. thread # "stored"
    BY <1>6 DEF ReadURB, IInv, MutualExclusion
  <2>2. QED
    BY <1>6, <2>1 DEF ReadURB, tx, thr
<1>7. CASE FinishReadURB
  <2>1. thread # "stored"
    BY <1>7 DEF FinishReadURB, IInv, MutualExclusion
  <2>2. QED
    BY <1>7, <2>1 DEF FinishReadURB, tx, thr
<1>8. CASE ReadUIPCR
  BY <1>8 DEF ReadUIPCR, rx, tx, thr
<1>9. CASE ClearCOS
  BY <1>9 DEF ClearCOS, rx, tx, thr
<1>10. CASE Update
  BY <1>10 DEF Update, rx, tx, thr, out
<1>11. CASE Send
  BY <1>11 DEF Send, rx, thr, out
<1>12. CASE Interrupt
  <2>1. asserted' \in BOOLEAN
    BY <1>12 DEF Interrupt, InterruptCondition
  <2>2. QED
    BY <1>12, <2>1 DEF Interrupt, rx, thr, out
<1>13. QED
  BY <1>1, <1>2, <1>3, <1>4, <1>5, <1>6, <1>7, <1>8, <1>9, <1>10, <1>11, <1>12
     DEF Processor

\* The critical sections hand the characters over one at a time.
LEMMA FifoInvHolds == Spec => []FifoInv
<1>1. FifoInv /\ UNCHANGED vars => OtherTypes' /\ Handover'
  BY DEF vars, rx, tx, thr, out, FifoInv, OtherTypes, Handover
<1>2. FifoInv /\ [Next]_vars => OtherTypes' /\ Handover'
  BY <1>1, PeerFifoInv, SerialThreadFifoInv, ProcessorFifoInv DEF Next
<1>3. IInv' /\ OtherTypes' /\ Handover' => FifoInv'
  BY DEF FifoInv
<1>4. QED
  BY <1>2, <1>3, InitFifoInv, CriticalSections, PTL DEF Spec

\* Every variable keeps its type: the count never leaves the array, and the byte
\* in hand is a character or none.
THEOREM TypeCorrect == Spec => []TypeOK
<1>1. FifoInv => TypeOK
  <2> SUFFICES ASSUME FifoInv PROVE TypeOK
    OBVIOUS
  <2>1. {RxIRQ, RxRDY, FFULL, TxRDY, COS, fd} \subseteq BOOLEAN
    BY DEF FifoInv, IInv, Types, OtherTypes
  <2>2. {transmitter_enabled, asserted, changed} \subseteq BOOLEAN
    BY DEF FifoInv, OtherTypes
  <2>3. {c, result} \subseteq Chars \cup {NUL}
    BY DEF FifoInv, OtherTypes
  <2>4. QED
    BY <2>1, <2>2, <2>3 DEF FifoInv, IInv, Types, OtherTypes, TypeOK, Depth
<1>2. QED
  BY <1>1, FifoInvHolds, PTL

-----------------------------------------------------------------------------
(* The receiver implements the queue. *)

\* How many characters the guest has still to read, and which.
Waiting == IF cpu = "URB" /\ URB_count > 0 THEN URB_count - 1 ELSE URB_count
Queue   == SubSeq(URB, 1, Waiting)

\* A prefix of an array of three, as a sequence.
LEMMA PrefixIsSequence ==
  ASSUME NEW S, NEW array \in [1 .. 3 -> S], NEW n \in 0 .. 3
  PROVE  /\ SubSeq(array, 1, n) \in Seq(S)
         /\ Len(SubSeq(array, 1, n)) = n
         /\ \A i \in 1 .. n : SubSeq(array, 1, n)[i] = array[i]
<1>1. \A i \in 1 .. n : array[i] \in S
  OBVIOUS
<1>2. QED
  BY <1>1, SubSeqProperties

\* Reading the first of a prefix and shifting the array leaves its tail.
LEMMA ShiftIsTail ==
  ASSUME NEW S, NEW array \in [1 .. 3 -> S], NEW n \in 1 .. 3, NEW shifted,
         shifted = [array EXCEPT ![1] = array[2], ![2] = array[3]]
  PROVE  /\ SubSeq(array, 1, n) # <<>>
         /\ Head(SubSeq(array, 1, n)) = array[1]
         /\ SubSeq(shifted, 1, n - 1) = Tail(SubSeq(array, 1, n))
<1> DEFINE q == SubSeq(array, 1, n)
           r == SubSeq(shifted, 1, n - 1)
<1>1. q \in Seq(S) /\ Len(q) = n /\ \A i \in 1 .. n : q[i] = array[i]
  BY PrefixIsSequence
<1>2. shifted \in [1 .. 3 -> S] /\ \A i \in 1 .. 2 : shifted[i] = array[i + 1]
  OBVIOUS
<1>3. r \in Seq(S) /\ Len(r) = n - 1 /\ \A i \in 1 .. n - 1 : r[i] = shifted[i]
  BY <1>2, PrefixIsSequence
<1>4. q # <<>>
  BY <1>1, EmptySeq
<1> HIDE DEF q, r
<1>5. Tail(q) \in Seq(S) /\ Len(Tail(q)) = n - 1 /\ \A i \in 1 .. n - 1 : Tail(q)[i] = q[i + 1]
  BY <1>1, <1>4, HeadTailProperties
<1>6. r = Tail(q)
  BY <1>1, <1>2, <1>3, <1>5, SeqEqual
<1>7. Head(q) = array[1]
  BY <1>1, <1>4, HeadTailProperties
<1>8. QED
  BY <1>4, <1>6, <1>7 DEF q, r

\* Storing behind a prefix and lengthening it appends; it leaves the prefix alone.
LEMMA StoreIsAppend ==
  ASSUME NEW S, NEW array \in [1 .. 3 -> S], NEW n \in 0 .. 2
  PROVE  /\ SubSeq(array, 1, n + 1) = Append(SubSeq(array, 1, n), array[n + 1])
         /\ \A char \in S :
              SubSeq([array EXCEPT ![n + 1] = char], 1, n) = SubSeq(array, 1, n)
<1> DEFINE q == SubSeq(array, 1, n)
           r == SubSeq(array, 1, n + 1)
<1>1. q \in Seq(S) /\ Len(q) = n /\ \A i \in 1 .. n : q[i] = array[i]
  BY PrefixIsSequence
<1>2. r \in Seq(S) /\ Len(r) = n + 1 /\ \A i \in 1 .. n + 1 : r[i] = array[i]
  BY PrefixIsSequence
<1>3. r = Append(q, array[n + 1])
  <2> HIDE DEF q, r
  <2>1. array[n + 1] \in S
    OBVIOUS
  <2>2. /\ Append(q, array[n + 1]) \in Seq(S)
        /\ Len(Append(q, array[n + 1])) = n + 1
        /\ \A i \in 1 .. n : Append(q, array[n + 1])[i] = q[i]
        /\ Append(q, array[n + 1])[n + 1] = array[n + 1]
    BY <1>1, <2>1, AppendProperties
  <2>3. QED
    BY <1>1, <1>2, <2>2, SeqEqual
<1>4. ASSUME NEW char \in S
      PROVE  SubSeq([array EXCEPT ![n + 1] = char], 1, n) = q
  <2> DEFINE t == SubSeq([array EXCEPT ![n + 1] = char], 1, n)
  <2>1. [array EXCEPT ![n + 1] = char] \in [1 .. 3 -> S]
    OBVIOUS
  <2>2. t \in Seq(S) /\ Len(t) = n
        /\ \A i \in 1 .. n : t[i] = [array EXCEPT ![n + 1] = char][i]
    BY <2>1, PrefixIsSequence
  <2>3. \A i \in 1 .. n : t[i] = array[i]
    BY <2>2
  <2> HIDE DEF t, q
  <2>4. t = q
    BY <1>1, <2>2, <2>3, SeqEqual
  <2>5. QED
    BY <2>4 DEF t
<1>5. QED
  BY <1>3, <1>4

\* A step that leaves the byte in hand, the queue and the delivery alone.
LEMMA QueueUnchanged ==
  ASSUME UNCHANGED <<c, result, URB, URB_count>>,
         cpu' = cpu \/ (cpu # "URB" /\ cpu' # "URB")
  PROVE  UNCHANGED Fifo!vars
<1>1. Waiting' = Waiting
  BY DEF Waiting
<1>2. QED
  BY <1>1 DEF Waiting, Fifo!vars

\* At first the queue is empty.
LEMMA InitRefinesFifo == Init => Fifo!Init
<1> SUFFICES ASSUME Init PROVE Fifo!Init
  OBVIOUS
<1>1. URB_count = 0 /\ c = NUL /\ result = NUL /\ Waiting = 0
  BY DEF Init, Waiting
<1>2. SubSeq(URB, 1, 0) = <<>>
  BY SubSeqEmpty
<1>3. QED
  BY <1>1, <1>2 DEF Fifo!Init, Waiting

\* The peer only hands characters over.
LEMMA PeerRefinesFifo == ASSUME FifoInv, Peer PROVE [Fifo!Next]_(Fifo!vars)
<1>1. CASE Accept \/ Escape \/ EndOfInput
  BY <1>1, QueueUnchanged DEF Accept, Escape, EndOfInput, rx, out
<1>2. ASSUME NEW b \in Chars \cup {NUL, IAC}, Read(b) PROVE [Fifo!Next]_(Fifo!vars)
  <2>1. c = NUL /\ UNCHANGED <<result, URB, URB_count, cpu>>
    BY <1>2 DEF Read, rx, out, FifoInv, Handover
  <2>2. Waiting' = Waiting /\ URB' = URB
    BY <2>1 DEF Waiting
  <2>3. CASE b \in Chars
    BY <1>2, <2>1, <2>2, <2>3 DEF Read, Fifo!Arrive, Fifo!Next, Waiting
  <2>4. CASE b \notin Chars
    BY <1>2, <2>1, <2>4, QueueUnchanged DEF Read
  <2>5. QED
    BY <2>3, <2>4
<1>3. QED
  BY <1>1, <1>2 DEF Peer, Receive

\* A character is put when it is counted: before that it is behind the queue.
LEMMA SerialThreadRefinesFifo ==
  ASSUME FifoInv, SerialThread PROVE [Fifo!Next]_(Fifo!vars)
<1> USE DEF FifoInv
<1>1. CASE Listen \/ Greeted \/ Close \/ Forget
  BY <1>1, QueueUnchanged DEF Listen, Greeted, Close, Forget, rx, out
<1>2. CASE Store
  <2>1. URB_count \in 0 .. 3 /\ cpu # "URB" /\ UNCHANGED <<c, result, URB_count, cpu>>
    BY <1>2 DEF Store, out, IInv, Types, Depth, MutualExclusion
  <2>2. Waiting = URB_count /\ Waiting' = URB_count
    BY <2>1 DEF Waiting
  <2>3. SubSeq(URB, 1, URB_count)' = SubSeq(URB, 1, URB_count)
    <3>1. URB \in [1 .. 3 -> Chars \cup {NUL}] /\ c \in Chars \cup {NUL}
      BY DEF OtherTypes
    <3>2. CASE URB_count < 3
      <4>1. URB' = [URB EXCEPT ![URB_count + 1] = c] /\ URB_count \in 0 .. 2
        BY <1>2, <2>1, <3>2 DEF Store, Depth
      <4>2. QED
        BY <2>1, <3>1, <4>1, StoreIsAppend
    <3>3. CASE URB_count = 3
      BY <1>2, <2>1, <3>3 DEF Store, Depth
    <3>4. QED
      BY <2>1, <3>2, <3>3
  <2>4. UNCHANGED Fifo!vars
    BY <2>1, <2>2, <2>3 DEF Fifo!vars, Waiting
  <2>5. QED
    BY <2>4
<1>3. CASE Flags
  <2>1. /\ URB_count \in 0 .. 3 /\ cpu # "URB" /\ UNCHANGED <<URB, result, cpu>>
        /\ c # NUL /\ c' = NUL /\ thread \in {"stored", "dropped"}
        /\ URB_count' = IF thread = "stored" THEN URB_count + 1 ELSE URB_count
    BY <1>3 DEF Flags, out, IInv, Types, Depth, MutualExclusion, Handover
  <2>2. Waiting = URB_count /\ Waiting' = URB_count'
    BY <2>1 DEF Waiting
  <2>3. URB \in [1 .. 3 -> Chars \cup {NUL}]
    BY DEF OtherTypes
  <2>4. Len(SubSeq(URB, 1, URB_count)) = URB_count
    BY <2>1, <2>3, PrefixIsSequence
  <2>5. SubSeq(URB, 1, URB_count)' =
          IF URB_count < 3 THEN Append(SubSeq(URB, 1, URB_count), c) ELSE SubSeq(URB, 1, URB_count)
    <3>1. CASE thread = "stored"
      <4>1. URB_count \in 0 .. 2 /\ URB[URB_count + 1] = c
        BY <2>1, <3>1 DEF IInv, DecisionStands, Depth, Handover
      <4>2. QED
        BY <2>1, <2>3, <3>1, <4>1, StoreIsAppend
    <3>2. CASE thread = "dropped"
      BY <2>1, <3>2 DEF IInv, DecisionStands, Depth
    <3>3. QED
      BY <2>1, <3>1, <3>2
  <2>6. Fifo!Put
    BY <2>1, <2>2, <2>4, <2>5 DEF Fifo!Put, Waiting, Depth
  <2>7. QED
    BY <2>6 DEF Fifo!Next
<1>4. QED
  BY <1>1, <1>2, <1>3 DEF SerialThread

\* A character is got when the FIFO is shifted, before it is counted off.
LEMMA ProcessorRefinesFifo ==
  ASSUME FifoInv, Processor PROVE [Fifo!Next]_(Fifo!vars)
<1> USE DEF FifoInv
<1>1. CASE \/ OtherInstruction
           \/ \E irq \in Modes : WriteUMR(irq)
           \/ WriteUTB
           \/ \E mask \in Masks : WriteUIMR(mask)
           \/ ReadUIPCR \/ ClearCOS \/ Update \/ Send \/ Interrupt
  <2>1. UNCHANGED <<c, result, URB, URB_count>> /\ cpu # "URB" /\ cpu' # "URB"
    BY <1>1 DEF OtherInstruction, WriteUMR, WriteUTB, WriteUIMR, ReadUIPCR, ClearCOS,
                Update, Send, Interrupt, Access, rx, thr, out
  <2>2. QED
    BY <2>1, QueueUnchanged
<1>2. ASSUME NEW cmd \in Commands, WriteUCR(cmd[1], cmd[2]) PROVE UNCHANGED Fifo!vars
  BY <1>2, QueueUnchanged DEF WriteUCR, Access, thr, out
<1>3. CASE ReadURB
  <2>1. /\ URB_count \in 0 .. 3 /\ cpu = "execute" /\ cpu' = "URB"
        /\ result = NUL /\ result' = URB[1] /\ UNCHANGED <<c, URB_count>>
        /\ URB' = [URB EXCEPT ![1] = URB[2], ![2] = URB[3]]
        /\ URB \in [1 .. 3 -> Chars \cup {NUL}]
    BY <1>3 DEF ReadURB, thr, IInv, Types, Depth, OtherTypes, Handover
  <2>2. Waiting = URB_count /\ Waiting' = IF URB_count = 0 THEN 0 ELSE URB_count - 1
    BY <2>1 DEF Waiting
  <2>3. CASE URB_count = 0
    <3>1. SubSeq(URB, 1, 0) = <<>> /\ SubSeq(URB', 1, 0) = <<>>
      BY SubSeqEmpty
    <3>2. CASE URB[1] = NUL
      BY <2>1, <2>2, <2>3, <3>1, <3>2 DEF Fifo!vars, Waiting
    <3>3. CASE URB[1] # NUL
      <4>1. result' \in Chars
        BY <2>1, <3>3
      <4>2. Fifo!Underrun
        BY <2>1, <2>2, <2>3, <3>1, <4>1 DEF Fifo!Underrun, Waiting
      <4>3. QED
        BY <4>2 DEF Fifo!Next
    <3>4. QED
      BY <3>2, <3>3
  <2>4. CASE URB_count \in 1 .. 3
    <3>1. /\ SubSeq(URB, 1, URB_count) # <<>>
          /\ Head(SubSeq(URB, 1, URB_count)) = URB[1]
          /\ SubSeq(URB', 1, URB_count - 1) = Tail(SubSeq(URB, 1, URB_count))
      BY <2>1, <2>4, ShiftIsTail
    <3>2. Waiting' = URB_count - 1
      BY <2>2, <2>4
    <3>3. Fifo!Get
      BY <2>1, <2>2, <3>1, <3>2 DEF Fifo!Get, Waiting
    <3>4. QED
      BY <3>3 DEF Fifo!Next
  <2>5. QED
    BY <2>1, <2>3, <2>4
<1>4. CASE FinishReadURB
  <2>1. /\ URB_count \in 0 .. 3 /\ cpu = "URB" /\ cpu' = "update"
        /\ result' = NUL /\ UNCHANGED <<c, URB>>
        /\ URB_count' = IF URB_count = 0 THEN 0 ELSE URB_count - 1
    BY <1>4 DEF FinishReadURB, thr, IInv, Types, Depth
  <2>2. Waiting' = Waiting
    BY <2>1 DEF Waiting
  <2>3. Fifo!Delivered
    BY <2>1, <2>2 DEF Fifo!Delivered, Waiting
  <2>4. QED
    BY <2>3 DEF Fifo!Next
<1>5. QED
  BY <1>1, <1>2, <1>3, <1>4 DEF Processor

\* The array, the count and the mutex implement a queue of three characters: in
\* whatever way the two threads interleave, nothing is lost but what arrives when
\* the queue is full, and nothing is delivered twice or out of order.
THEOREM ReceiverIsAFifo == Spec => ImplementsFifo
<1>1. FifoInv /\ UNCHANGED vars => UNCHANGED Fifo!vars
  BY QueueUnchanged DEF vars, rx, thr, out
<1>2. FifoInv /\ [Next]_vars => [Fifo!Next]_(Fifo!vars)
  BY <1>1, PeerRefinesFifo, SerialThreadRefinesFifo, ProcessorRefinesFifo DEF Next
<1>3. QED
  BY <1>2, FifoInvHolds, InitRefinesFifo, PTL DEF Spec, ImplementsFifo, Fifo!Spec
=============================================================================
