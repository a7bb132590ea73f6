------------------------------ MODULE Uart5206 ------------------------------
(***************************************************************************)
(* One UART of the 5206 (peripherals/uart_5206.c): the registers the guest *)
(* accesses, serial_update, which the run loop calls after every           *)
(* instruction, and serial_thread, which waits for a telnet connection and *)
(* moves what the peer types into the receive FIFO.  The processor thread  *)
(* and the serial thread share the registers; a mutex guards some of the   *)
(* accesses.                                                               *)
(*                                                                         *)
(* A register access is one step, except where the other thread can be     *)
(* seen in the middle of it.  Left out, because nothing but the guest's    *)
(* own read of the register depends on it: the receiver-enabled flag, the  *)
(* copy of the status bits in UISR, and CTS.  USR.TxEMP is always assigned *)
(* together with USR.TxRDY and is the same variable.                       *)
(***************************************************************************)
EXTENDS Naturals, Sequences

CONSTANTS
  Chars,     \* the printable characters a peer sends
  NUL,       \* the byte 0, which the thread skips
  IAC,       \* the byte 255, which makes the thread skip two more
  Modes,     \* the values of RxIRQ the guest writes: subset of BOOLEAN
  Commands,  \* the commands it writes to UCR: <<MISC, TC>>
  Masks      \* the interrupt masks it writes: sets of "FFULL", "TxRDY"

MISC == {"none", "reset pointer", "reset receiver", "reset transmitter"}
TC   == {"none", "enable", "disable"}

ASSUME UartAssumption ==
  /\ NUL \notin Chars /\ IAC \notin Chars /\ NUL # IAC
  /\ Modes \subseteq BOOLEAN
  /\ Commands \subseteq MISC \X TC
  /\ Masks \subseteq SUBSET {"FFULL", "TxRDY"}

Depth == 3  \* the size of URB

VARIABLES
  RxIRQ, UMR_pointer,   \* interrupt on FIFO full; which of UMR1, UMR2 is next
  RxRDY, FFULL, TxRDY,  \* status register bits
  URB, URB_count,       \* receive FIFO and how much of it is filled
  COS,                  \* UIPCR: the connection has changed
  UIMR,                 \* interrupt mask register
  transmitter_enabled,
  fd,                   \* the UART holds a descriptor (fd != 0)
  lock,                 \* who holds the mutex: "free", "cpu" or "thread"
  asserted,             \* the last call to the SIM was interrupt_assert
  cpu,                  \* where the processor thread is
  result, changed,      \* what a read of URB, of UIPCR is about to return
  thread, c             \* where the serial thread is, and the byte it has read

rx  == <<RxIRQ, UMR_pointer, RxRDY, FFULL, URB, URB_count>>
tx  == <<TxRDY, transmitter_enabled, UIMR, asserted>>
thr == <<thread, c, fd>>
out == <<result, changed>>
vars == <<rx, tx, thr, out, COS, lock, cpu>>

CpuPoints == {"execute", "URB", "UIPCR", "update", "send", "interrupt"}
ThreadPoints ==
  {"listen", "accept", "greeted", "read", "escape", "escape2",
   "store", "stored", "dropped", "close", "forget"}

Init ==
  /\ RxIRQ = FALSE /\ UMR_pointer = 0
  /\ RxRDY = FALSE /\ FFULL = FALSE
  /\ URB = [i \in 1 .. Depth |-> NUL] /\ URB_count = 0
  /\ TxRDY = FALSE /\ transmitter_enabled = FALSE
  /\ COS = FALSE /\ UIMR = {} /\ asserted = FALSE
  /\ fd = FALSE /\ lock = "free"
  /\ cpu = "execute" /\ result = NUL /\ changed = FALSE
  /\ thread = "listen" /\ c = NUL

-----------------------------------------------------------------------------
(* The serial thread blocked on the network: the peer decides when it goes on *)

\* accept returns a connection, and the greeting is sent to it.
Accept ==
  /\ thread = "accept"
  /\ fd' = TRUE
  /\ thread' = "greeted"
  /\ UNCHANGED <<rx, tx, c, out, COS, lock, cpu>>

Read(b) ==
  /\ thread = "read"
  /\ c' = IF b \in Chars THEN b ELSE NUL
  /\ thread' = IF b = NUL THEN "read" ELSE IF b = IAC THEN "escape" ELSE "store"
  /\ UNCHANGED <<rx, tx, fd, out, COS, lock, cpu>>

\* The two bytes after 255 are received and ignored, and so is an end of input.
Escape ==
  /\ thread \in {"escape", "escape2"}
  /\ thread' = IF thread = "escape" THEN "escape2" ELSE "read"
  /\ UNCHANGED <<rx, tx, c, fd, out, COS, lock, cpu>>

EndOfInput ==
  /\ thread = "read"
  /\ thread' = "close"
  /\ UNCHANGED <<rx, tx, c, fd, out, COS, lock, cpu>>

Receive == Escape \/ \E b \in Chars \cup {NUL, IAC} : Read(b)

Peer == Accept \/ Receive \/ EndOfInput

-----------------------------------------------------------------------------
(* The serial thread on its own *)

Listen ==
  /\ thread = "listen"
  /\ COS' = FALSE
  /\ thread' = "accept"
  /\ UNCHANGED <<rx, tx, c, fd, out, lock, cpu>>

Greeted ==
  /\ thread = "greeted"
  /\ COS' = TRUE
  /\ thread' = "read"
  /\ UNCHANGED <<rx, tx, c, fd, out, lock, cpu>>

\* A mutant: the mutex is not taken.
Store_unlocked ==
  /\ thread = "store"
  /\ lock' = lock
  /\ IF URB_count < Depth
     THEN URB' = [URB EXCEPT ![URB_count + 1] = c] /\ thread' = "stored"
     ELSE thread' = "dropped" /\ UNCHANGED URB
  /\ UNCHANGED <<RxIRQ, UMR_pointer, RxRDY, FFULL, URB_count, tx, c, fd, out, COS, cpu>>

\* A mutant: a full FIFO counts one more character.
Store_overrun ==
  /\ thread = "store"
  /\ lock = "free"
  /\ lock' = "thread"
  /\ URB' = [URB EXCEPT ![IF URB_count < Depth THEN URB_count + 1 ELSE Depth] = c]
  /\ thread' = "stored"
  /\ UNCHANGED <<RxIRQ, UMR_pointer, RxRDY, FFULL, URB_count, tx, c, fd, out, COS, cpu>>

\* Take the mutex and put the character in the FIFO, or drop it ...
Store ==
  /\ thread = "store"
  /\ lock = "free"
  /\ lock' = "thread"
  /\ IF URB_count < Depth
     THEN URB' = [URB EXCEPT ![URB_count + 1] = c] /\ thread' = "stored"
     ELSE thread' = "dropped" /\ UNCHANGED URB
  /\ UNCHANGED <<RxIRQ, UMR_pointer, RxRDY, FFULL, URB_count, tx, c, fd, out, COS, cpu>>

\* ... then count it, set the status bits and release the mutex.
Flags ==
  /\ thread \in {"stored", "dropped"}
  /\ URB_count' = IF thread = "stored" THEN URB_count + 1 ELSE URB_count
  /\ RxRDY' = TRUE
  /\ FFULL' = (FFULL \/ URB_count' = Depth)
  /\ lock' = "free"
  /\ thread' = "read"
  /\ c' = NUL
  /\ UNCHANGED <<RxIRQ, UMR_pointer, URB, tx, fd, out, COS, cpu>>

Close ==
  /\ thread = "close"
  /\ thread' = "forget"
  /\ UNCHANGED <<rx, tx, c, fd, out, COS, lock, cpu>>

Forget ==
  /\ thread = "forget"
  /\ fd' = FALSE
  /\ thread' = "listen"
  /\ UNCHANGED <<rx, tx, c, out, COS, lock, cpu>>

SerialThread == Listen \/ Greeted \/ Store \/ Flags \/ Close \/ Forget

-----------------------------------------------------------------------------
(* The guest's register accesses: serial_read and serial_write *)

\* An access that takes and releases the mutex within one step.
Access ==
  /\ cpu = "execute"
  /\ lock = "free"
  /\ cpu' = "update"

OtherInstruction ==
  /\ cpu = "execute"
  /\ cpu' = "update"
  /\ UNCHANGED <<rx, tx, thr, out, COS, lock>>

\* UMR1 is written through a pointer that then selects UMR2, whose fields
\* nothing reads.
WriteUMR(irq) ==
  /\ Access
  /\ RxIRQ' = IF UMR_pointer = 0 THEN irq ELSE RxIRQ
  /\ UMR_pointer' = 1
  /\ UNCHANGED <<RxRDY, FFULL, URB, URB_count, tx, thr, out, COS, lock>>

\* The commands: the MISC field, then the TC field.
WriteUCR(misc, tc) ==
  LET kept    == misc # "reset transmitter"
      enabled == transmitter_enabled /\ kept
  IN
  /\ Access
  /\ UMR_pointer' = IF misc = "reset pointer" THEN 0 ELSE UMR_pointer
  /\ RxRDY' = (RxRDY /\ misc # "reset receiver")
  /\ FFULL' = (FFULL /\ misc # "reset receiver")
  /\ \/ tc = "enable" /\ ~enabled /\ transmitter_enabled' = TRUE /\ TxRDY' = TRUE
     \/ tc = "disable" /\ enabled /\ transmitter_enabled' = FALSE /\ TxRDY' = FALSE
     \/ /\ tc = "none" \/ (tc = "enable" /\ enabled) \/ (tc = "disable" /\ ~enabled)
        /\ transmitter_enabled' = enabled
        /\ TxRDY' = (TxRDY /\ kept)
  /\ UNCHANGED <<RxIRQ, URB, URB_count, UIMR, asserted, thr, out, COS, lock>>

WriteUTB ==
  /\ Access
  /\ TxRDY' = FALSE
  /\ UNCHANGED <<rx, transmitter_enabled, UIMR, asserted, thr, out, COS, lock>>

WriteUIMR(mask) ==
  /\ Access
  /\ UIMR' = mask
  /\ UNCHANGED <<rx, TxRDY, transmitter_enabled, asserted, thr, out, COS, lock>>

\* Read of the receive buffer: the FIFO is shifted ...
ReadURB ==
  /\ cpu = "execute"
  /\ lock = "free"
  /\ lock' = "cpu"
  /\ cpu' = "URB"
  /\ result' = URB[1]
  /\ URB' = [URB EXCEPT ![1] = URB[2], ![2] = URB[3]]
  /\ UNCHANGED <<RxIRQ, UMR_pointer, RxRDY, FFULL, URB_count, tx, thr, changed, COS>>

\* A mutant: the FIFO-full bit survives the read.
FinishReadURB_still_full ==
  /\ cpu = "URB"
  /\ cpu' = "update"
  /\ lock' = "free"
  /\ result' = NUL
  /\ URB_count' = IF URB_count = 0 THEN 0 ELSE URB_count - 1
  /\ RxRDY' = (RxRDY /\ URB_count' # 0)
  /\ UNCHANGED <<RxIRQ, UMR_pointer, FFULL, URB, tx, thr, changed, COS>>

\* ... then the count and the status bits follow, and the guest has the character.
FinishReadURB ==
  /\ cpu = "URB"
  /\ cpu' = "update"
  /\ lock' = "free"
  /\ result' = NUL
  /\ URB_count' = IF URB_count = 0 THEN 0 ELSE URB_count - 1
  /\ RxRDY' = (RxRDY /\ URB_count' # 0)
  /\ FFULL' = FALSE
  /\ UNCHANGED <<RxIRQ, UMR_pointer, URB, tx, thr, changed, COS>>

\* Read of UIPCR: the bit is fetched under the mutex, which the thread's own
\* writes of it do not take ...
ReadUIPCR ==
  /\ cpu = "execute"
  /\ lock = "free"
  /\ lock' = "cpu"
  /\ cpu' = "UIPCR"
  /\ changed' = COS
  /\ UNCHANGED <<rx, tx, thr, result, COS>>

\* ... and then cleared.
ClearCOS ==
  /\ cpu = "UIPCR"
  /\ cpu' = "update"
  /\ lock' = "free"
  /\ COS' = FALSE
  /\ changed' = FALSE
  /\ UNCHANGED <<rx, tx, thr, result>>

-----------------------------------------------------------------------------
(* serial_update *)

\* Nothing is done without a connection; a waiting character is sent first.
Update ==
  /\ cpu = "update"
  /\ cpu' = IF ~fd THEN "execute"
            ELSE IF transmitter_enabled /\ ~TxRDY THEN "send"
            ELSE "interrupt"
  /\ UNCHANGED <<rx, tx, thr, out, COS, lock>>

\* A mutant: the transmitter is not made ready again.
Send_not_ready ==
  /\ cpu = "send"
  /\ cpu' = "interrupt"
  /\ UNCHANGED <<rx, tx, thr, out, COS, lock>>

\* send(2): the transmitter is ready again, whether or not there still is a
\* descriptor to send to.
Send ==
  /\ cpu = "send"
  /\ cpu' = "interrupt"
  /\ TxRDY' = TRUE
  /\ UNCHANGED <<rx, transmitter_enabled, UIMR, asserted, thr, out, COS, lock>>

\* A mutant: the receive interrupt waits for a full FIFO in both modes.
InterruptCondition_full_only ==
  \/ "TxRDY" \in UIMR /\ TxRDY
  \/ "FFULL" \in UIMR /\ FFULL

\* The conditions that turn the interrupt on, or leave it on.
InterruptCondition ==
  \/ "TxRDY" \in UIMR /\ TxRDY
  \/ "FFULL" \in UIMR /\ ~RxIRQ /\ RxRDY
  \/ "FFULL" \in UIMR /\ RxIRQ /\ FFULL

Interrupt ==
  /\ cpu = "interrupt"
  /\ lock = "free"
  /\ asserted' = InterruptCondition
  /\ cpu' = "execute"
  /\ UNCHANGED <<rx, TxRDY, transmitter_enabled, UIMR, thr, out, COS, lock>>

-----------------------------------------------------------------------------

Processor ==
  \/ OtherInstruction
  \/ \E irq \in Modes : WriteUMR(irq)
  \/ \E cmd \in Commands : WriteUCR(cmd[1], cmd[2])
  \/ WriteUTB
  \/ \E mask \in Masks : WriteUIMR(mask)
  \/ ReadURB \/ FinishReadURB
  \/ ReadUIPCR \/ ClearCOS
  \/ Update \/ Send \/ Interrupt

Next == Peer \/ SerialThread \/ Processor

Spec == Init /\ [][Next]_vars

\* The run loop never stops stepping, and neither does the serial thread unless
\* it waits for the network or the mutex.  The peer and the guest are free.
Fairness == WF_vars(SerialThread) /\ WF_vars(Processor)

FairSpec == Spec /\ Fairness

(* Two operations leave the registers and the mutex in states that nothing *)
(* else does, and are kept out of Next.                                    *)

\* A read of the command register's address fails with the mutex held.
ReadDoNotAccess ==
  /\ cpu = "execute"
  /\ lock = "free"
  /\ lock' = "cpu"
  /\ cpu' = "update"
  /\ UNCHANGED <<rx, tx, thr, out, COS>>

\* serial_reset, from the monitor: the FIFO is emptied, without the mutex, and
\* the status bits stay as they are.
serial_reset ==
  /\ cpu = "execute"
  /\ RxIRQ' = FALSE
  /\ URB' = [URB EXCEPT ![1] = NUL]
  /\ URB_count' = 0
  /\ UNCHANGED <<UMR_pointer, RxRDY, FFULL, tx, thr, out, COS, lock, cpu>>

RawNext == Next \/ ReadDoNotAccess \/ serial_reset

RawSpec == Init /\ [][RawNext]_vars

-----------------------------------------------------------------------------
(* Properties *)

TypeOK ==
  /\ {RxIRQ, RxRDY, FFULL, TxRDY, COS, fd} \subseteq BOOLEAN
  /\ {transmitter_enabled, asserted, changed} \subseteq BOOLEAN
  /\ UMR_pointer \in {0, 1}
  /\ URB \in [1 .. Depth -> Chars \cup {NUL}]
  /\ URB_count \in 0 .. Depth
  /\ UIMR \subseteq {"FFULL", "TxRDY"}
  /\ lock \in {"free", "cpu", "thread"}
  /\ cpu \in CpuPoints
  /\ thread \in ThreadPoints
  /\ {c, result} \subseteq Chars \cup {NUL}

\* Outside the critical sections the status register does not promise what the
\* FIFO does not hold: a ready receiver has a character and a full one has three.
StatusIsTruthful ==
  lock = "free" =>
    /\ RxRDY => URB_count > 0
    /\ FFULL => URB_count = Depth

Fifo ==
  INSTANCE UartFifo WITH
    arriving <- c,
    queue <- SubSeq(URB, 1, IF cpu = "URB" /\ URB_count > 0 THEN URB_count - 1
                                                           ELSE URB_count),
    output <- result

\* The array, the count and the mutex implement a FIFO of three characters that
\* loses nothing but what arrives when it is full.
ImplementsFifo == Fifo!Spec

\* A peer that sooner or later pauses, which leaves the mutex to the processor.
PeerPauses == <>[][~Receive]_vars

\* A character given to an enabled transmitter is sent while a peer is connected
\* (or the guest disables the transmitter again): serial_update is not starved.
TransmitterDrains ==
  PeerPauses =>
    ((fd /\ transmitter_enabled /\ ~TxRDY) ~> (TxRDY \/ ~transmitter_enabled \/ ~fd))

\* A received character interrupts a guest that has asked for it, unless the
\* guest changes its mind or the connection goes away first.
ReceiverInterrupts ==
  LET wanted == fd /\ RxRDY /\ ~RxIRQ /\ "FFULL" \in UIMR
  IN PeerPauses => (wanted ~> (asserted \/ ~wanted))

\* serial_update is "in charge of asserting, or withdrawing the serial interrupt":
\* an interrupt whose condition is gone does not stay asserted.
InterruptIsWithdrawn ==
  PeerPauses => ((asserted /\ ~InterruptCondition) ~> (~asserted \/ InterruptCondition))

\* A read of UIPCR "should clear the COS (change of state) if it was asserted":
\* it does not clear a change that the guest has not been shown.
ChangeIsNotLost ==
  [][(ClearCOS /\ COS) => changed]_vars
=============================================================================
