------------------------------ MODULE JtagUart ------------------------------
(***************************************************************************)
(* The console of the processor: the interrupt driven driver of the JTAG   *)
(* UART (altera_avalon_jtag_uart_init.c, _read.c, _write.c, _ioctl.c), the *)
(* device with its two FIFOs, and the host at the other end of the cable.  *)
(*                                                                         *)
(* The program makes one call at a time; the interrupt routine stops it    *)
(* between any two of its accesses to the shared indices and runs to its   *)
(* end.  The host types and takes at any moment.  Characters are told by   *)
(* their number: the k-th character typed, or accepted by write(), is k.   *)
(***************************************************************************)
EXTENDS Integers, FiniteSets

CONSTANTS BUF_LEN,          \* ALTERA_AVALON_JTAG_UART_BUF_LEN
          FIFO,             \* characters a FIFO of the device holds
          DEFAULT_TIMEOUT,  \* seconds until a silent host counts as absent
          INT_MAX,          \* largest int: "there is no alarm"
          MAXCALL,          \* bound: characters asked for in one call
          MAXIN,            \* bound: characters the host types
          MAXOUT            \* bound: characters the program writes

ASSUME BufAssumption     == BUF_LEN \in Nat /\ BUF_LEN >= 2
ASSUME FifoAssumption    == FIFO \in Nat \ {0}
ASSUME BoundAssumption   == MAXCALL \in Nat /\ MAXIN \in Nat /\ MAXOUT \in Nat
ASSUME TimeoutAssumption == /\ DEFAULT_TIMEOUT \in Nat \ {0}
                            /\ INT_MAX \in Nat
                            /\ DEFAULT_TIMEOUT < INT_MAX - 1

VARIABLES
  rx_in, rx_out, rx_buf,    \* ring from the interrupt routine to read()
  tx_in, tx_out, tx_buf,    \* ring from write() to the interrupt routine
  irq_enable,               \* the driver's copy of the enable bits
  host_inactive, timeout,   \* seconds of silence, and how many are too many
  typed, taken,             \* characters into and out of the receive FIFO
  sent, drained, wire,      \* ... of the transmit FIFO, and what went in
  ac,                       \* AC: the host has touched the device
  isr,                      \* the interrupt routine: its place and locals
  call,                     \* the program: its call, the place and locals
  got, heard,               \* what read() has delivered, and how much
  put                       \* how much write() has accepted

rx     == <<rx_in, rx_out, rx_buf>>
tx     == <<tx_in, tx_out, tx_buf>>
device == <<typed, taken, sent, drained, wire, ac>>
host   == <<host_inactive, timeout>>
caller == <<got, heard, put>>
vars   == <<rx, tx, irq_enable, host, device, isr, call, caller>>

Slots == 0 .. BUF_LEN - 1
Wrap(i) == i % BUF_LEN
Least(a, b) == IF a < b THEN a ELSE b

(* The routine is not running; the program is not in a call.               *)
NoIsr  == [at |-> "none", wi |-> FALSE, space |-> 0, ravail |-> FALSE]
NoCall == [at |-> "none", left |-> 0, moved |-> 0, seen |-> 0, n |-> 0, nonblock |-> FALSE]

Init ==
  /\ rx_in = 0 /\ rx_out = 0 /\ rx_buf = [i \in Slots |-> 0]
  /\ tx_in = 0 /\ tx_out = 0 /\ tx_buf = [i \in Slots |-> 0]
  /\ irq_enable = {"RE"}
  /\ host_inactive = 0
  /\ timeout \in {DEFAULT_TIMEOUT, INT_MAX}       \* INT_MAX: alt_alarm_start() failed
  /\ typed \in 0 .. Least(FIFO, MAXIN) /\ taken = 0
  /\ sent = 0 /\ drained = 0 /\ wire = [k \in 1 .. MAXOUT |-> 0]
  /\ ac \in BOOLEAN
  /\ isr = NoIsr /\ call = NoCall
  /\ got = 0 /\ heard = [k \in 1 .. MAXIN |-> 0] /\ put = 0

-----------------------------------------------------------------------------
(* The host: it types and takes characters whenever it likes.              *)

Type ==
  /\ typed < MAXIN /\ typed - taken < FIFO
  /\ typed' = typed + 1 /\ ac' = TRUE
  /\ UNCHANGED <<rx, tx, irq_enable, host, taken, sent, drained, wire, isr, call, caller>>

Take ==
  /\ drained < sent
  /\ drained' = drained + 1 /\ ac' = TRUE
  /\ UNCHANGED <<rx, tx, irq_enable, host, typed, taken, sent, wire, isr, call, caller>>

(* The interrupts pending in the device's control register.                *)
RI == "RE" \in irq_enable /\ taken < typed
WI == "WE" \in irq_enable /\ sent - drained < FIFO

-----------------------------------------------------------------------------
(* The interrupt routine.                                                  *)

Interrupt ==
  /\ isr.at = "none" /\ (RI \/ WI)
  /\ isr' = [NoIsr EXCEPT !.at = "top"]
  /\ UNCHANGED <<rx, tx, irq_enable, host, device, call, caller>>

(* Reads the control register; returns when nothing is left to do.         *)
IsrTop ==
  /\ isr.at = "top"
  /\ isr' = IF ~RI /\ ~WI THEN NoIsr
            ELSE [at |-> IF RI THEN "rx" ELSE "tx", wi |-> WI,
                  space |-> IF WI THEN FIFO - (sent - drained) ELSE 0, ravail |-> RI]
  /\ UNCHANGED <<rx, tx, irq_enable, host, device, call, caller>>

RxFull == Wrap(rx_in + 1) = rx_out

(* One character from the FIFO to the ring.                                *)
IsrReceive ==
  /\ isr.at = "rx" /\ ~RxFull /\ taken < typed
  /\ rx_buf' = [rx_buf EXCEPT ![rx_in] = taken + 1]
  /\ rx_in' = Wrap(rx_in + 1)
  /\ taken' = taken + 1
  /\ isr' = [isr EXCEPT !.ravail = taken + 1 < typed]
  /\ UNCHANGED <<rx_out, tx, irq_enable, host, typed, sent, drained, wire, ac, call, caller>>

(* The ring is full, or the FIFO empty.  What the last word read said of   *)
(* the FIFO decides about RE; at first it is taken to hold something.      *)
IsrReceived ==
  /\ isr.at = "rx" /\ (RxFull \/ taken = typed)
  /\ LET ravail == RxFull /\ isr.ravail
     IN  irq_enable' = IF ravail THEN irq_enable \ {"RE"} ELSE irq_enable
  /\ isr' = [isr EXCEPT !.at = IF isr.wi THEN "tx" ELSE "top", !.ravail = FALSE]
  /\ UNCHANGED <<rx, tx, host, device, call, caller>>

(* One character from the ring to the FIFO, which drops it if it is full.  *)
IsrTransmit ==
  /\ isr.at = "tx" /\ isr.space > 0 /\ tx_out # tx_in
  /\ IF sent - drained < FIFO
       THEN wire' = [wire EXCEPT ![sent + 1] = tx_buf[tx_out]] /\ sent' = sent + 1
       ELSE UNCHANGED <<wire, sent>>
  /\ tx_out' = Wrap(tx_out + 1)
  /\ isr' = [isr EXCEPT !.space = isr.space - 1]
  /\ UNCHANGED <<rx, tx_in, tx_buf, irq_enable, host, typed, taken, drained, ac, call, caller>>

IsrTransmitted ==
  /\ isr.at = "tx" /\ (isr.space = 0 \/ tx_out = tx_in)
  /\ irq_enable' = IF isr.space > 0 THEN irq_enable \ {"WE"} ELSE irq_enable
  /\ isr' = [NoIsr EXCEPT !.at = "top"]
  /\ UNCHANGED <<rx, tx, host, device, call, caller>>

Isr == IsrTop \/ IsrReceive \/ IsrReceived \/ IsrTransmit \/ IsrTransmitted

(* The alarm, once a second, if the board has a system clock.              *)
Timeout ==
  /\ isr.at = "none" /\ timeout # INT_MAX
  /\ IF ac THEN host_inactive' = 0 /\ ac' = FALSE
     ELSE /\ host_inactive' = IF host_inactive < INT_MAX - 2 THEN host_inactive + 1
                              ELSE host_inactive
          /\ UNCHANGED ac
  /\ UNCHANGED <<rx, tx, irq_enable, timeout, typed, taken, sent, drained, wire, isr, call, caller>>

-----------------------------------------------------------------------------
(* read()                                                                  *)

Program(at) == isr.at = "none" /\ call.at = at

Read ==
  /\ Program("none")
  /\ \E space \in 0 .. MAXCALL, nonblock \in BOOLEAN :
       call' = [NoCall EXCEPT !.at = IF space > 0 THEN "read" ELSE "readEnd",
                              !.left = space, !.nonblock = nonblock]
  /\ UNCHANGED <<rx, tx, irq_enable, host, device, isr, caller>>

(* Looks at the indices once: everything up to rx_in or to the end of the  *)
(* ring.  When there is nothing the call waits, unless it has something or *)
(* may not wait.                                                           *)
ReadLook ==
  /\ Program("read")
  /\ LET n == IF rx_in >= rx_out THEN rx_in - rx_out ELSE BUF_LEN - rx_out
     IN  call' = [call EXCEPT !.seen = rx_in, !.n = Least(n, call.left),
                    !.at = CASE n > 0 -> "readCopy"
                             [] n = 0 /\ (call.moved > 0 \/ call.nonblock) -> "readEnd"
                             [] OTHER -> "readSpin"]
  /\ UNCHANGED <<rx, tx, irq_enable, host, device, isr, caller>>

ReadCopy ==
  /\ Program("readCopy")
  /\ heard' = [k \in 1 .. MAXIN |-> IF got < k /\ k <= got + call.n
                                    THEN rx_buf[rx_out + (k - got) - 1] ELSE heard[k]]
  /\ got' = got + call.n
  /\ call' = [call EXCEPT !.at = "readPublish", !.moved = call.moved + call.n,
                          !.left = call.left - call.n]
  /\ UNCHANGED <<rx, tx, irq_enable, host, device, isr, put>>

\* Mutant: what arrived while the call was copying is skipped.
ReadPublishAll ==
  /\ Program("readPublish")
  /\ rx_out' = rx_in
  /\ call' = [call EXCEPT !.at = IF call.left > 0 THEN "read" ELSE "readEnd", !.n = 0]
  /\ UNCHANGED <<rx_in, rx_buf, tx, irq_enable, host, device, isr, caller>>

ReadPublish ==
  /\ Program("readPublish")
  /\ rx_out' = Wrap(rx_out + call.n)
  /\ call' = [call EXCEPT !.at = IF call.left > 0 THEN "read" ELSE "readEnd", !.n = 0]
  /\ UNCHANGED <<rx_in, rx_buf, tx, irq_enable, host, device, isr, caller>>

ReadSpin ==
  /\ Program("readSpin")
  /\ call.seen # rx_in \/ host_inactive >= timeout
  /\ call' = [call EXCEPT !.at = IF call.seen # rx_in THEN "read" ELSE "readEnd"]
  /\ UNCHANGED <<rx, tx, irq_enable, host, device, isr, caller>>

\* Mutant: a call that has made room does not ask for interrupts again.
ReadEndQuietly ==
  /\ Program("readEnd")
  /\ call' = NoCall
  /\ UNCHANGED <<rx, tx, irq_enable, host, device, isr, caller>>

(* "If we read any data then there is space in the buffer so enable        *)
(* interrupts"; they are off while the bit is set.                         *)
ReadEnd ==
  /\ Program("readEnd")
  /\ irq_enable' = IF call.moved > 0 THEN irq_enable \cup {"RE"} ELSE irq_enable
  /\ call' = NoCall
  /\ UNCHANGED <<rx, tx, host, device, isr, caller>>

-----------------------------------------------------------------------------
(* write()                                                                 *)

Write ==
  /\ Program("none")
  /\ \E count \in 0 .. Least(MAXCALL, MAXOUT - put), nonblock \in BOOLEAN :
       call' = [NoCall EXCEPT !.at = IF count > 0 THEN "write" ELSE "writeKick",
                              !.left = count, !.nonblock = nonblock]
  /\ UNCHANGED <<rx, tx, irq_enable, host, device, isr, caller>>

(* One slot stays free, so that a full ring differs from an empty one.     *)
WriteLook ==
  /\ Program("write")
  /\ LET n == IF tx_in < tx_out THEN tx_out - 1 - tx_in
              ELSE IF tx_out > 0 THEN BUF_LEN - tx_in ELSE BUF_LEN - 1 - tx_in
     IN  call' = [call EXCEPT !.seen = tx_out, !.n = Least(n, call.left),
                              !.at = IF n > 0 THEN "writeCopy" ELSE "writeKick"]
  /\ UNCHANGED <<rx, tx, irq_enable, host, device, isr, caller>>

WriteCopy ==
  /\ Program("writeCopy")
  /\ tx_buf' = [i \in Slots |-> IF tx_in <= i /\ i < tx_in + call.n
                                THEN put + (i - tx_in) + 1 ELSE tx_buf[i]]
  /\ put' = put + call.n
  /\ call' = [call EXCEPT !.at = "writePublish", !.moved = call.moved + call.n,
                          !.left = call.left - call.n]
  /\ UNCHANGED <<rx, tx_in, tx_out, irq_enable, host, device, isr, got, heard>>

WritePublish ==
  /\ Program("writePublish")
  /\ tx_in' = Wrap(tx_in + call.n)
  /\ call' = [call EXCEPT !.at = IF call.left > 0 THEN "write" ELSE "writeKick", !.n = 0]
  /\ UNCHANGED <<rx, tx_out, tx_buf, irq_enable, host, device, isr, caller>>

(* WE is set "every time to make it transmit the data".                    *)
WriteKick ==
  /\ Program("writeKick")
  /\ irq_enable' = irq_enable \cup {"WE"}
  /\ call' = IF call.left > 0 /\ ~call.nonblock THEN [call EXCEPT !.at = "writeSpin"]
             ELSE NoCall
  /\ UNCHANGED <<rx, tx, host, device, isr, caller>>

(* Gives up if the host has been silent for one second or more, whatever   *)
(* ended the wait.                                                         *)
WriteSpin ==
  /\ Program("writeSpin")
  /\ call.seen # tx_out \/ host_inactive >= timeout
  /\ call' = IF host_inactive > 0 THEN NoCall ELSE [call EXCEPT !.at = "write"]
  /\ UNCHANGED <<rx, tx, irq_enable, host, device, isr, caller>>

-----------------------------------------------------------------------------
(* close() and ioctl()                                                     *)

Close ==
  /\ Program("none")
  /\ \E nonblock \in BOOLEAN :
       call' = [NoCall EXCEPT !.at = "close", !.nonblock = nonblock]
  /\ UNCHANGED <<rx, tx, irq_enable, host, device, isr, caller>>

(* Returns when the ring is drained, when the host is absent, or at once.  *)
CloseEnd ==
  /\ Program("close")
  /\ tx_out = tx_in \/ host_inactive >= timeout \/ call.nonblock
  /\ call' = NoCall
  /\ UNCHANGED <<rx, tx, irq_enable, host, device, isr, caller>>

(* TIOCSTIMEOUT; TIOCGCONNECTED changes nothing.                           *)
Ioctl ==
  /\ Program("none") /\ timeout # INT_MAX
  /\ \E arg \in {0, DEFAULT_TIMEOUT, DEFAULT_TIMEOUT + 1} :
       timeout' = IF arg >= 2 /\ arg < INT_MAX THEN arg ELSE INT_MAX - 1
  /\ UNCHANGED <<rx, tx, irq_enable, host_inactive, device, isr, call, caller>>

-----------------------------------------------------------------------------
Reading == ReadLook \/ ReadCopy \/ ReadPublish \/ ReadSpin \/ ReadEnd
Writing == WriteLook \/ WriteCopy \/ WritePublish \/ WriteKick \/ WriteSpin
Calls   == Read \/ Write \/ Close \/ Ioctl

Next == \/ Type \/ Take \/ Interrupt \/ Isr \/ Timeout
        \/ Reading \/ Writing \/ CloseEnd \/ Calls

Spec == Init /\ [][Next]_vars

(* The processor runs: it takes its interrupts and goes on with a call.    *)
(* Nothing is owed by the host or by the program between two calls.        *)
Fairness == WF_vars(Interrupt \/ Isr) /\ WF_vars(Reading \/ Writing \/ CloseEnd)
FairSpec == Spec /\ Fairness
-----------------------------------------------------------------------------
(* Nothing is lost, doubled or reordered, in either direction, whatever    *)
(* the interrupt routine comes between.                                    *)
InOrder ==
  /\ \A k \in 1 .. got  : heard[k] = k
  /\ \A k \in 1 .. sent : wire[k] = k

(* A call is held for ever by nothing but the host: a reader by one that   *)
(* has typed nothing more, a writer or close() by one that no longer takes *)
(* what the device holds for it.                                           *)
HeldOnlyByHost ==
  /\ <>[](call.at = "readSpin") => <>[](typed = got)
  /\ <>[](call.at \in {"writeSpin", "close"}) => <>[](sent - drained = FIFO)
-----------------------------------------------------------------------------
(* Why InOrder holds: what every step preserves, interrupts between any    *)
(* two of them.                                                            *)

(* Slots from a forward to b.                                              *)
Dist(a, b) == IF a <= b THEN b - a ELSE b - a + BUF_LEN

ReadAts  == {"read", "readCopy", "readPublish", "readSpin", "readEnd"}
WriteAts == {"write", "writeCopy", "writePublish", "writeKick", "writeSpin"}

IsrType  == [at : {"none", "top", "rx", "tx"}, wi : BOOLEAN, space : Nat, ravail : BOOLEAN]
CallType == [at : ReadAts \cup WriteAts \cup {"none", "close"}, left : Nat, moved : Nat,
             seen : Slots, n : Nat, nonblock : BOOLEAN]

(* Every variable has its type.                                            *)
UartTypeOK ==
  /\ rx_in \in Slots /\ rx_out \in Slots /\ rx_buf \in [Slots -> Nat]
  /\ tx_in \in Slots /\ tx_out \in Slots /\ tx_buf \in [Slots -> Nat]
  /\ irq_enable \subseteq {"RE", "WE"}
  /\ host_inactive \in Nat /\ timeout \in Nat /\ ac \in BOOLEAN
  /\ typed \in Nat /\ taken \in Nat /\ sent \in Nat /\ drained \in Nat
  /\ wire \in [1 .. MAXOUT -> Nat] /\ heard \in [1 .. MAXIN -> Nat]
  /\ got \in Nat /\ put \in Nat
  /\ isr \in IsrType /\ call \in CallType

(* Characters the program has copied out of the ring, or into it, without  *)
(* having said so yet.                                                     *)
Unread    == IF call.at = "readPublish" THEN call.n ELSE 0
Unwritten == IF call.at = "writePublish" THEN call.n ELSE 0

(* A call moves no more than is left of it, a writer no more than MAXOUT.  *)
Called ==
  /\ call.at \in {"readCopy", "writeCopy"} => call.n <= call.left
  /\ put <= MAXOUT /\ (call.at \in WriteAts => put + call.left <= MAXOUT)

(* What has been taken from the FIFO has been delivered, or is in the ring *)
(* in its order; a call copies what is there and in one piece.             *)
RxRing ==
  /\ taken <= typed /\ typed <= MAXIN
  /\ taken = got - Unread + Dist(rx_out, rx_in)
  /\ \A i \in Slots : Dist(rx_out, i) < Dist(rx_out, rx_in)
                        => rx_buf[i] = got - Unread + Dist(rx_out, i) + 1
  /\ call.at \in {"readCopy", "readPublish"} =>
       call.n <= Dist(rx_out, rx_in) /\ rx_out + call.n <= BUF_LEN

(* What has been accepted is in the FIFO, or in the ring in its order, or  *)
(* just behind it; a call writes where nothing waits to be sent.           *)
TxRing ==
  /\ put - Unwritten = sent + Dist(tx_out, tx_in)
  /\ \A i \in Slots : Dist(tx_out, i) < Dist(tx_out, tx_in) + Unwritten
                        => tx_buf[i] = sent + Dist(tx_out, i) + 1
  /\ call.at \in {"writeCopy", "writePublish"} =>
       call.n + Dist(tx_out, tx_in) < BUF_LEN /\ tx_in + call.n <= BUF_LEN

(* The routine sends no more than the FIFO had room for when it looked:    *)
(* nothing is dropped.                                                     *)
TxRoom == drained <= sent /\ isr.space <= FIFO - (sent - drained)

(* All of it: inductive, where InOrder alone is not.                        *)
UartInv == UartTypeOK /\ Called /\ RxRing /\ TxRing /\ TxRoom /\ InOrder
=============================================================================
