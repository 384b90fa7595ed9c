-------------------------- MODULE ProcessorProofs --------------------------
(***************************************************************************)
(* Proofs about JtagUart and Interrupts, and about the two as MCProcessor  *)
(* runs them: characters stay in order, for rings and FIFOs of every size  *)
(* and whatever the interrupt routine comes between; handlers interrupt    *)
(* each other in order, for every number of lines, requests, exceptions    *)
(* and nested sections.                                                    *)
(***************************************************************************)
EXTENDS MCProcessor, TLAPS, SequenceTheorems, WellFoundedInduction

-----------------------------------------------------------------------------
(* Distances in a ring                                                     *)

\* A slot that goes forward wraps at the end of the ring only.
LEMMA WrapFacts ==
  ASSUME NEW i \in Slots, NEW n \in Nat, i + n <= BUF_LEN
  PROVE  /\ Wrap(i + n) = IF i + n = BUF_LEN THEN 0 ELSE i + n
         /\ Wrap(i + n) \in Slots
<1>1. CASE i + n < BUF_LEN
  BY <1>1, BufAssumption, SMTT(30) DEF Wrap, Slots
<1>2. CASE i + n = BUF_LEN
  BY <1>2, BufAssumption, SMTT(30) DEF Wrap, Slots
<1> QED
  BY <1>1, <1>2, BufAssumption DEF Slots

\* A distance is less than the ring, and one slot lies at each.
LEMMA DistFacts ==
  ASSUME NEW a \in Slots, NEW b \in Slots
  PROVE  /\ Dist(a, b) \in Nat /\ Dist(a, b) < BUF_LEN
         /\ Dist(a, b) = 0 <=> a = b
         /\ \A i \in Slots : Dist(a, i) = Dist(a, b) => i = b
BY BufAssumption DEF Dist, Slots

\* What is taken out of a ring in one piece: the rest is where it was.
LEMMA TakenOut ==
  ASSUME NEW a \in Slots, NEW b \in Slots, NEW n \in Nat,
         n <= Dist(a, b), a + n <= BUF_LEN
  PROVE  /\ Wrap(a + n) \in Slots
         /\ Dist(Wrap(a + n), b) = Dist(a, b) - n
         /\ \A i \in Slots : Dist(Wrap(a + n), i) < BUF_LEN - n
                               => Dist(a, i) = Dist(Wrap(a + n), i) + n
BY WrapFacts, BufAssumption DEF Dist, Slots

\* What is put into a ring in one piece lies behind what is there.
LEMMA PutIn ==
  ASSUME NEW a \in Slots, NEW b \in Slots, NEW n \in Nat,
         n + Dist(a, b) < BUF_LEN, b + n <= BUF_LEN
  PROVE  /\ Wrap(b + n) \in Slots
         /\ Dist(a, Wrap(b + n)) = Dist(a, b) + n
         /\ \A i \in Slots : b <= i /\ i < b + n => Dist(a, i) = Dist(a, b) + (i - b)
         /\ \A i \in Slots : Dist(a, b) <= Dist(a, i) /\ Dist(a, i) < Dist(a, b) + n
                               => b <= i /\ i < b + n
BY WrapFacts, BufAssumption DEF Dist, Slots

\* One slot forward, and a ring that is not full.
LEMMA NextFacts ==
  ASSUME NEW a \in Slots, NEW b \in Slots
  PROVE  /\ b + 1 <= BUF_LEN /\ Wrap(b + 1) \in Slots
         /\ Wrap(b + 1) # a => Dist(a, b) + 1 < BUF_LEN
<1>1. b + 1 <= BUF_LEN
  BY BufAssumption DEF Slots
<1> QED
  BY <1>1, WrapFacts, BufAssumption DEF Dist, Slots

-----------------------------------------------------------------------------
(* The first state                                                         *)

\* A routine that does not run, and no call, have their types.
LEMMA NoneTyped == NoIsr \in IsrType /\ NoCall \in CallType
BY BufAssumption DEF NoIsr, NoCall, IsrType, CallType, Slots

\* The driver starts with empty rings, the host perhaps ahead of it.
LEMMA InitInv == Init => UartInv
<1> SUFFICES ASSUME Init PROVE UartInv
  OBVIOUS
<1>0. 0 \in Slots /\ Dist(0, 0) = 0 /\ BUF_LEN \in Nat
  BY BufAssumption DEF Slots, Dist
<1>1. UartTypeOK
  <2>1. typed \in Nat /\ timeout \in Nat /\ 0 .. Least(FIFO, MAXIN) \subseteq Nat
    BY TimeoutAssumption DEF Init
  <2> QED
    BY <1>0, <2>1, NoneTyped DEF Init, UartTypeOK
<1>2. RxRing
  <2>1. typed <= MAXIN
    BY FifoAssumption, BoundAssumption DEF Init, Least
  <2> QED
    BY <1>0, <1>1, <2>1, DistFacts DEF Init, RxRing, Unread, NoCall, UartTypeOK
<1>3. TxRing /\ Called
  BY <1>0, <1>1, DistFacts, BoundAssumption
    DEF Init, TxRing, Called, Unwritten, NoCall, UartTypeOK, WriteAts
<1>4. TxRoom /\ InOrder
  BY <1>1, FifoAssumption DEF Init, TxRoom, InOrder, NoIsr
<1> QED
  BY <1>1, <1>2, <1>3, <1>4 DEF UartInv

-----------------------------------------------------------------------------
(* What the types say of the parts of a call and of the routine            *)

\* The locals of a call and of the routine are numbers.
LEMMA Parts ==
  ASSUME UartTypeOK
  PROVE  /\ call.at \in ReadAts \cup WriteAts \cup {"none", "close"} /\ call.seen \in Slots
         /\ call.left \in Nat /\ call.moved \in Nat /\ call.n \in Nat
         /\ isr.space \in Nat
         /\ Unread \in Nat /\ Unwritten \in Nat
BY DEF UartTypeOK, CallType, IsrType, Unread, Unwritten

\* The indices are slots, their distances numbers.
LEMMA Indices ==
  ASSUME UartTypeOK
  PROVE  /\ BUF_LEN \in Nat /\ Slots \subseteq Nat
         /\ rx_in \in Slots /\ rx_out \in Slots /\ tx_in \in Slots /\ tx_out \in Slots
         /\ Dist(rx_out, rx_in) \in Nat /\ Dist(tx_out, tx_in) \in Nat
<1>1. rx_in \in Slots /\ rx_out \in Slots /\ tx_in \in Slots /\ tx_out \in Slots
  BY DEF UartTypeOK
<1>2. BUF_LEN \in Nat /\ Slots \subseteq Nat
  BY BufAssumption DEF Slots
<1> QED
  BY <1>1, <1>2, DistFacts

\* The FIFO holds no more than it can, and the routine knows of no more room.
LEMMA Room ==
  ASSUME UartInv
  PROVE  /\ sent \in Nat /\ drained \in Nat /\ drained <= sent
         /\ isr.space \in Nat /\ isr.space <= FIFO - (sent - drained)
         /\ sent - drained \in Nat /\ sent - drained <= FIFO
         /\ FIFO - (sent - drained) \in Nat
<1>1. sent \in Nat /\ drained \in Nat
  BY DEF UartInv, UartTypeOK
<1>2. isr.space \in Nat
  BY Parts DEF UartInv
<1>3. drained <= sent /\ isr.space <= FIFO - (sent - drained)
  BY DEF UartInv, TxRoom
<1> QED
  BY <1>1, <1>2, <1>3, FifoAssumption

-----------------------------------------------------------------------------
(* Steps that leave a ring alone                                           *)

\* A step that touches neither ring nor counts keeps the receive ring.
LEMMA RxKept ==
  ASSUME UartTypeOK, UartTypeOK', RxRing, UNCHANGED <<rx, typed, taken, got>>, Unread' = Unread,
         call'.at \in {"readCopy", "readPublish"} =>
           call'.n <= Dist(rx_out, rx_in) /\ rx_out + call'.n <= BUF_LEN
  PROVE  RxRing'
BY DEF RxRing, rx

\* And the transmit ring.
LEMMA TxKept ==
  ASSUME UartTypeOK, UartTypeOK', TxRing, UNCHANGED <<tx, sent, put>>, Unwritten' = Unwritten,
         call'.at \in {"writeCopy", "writePublish"} =>
           call'.n + Dist(tx_out, tx_in) < BUF_LEN /\ tx_in + call'.n <= BUF_LEN
  PROVE  TxRing'
BY DEF TxRing, tx

-----------------------------------------------------------------------------
(* The host and the alarm                                                  *)

\* The host types: the FIFO holds more, the ring what it held.
LEMMA TypeInv == UartInv /\ Type => UartInv'
<1> SUFFICES ASSUME UartInv, Type PROVE UartInv'
  OBVIOUS
<1>1. UartTypeOK'
  BY DEF UartInv, UartTypeOK, Type, rx, tx, host, caller
<1>2. RxRing'
  <2>1. taken <= typed' /\ typed' <= MAXIN
    BY BoundAssumption DEF UartInv, UartTypeOK, Type, RxRing
  <2>2. UNCHANGED <<rx_in, rx_out, rx_buf, taken, got, call>> /\ Unread' = Unread
    BY DEF Type, rx, caller, Unread
  <2> QED
    BY <2>1, <2>2 DEF UartInv, RxRing
<1>3. TxRing'
  BY <1>1, TxKept DEF UartInv, Type, Unwritten, TxRing, caller
<1>4. TxRoom' /\ InOrder'
  BY DEF UartInv, Type, TxRoom, InOrder, caller
<1>5. Called'
  BY DEF UartInv, Type, Called, caller
<1> QED
  BY <1>1, <1>2, <1>3, <1>4, <1>5 DEF UartInv

\* The host takes: the FIFO has more room than the routine looked for.
LEMMA TakeInv == UartInv /\ Take => UartInv'
<1> SUFFICES ASSUME UartInv, Take PROVE UartInv'
  OBVIOUS
<1>1. UartTypeOK'
  BY DEF UartInv, UartTypeOK, Take, rx, tx, host, caller
<1>2. RxRing'
  BY <1>1, RxKept DEF UartInv, Take, Unread, RxRing, caller
<1>3. TxRing'
  BY <1>1, TxKept DEF UartInv, Take, Unwritten, TxRing, caller
<1>4. TxRoom'
  <2>1. drained < sent /\ drained' = drained + 1 /\ UNCHANGED <<sent, isr>>
    BY DEF Take
  <2> QED
    BY <2>1, Room, FifoAssumption DEF TxRoom
<1>5. InOrder'
  BY DEF UartInv, Take, InOrder, caller
<1>6. Called'
  BY DEF UartInv, Take, Called, caller
<1> QED
  BY <1>1, <1>2, <1>3, <1>4, <1>5, <1>6 DEF UartInv

\* The alarm changes what is known of the host only.
LEMMA TimeoutInv == UartInv /\ Timeout => UartInv'
<1> SUFFICES ASSUME UartInv, Timeout PROVE UartInv'
  OBVIOUS
<1>1. UartTypeOK'
  <2>1. host_inactive' \in Nat
    BY DEF UartInv, UartTypeOK, Timeout
  <2>2. ac' \in BOOLEAN
    BY DEF UartInv, UartTypeOK, Timeout
  <2> QED
    BY <2>1, <2>2 DEF UartInv, UartTypeOK, Timeout, rx, tx, caller
<1>2. RxRing'
  BY <1>1, RxKept DEF UartInv, Timeout, Unread, RxRing, caller
<1>3. TxRing'
  BY <1>1, TxKept DEF UartInv, Timeout, Unwritten, TxRing, caller
<1>4. TxRoom' /\ InOrder'
  BY DEF UartInv, Timeout, TxRoom, InOrder, caller
<1>5. Called'
  BY DEF UartInv, Timeout, Called, caller
<1> QED
  BY <1>1, <1>2, <1>3, <1>4, <1>5 DEF UartInv

-----------------------------------------------------------------------------
(* The interrupt routine                                                   *)

\* The routine begins, and has not yet looked for room.
LEMMA InterruptInv == UartInv /\ Interrupt => UartInv'
<1> SUFFICES ASSUME UartInv, Interrupt PROVE UartInv'
  OBVIOUS
<1>1. isr' \in IsrType /\ isr'.space = 0
  BY NoneTyped DEF Interrupt, IsrType, NoIsr
<1>2. UartTypeOK'
  BY <1>1 DEF UartInv, UartTypeOK, Interrupt, rx, tx, host, device, caller
<1>3. RxRing'
  BY <1>2, RxKept DEF UartInv, Interrupt, Unread, RxRing, device, caller
<1>4. TxRing'
  BY <1>2, TxKept DEF UartInv, Interrupt, Unwritten, TxRing, device, caller
<1>5. TxRoom' /\ InOrder'
  <2>1. UNCHANGED <<sent, drained, got, heard, wire>>
    BY DEF Interrupt, device, caller
  <2>2. TxRoom'
    BY <1>1, <2>1, Room DEF TxRoom
  <2> QED
    BY <2>1, <2>2 DEF UartInv, InOrder
<1>6. Called'
  BY DEF UartInv, Interrupt, Called, caller
<1> QED
  BY <1>2, <1>3, <1>4, <1>5, <1>6 DEF UartInv

\* The routine looks: the room it finds is the room there is.
LEMMA IsrTopInv == UartInv /\ IsrTop => UartInv'
<1> SUFFICES ASSUME UartInv, IsrTop PROVE UartInv'
  OBVIOUS
<1>1. sent - drained <= FIFO /\ FIFO - (sent - drained) \in Nat
  BY Room
<1>2. isr' \in IsrType
  <2>1. RI \in BOOLEAN /\ WI \in BOOLEAN
    BY Zenon DEF RI, WI
  <2> QED
    BY <1>1, <2>1, NoneTyped DEF IsrTop, IsrType
<1>3. isr'.space = 0 \/ isr'.space = FIFO - (sent - drained)
  BY DEF IsrTop, NoIsr
<1>4. UartTypeOK'
  BY <1>2 DEF UartInv, UartTypeOK, IsrTop, rx, tx, host, device, caller
<1>5. RxRing'
  BY <1>4, RxKept DEF UartInv, IsrTop, Unread, RxRing, device, caller
<1>6. TxRing'
  BY <1>4, TxKept DEF UartInv, IsrTop, Unwritten, TxRing, device, caller
<1>7. TxRoom' /\ InOrder'
  <2>1. UNCHANGED <<sent, drained, got, heard, wire>>
    BY DEF IsrTop, device, caller
  <2>2. TxRoom'
    BY <1>3, <2>1, Room DEF TxRoom
  <2> QED
    BY <2>1, <2>2 DEF UartInv, InOrder
<1>8. Called'
  BY DEF UartInv, IsrTop, Called, caller
<1> QED
  BY <1>4, <1>5, <1>6, <1>7, <1>8 DEF UartInv

\* A character received lies behind those in the ring.
LEMMA IsrReceiveInv == UartInv /\ IsrReceive => UartInv'
<1> SUFFICES ASSUME UartInv, IsrReceive PROVE UartInv'
  OBVIOUS
<1>1. UartTypeOK
  BY DEF UartInv
<1>2. UartTypeOK'
  <2>1. rx_in' \in Slots
    BY <1>1, NextFacts, Indices DEF IsrReceive
  <2>2. rx_buf' \in [Slots -> Nat] /\ taken' \in Nat
    <3>1. rx_buf \in [Slots -> Nat] /\ taken + 1 \in Nat
      BY <1>1 DEF UartTypeOK
    <3>2. rx_buf' = [rx_buf EXCEPT ![rx_in] = taken + 1] /\ taken' = taken + 1
      BY DEF IsrReceive
    <3> QED
      BY <3>1, <3>2
  <2>3. isr' \in IsrType
    <3>1. (taken + 1 < typed) \in BOOLEAN
      OBVIOUS
    <3> QED
      BY <1>1, <3>1 DEF UartTypeOK, IsrReceive, IsrType
  <2> QED
    BY <1>1, <2>1, <2>2, <2>3 DEF UartTypeOK, IsrReceive, tx, host, caller
<1>3. RxRing'
  <2>1. UNCHANGED <<rx_out, typed, got, call>> /\ taken' = taken + 1 /\ Unread' = Unread
    BY DEF IsrReceive, caller, Unread
  <2>2. 1 + Dist(rx_out, rx_in) < BUF_LEN /\ rx_in + 1 <= BUF_LEN
    BY <1>1, NextFacts, Indices DEF IsrReceive, RxFull
  <2>3. Dist(rx_out, rx_in') = Dist(rx_out, rx_in) + 1
    BY <1>1, <2>2, PutIn, Indices DEF IsrReceive
  <2>4. taken + 1 <= typed /\ typed <= MAXIN
    BY <1>1 DEF UartInv, UartTypeOK, RxRing, IsrReceive
  <2>5. taken = got - Unread + Dist(rx_out, rx_in) /\ got \in Nat /\ taken \in Nat
    BY <1>1 DEF UartInv, UartTypeOK, RxRing
  <2>6. ASSUME NEW i \in Slots, Dist(rx_out, i) < Dist(rx_out, rx_in')
        PROVE  rx_buf'[i] = got - Unread + Dist(rx_out, i) + 1
    <3>1. CASE i = rx_in
      BY <1>1, <2>5, <3>1, Indices, Parts DEF UartTypeOK, IsrReceive
    <3>2. CASE i # rx_in
      <4>1. Dist(rx_out, i) < Dist(rx_out, rx_in)
        BY <1>1, <2>3, <2>6, <3>2, DistFacts, Indices
      <4>2. rx_buf'[i] = rx_buf[i]
        BY <1>1, <3>2 DEF UartTypeOK, IsrReceive
      <4> QED
        BY <4>1, <4>2 DEF UartInv, RxRing
    <3> QED
      BY <3>1, <3>2
  <2>7. taken + 1 = got - Unread + Dist(rx_out, rx_in')
    BY <1>1, <2>3, <2>5, Indices, Parts
  <2>8. call.at \in {"readCopy", "readPublish"} => call.n <= Dist(rx_out, rx_in')
    BY <1>1, <2>3, Indices, Parts DEF UartInv, RxRing
  <2> QED
    BY <2>1, <2>4, <2>6, <2>7, <2>8 DEF UartInv, RxRing
<1>4. TxRing'
  BY <1>1, <1>2, TxKept DEF UartInv, IsrReceive, Unwritten, TxRing, caller
<1>5. TxRoom' /\ InOrder'
  <2>1. isr'.space = isr.space
    BY <1>1 DEF UartTypeOK, IsrReceive, IsrType
  <2> QED
    BY <2>1 DEF UartInv, IsrReceive, TxRoom, InOrder, caller
<1>6. Called'
  BY DEF UartInv, IsrReceive, Called, caller
<1> QED
  BY <1>2, <1>3, <1>4, <1>5, <1>6 DEF UartInv

\* The routine is done with the receiver: the enable bit only.
LEMMA IsrReceivedInv == UartInv /\ IsrReceived => UartInv'
<1> SUFFICES ASSUME UartInv, IsrReceived PROVE UartInv'
  OBVIOUS
<1>1. isr' \in IsrType /\ isr'.space = isr.space
  BY DEF UartInv, UartTypeOK, IsrReceived, IsrType
<1>2. UartTypeOK'
  BY <1>1 DEF UartInv, UartTypeOK, IsrReceived, rx, tx, host, device, caller
<1>3. RxRing'
  BY <1>2, RxKept DEF UartInv, IsrReceived, Unread, RxRing, device, caller
<1>4. TxRing'
  BY <1>2, TxKept DEF UartInv, IsrReceived, Unwritten, TxRing, device, caller
<1>5. TxRoom' /\ InOrder'
  BY <1>1 DEF UartInv, IsrReceived, TxRoom, InOrder, device, caller
<1>6. Called'
  BY DEF UartInv, IsrReceived, Called, caller
<1> QED
  BY <1>2, <1>3, <1>4, <1>5, <1>6 DEF UartInv

\* What the routine sends is the next character, and there is room for it.
LEMMA NextSent ==
  ASSUME UartInv, IsrTransmit
  PROVE  /\ sent' = sent + 1 /\ wire' = [wire EXCEPT ![sent + 1] = sent + 1]
         /\ sent + 1 <= MAXOUT /\ isr.space > 0
         /\ tx_out' \in Slots /\ Dist(tx_out', tx_in) = Dist(tx_out, tx_in) - 1
         /\ \A i \in Slots : Dist(tx_out', i) < BUF_LEN - 1
                               => Dist(tx_out, i) = Dist(tx_out', i) + 1
<1>1. UartTypeOK
  BY DEF UartInv
<1>2. tx_out # tx_in /\ tx_out + 1 <= BUF_LEN /\ isr.space > 0
  BY <1>1, NextFacts, Indices DEF IsrTransmit
<1>3. Dist(tx_out, tx_in) >= 1 /\ Dist(tx_out, tx_out) = 0
  BY <1>1, <1>2, DistFacts, Indices
<1>4. sent - drained < FIFO /\ sent \in Nat /\ put \in Nat
  <2>1. put \in Nat
    BY <1>1 DEF UartTypeOK
  <2> QED
    BY <1>2, <2>1, Room, FifoAssumption
<1>5. tx_buf[tx_out] = sent + 1
  <2>1. Dist(tx_out, tx_out) < Dist(tx_out, tx_in) + Unwritten
    BY <1>1, <1>3, Indices, Parts
  <2> QED
    BY <1>1, <1>3, <1>4, <2>1, Indices DEF UartInv, TxRing
<1>6. sent + 1 <= MAXOUT
  BY <1>1, <1>3, <1>4, Indices, Parts, BoundAssumption DEF UartInv, TxRing, Called
<1>7. tx_out' = Wrap(tx_out + 1)
  BY DEF IsrTransmit
<1>8. sent' = sent + 1 /\ wire' = [wire EXCEPT ![sent + 1] = sent + 1]
  BY <1>4, <1>5 DEF IsrTransmit
<1> QED
  BY <1>1, <1>2, <1>3, <1>6, <1>7, <1>8, Indices, TakenOut

\* A character sent is the oldest of the ring, and takes one place of the room.
LEMMA IsrTransmitInv == UartInv /\ IsrTransmit => UartInv'
<1> SUFFICES ASSUME UartInv, IsrTransmit PROVE UartInv'
  OBVIOUS
<1>1. UartTypeOK
  BY DEF UartInv
<1>2. isr' \in IsrType /\ isr'.space = isr.space - 1
  <2>1. isr.space - 1 \in Nat
    BY <1>1, NextSent, Parts
  <2> QED
    BY <1>1, <2>1 DEF UartTypeOK, IsrTransmit, IsrType
<1>3. UartTypeOK'
  <2>1. wire' \in [1 .. MAXOUT -> Nat] /\ sent' \in Nat
    BY <1>1, NextSent DEF UartTypeOK
  <2> QED
    BY <1>1, <1>2, <2>1, NextSent DEF UartTypeOK, IsrTransmit, rx, host, caller
<1>4. RxRing'
  BY <1>1, <1>3, RxKept DEF UartInv, IsrTransmit, Unread, RxRing, caller
<1>5. TxRing'
  <2>1. UNCHANGED <<tx_in, tx_buf, put, call>> /\ Unwritten' = Unwritten
    BY DEF IsrTransmit, caller, Unwritten
  <2>2. Unwritten + Dist(tx_out, tx_in) < BUF_LEN
    BY <1>1, DistFacts, Indices DEF UartInv, TxRing, Unwritten
  <2>3. ASSUME NEW i \in Slots, Dist(tx_out', i) < Dist(tx_out', tx_in) + Unwritten
        PROVE  tx_buf[i] = sent' + Dist(tx_out', i) + 1
    <3>1. Dist(tx_out', i) \in Nat
      BY NextSent, DistFacts
    <3>2. Dist(tx_out', i) < BUF_LEN - 1
      BY <1>1, <2>2, <2>3, <3>1, NextSent, Indices, Parts
    <3>3. Dist(tx_out, i) = Dist(tx_out', i) + 1
      BY <3>2, NextSent
    <3>4. Dist(tx_out, i) < Dist(tx_out, tx_in) + Unwritten
      BY <1>1, <2>3, <3>1, <3>3, NextSent, Indices, Parts
    <3>5. tx_buf[i] = sent + Dist(tx_out, i) + 1
      BY <3>4 DEF UartInv, TxRing
    <3> QED
      BY <1>1, <3>1, <3>3, <3>5, NextSent DEF UartTypeOK
  <2>4. put - Unwritten = sent' + Dist(tx_out', tx_in)
    <3>1. sent \in Nat /\ put \in Nat
      BY <1>1 DEF UartTypeOK
    <3>2. put - Unwritten = sent + Dist(tx_out, tx_in)
      BY DEF UartInv, TxRing
    <3> QED
      BY <1>1, <3>1, <3>2, NextSent, Indices, Parts
  <2>5. call.at \in {"writeCopy", "writePublish"} => call.n + Dist(tx_out', tx_in) < BUF_LEN
    BY <1>1, NextSent, Indices, Parts DEF UartInv, TxRing
  <2> QED
    BY <2>1, <2>3, <2>4, <2>5 DEF UartInv, TxRing
<1>6. TxRoom'
  <2>1. drained' = drained
    BY DEF IsrTransmit
  <2> QED
    BY <1>2, <2>1, NextSent, Room, FifoAssumption DEF TxRoom
<1>7. InOrder'
  <2>1. \A k \in 1 .. sent + 1 : wire'[k] = k
    <3>1. sent \in Nat /\ wire \in [1 .. MAXOUT -> Nat] /\ sent + 1 <= MAXOUT
      BY <1>1, NextSent DEF UartTypeOK
    <3>2. \A k \in 1 .. sent : wire[k] = k
      BY DEF UartInv, InOrder
    <3>3. wire'[sent + 1] = sent + 1
      BY <3>1, NextSent, BoundAssumption
    <3>4. ASSUME NEW k \in 1 .. sent PROVE wire'[k] = k
      BY <3>1, <3>2, NextSent, BoundAssumption
    <3> QED
      BY <3>1, <3>3, <3>4
  <2> QED
    BY <2>1, NextSent DEF UartInv, InOrder, IsrTransmit, caller
<1>8. Called'
  BY DEF UartInv, IsrTransmit, Called, caller
<1> QED
  BY <1>3, <1>4, <1>5, <1>6, <1>7, <1>8 DEF UartInv

\* The routine is done with the transmitter and looks again.
LEMMA IsrTransmittedInv == UartInv /\ IsrTransmitted => UartInv'
<1> SUFFICES ASSUME UartInv, IsrTransmitted PROVE UartInv'
  OBVIOUS
<1>1. isr' \in IsrType /\ isr'.space = 0
  BY NoneTyped DEF IsrTransmitted, IsrType, NoIsr
<1>2. UartTypeOK'
  BY <1>1 DEF UartInv, UartTypeOK, IsrTransmitted, rx, tx, host, device, caller
<1>3. RxRing'
  BY <1>2, RxKept DEF UartInv, IsrTransmitted, Unread, RxRing, device, caller
<1>4. TxRing'
  BY <1>2, TxKept DEF UartInv, IsrTransmitted, Unwritten, TxRing, device, caller
<1>5. TxRoom' /\ InOrder'
  <2>1. UNCHANGED <<sent, drained, got, heard, wire>>
    BY DEF IsrTransmitted, device, caller
  <2>2. TxRoom'
    BY <1>1, <2>1, Room DEF TxRoom
  <2> QED
    BY <2>1, <2>2 DEF UartInv, InOrder
<1>6. Called'
  BY DEF UartInv, IsrTransmitted, Called, caller
<1> QED
  BY <1>2, <1>3, <1>4, <1>5, <1>6 DEF UartInv

-----------------------------------------------------------------------------
(* The program: read()                                                     *)

\* read() begins with nothing moved.
LEMMA ReadInv == UartInv /\ Read => UartInv'
<1> SUFFICES ASSUME UartInv, Read PROVE UartInv'
  OBVIOUS
<1>1. call' \in CallType /\ call'.at \in {"read", "readEnd"} /\ call.at = "none"
  <2>1. PICK space \in 0 .. MAXCALL, nonblock \in BOOLEAN :
          call' = [NoCall EXCEPT !.at = IF space > 0 THEN "read" ELSE "readEnd",
                                 !.left = space, !.nonblock = nonblock]
    BY DEF Read
  <2>2. space \in Nat /\ NoCall \in CallType
    BY NoneTyped, BoundAssumption
  <2> QED
    BY <2>1, <2>2 DEF Read, Program, CallType, ReadAts
<1>2. UartTypeOK'
  BY <1>1 DEF UartInv, UartTypeOK, Read, rx, tx, host, device, caller
<1>3. RxRing'
  BY <1>1, <1>2, RxKept DEF UartInv, Read, Unread, device, caller
<1>4. TxRing'
  BY <1>1, <1>2, TxKept DEF UartInv, Read, Unwritten, WriteAts, device, caller
<1>5. TxRoom' /\ InOrder'
  BY DEF UartInv, Read, TxRoom, InOrder, device, caller
<1>6. Called'
  BY <1>1 DEF UartInv, Read, Called, WriteAts, caller
<1> QED
  BY <1>2, <1>3, <1>4, <1>5, <1>6 DEF UartInv

\* What read() finds is there in one piece, whatever comes in behind it.
LEMMA ReadLookInv == UartInv /\ ReadLook => UartInv'
<1> SUFFICES ASSUME UartInv, ReadLook PROVE UartInv'
  OBVIOUS
<1> DEFINE n == IF rx_in >= rx_out THEN rx_in - rx_out ELSE BUF_LEN - rx_out
           m == Least(n, call.left)
<1>1. UartTypeOK /\ call.at = "read" /\ call.left \in Nat
  BY Parts DEF UartInv, ReadLook, Program
<1>2. /\ n \in Nat /\ m \in Nat /\ m <= call.left
      /\ m <= Dist(rx_out, rx_in) /\ rx_out + m <= BUF_LEN
  BY <1>1, Indices, BufAssumption DEF Dist, Least, Slots
<1> HIDE DEF m
<1>3. call' = [call EXCEPT !.seen = rx_in, !.n = m,
                 !.at = CASE n > 0 -> "readCopy"
                          [] n = 0 /\ (call.moved > 0 \/ call.nonblock) -> "readEnd"
                          [] OTHER -> "readSpin"]
  BY DEF ReadLook, m
<1> HIDE DEF n
<1>4. /\ call' \in CallType /\ call'.at \in {"readCopy", "readEnd", "readSpin"}
      /\ call'.n = m /\ call'.left = call.left
  BY <1>1, <1>2, <1>3, Indices DEF UartTypeOK, CallType, ReadAts
<1>5. UartTypeOK'
  BY <1>4 DEF UartInv, UartTypeOK, ReadLook, rx, tx, host, device, caller
<1>6. RxRing'
  BY <1>1, <1>2, <1>4, <1>5, RxKept DEF UartInv, ReadLook, Unread, device, caller
<1>7. TxRing'
  BY <1>1, <1>4, <1>5, TxKept DEF UartInv, ReadLook, Unwritten, WriteAts, device, caller
<1>8. TxRoom' /\ InOrder'
  BY DEF UartInv, ReadLook, TxRoom, InOrder, device, caller
<1>9. Called'
  BY <1>1, <1>2, <1>4 DEF UartInv, ReadLook, Called, WriteAts, caller
<1> QED
  BY <1>5, <1>6, <1>7, <1>8, <1>9 DEF UartInv

\* What read() copies are the next characters, in order.
LEMMA ReadCopyInv == UartInv /\ ReadCopy => UartInv'
<1> SUFFICES ASSUME UartInv, ReadCopy PROVE UartInv'
  OBVIOUS
<1>1. UartTypeOK /\ call.at = "readCopy" /\ got \in Nat /\ taken \in Nat
  BY DEF UartInv, UartTypeOK, ReadCopy, Program
<1>2. /\ call.n <= Dist(rx_out, rx_in) /\ rx_out + call.n <= BUF_LEN
      /\ taken = got + Dist(rx_out, rx_in) /\ taken <= MAXIN
      /\ \A i \in Slots : Dist(rx_out, i) < Dist(rx_out, rx_in)
                            => rx_buf[i] = got + Dist(rx_out, i) + 1
  BY <1>1, BoundAssumption, Indices DEF UartInv, UartTypeOK, RxRing, Unread
<1>3. call' \in CallType /\ call'.at = "readPublish" /\ call'.n = call.n
  <2>1. call.moved + call.n \in Nat
    BY <1>1, Parts
  <2>2. call.left - call.n \in Nat
    BY <1>1, Parts DEF UartInv, Called
  <2> QED
    BY <1>1, <2>1, <2>2 DEF UartTypeOK, ReadCopy, CallType, ReadAts
<1>4. got' = got + call.n /\ UNCHANGED <<rx, typed, taken, put, tx, sent, drained, wire>>
  BY DEF ReadCopy, device
<1>5. \A k \in 1 .. MAXIN : got < k /\ k <= got + call.n => rx_buf[rx_out + (k - got) - 1] = k
  <2> SUFFICES ASSUME NEW k \in 1 .. MAXIN, got < k, k <= got + call.n
               PROVE  rx_buf[rx_out + (k - got) - 1] = k
    OBVIOUS
  <2> DEFINE i == rx_out + (k - got) - 1
  <2>1. i \in Slots /\ Dist(rx_out, i) = k - got - 1
    BY <1>1, <1>2, Indices, Parts DEF Slots, Dist
  <2>2. Dist(rx_out, i) < Dist(rx_out, rx_in)
    BY <1>1, <1>2, <2>1, Indices, Parts
  <2> HIDE DEF i
  <2>3. rx_buf[i] = got + Dist(rx_out, i) + 1
    BY <1>2, <2>1, <2>2
  <2>4. rx_buf[i] = k
    BY <1>1, <2>1, <2>3
  <2> QED
    BY <2>4 DEF i
<1>6. \A k \in 1 .. MAXIN : heard'[k] = IF got < k /\ k <= got + call.n THEN k ELSE heard[k]
  BY <1>5 DEF ReadCopy
<1>7. UartTypeOK'
  <2>1. heard' \in [1 .. MAXIN -> Nat]
    <3>1. heard' = [k \in 1 .. MAXIN |-> heard'[k]]
      BY DEF ReadCopy
    <3>2. \A k \in 1 .. MAXIN : heard'[k] \in Nat
      <4> SUFFICES ASSUME NEW k \in 1 .. MAXIN PROVE heard'[k] \in Nat
        OBVIOUS
      <4>1. k \in Nat
        BY BoundAssumption
      <4>2. heard[k] \in Nat
        BY <1>1 DEF UartTypeOK
      <4> QED
        BY <1>6, <4>1, <4>2
    <3> QED
      BY <3>1, <3>2
  <2>2. got' \in Nat
    BY <1>1, <1>4, Parts
  <2> QED
    BY <1>1, <1>3, <1>4, <2>1, <2>2 DEF UartTypeOK, ReadCopy, rx, tx, host, device
<1>8. RxRing'
  <2>1. got' - Unread' = got
    BY <1>1, <1>3, <1>4, Parts DEF Unread
  <2>2. UNCHANGED <<rx_in, rx_out, rx_buf>>
    BY <1>4 DEF rx
  <2> QED
    BY <1>2, <1>3, <1>4, <2>1, <2>2 DEF UartInv, RxRing
<1>9. TxRing'
  BY <1>1, <1>3, <1>4, <1>7, TxKept DEF UartInv, Unwritten, WriteAts
<1>10. TxRoom'
  BY DEF UartInv, ReadCopy, TxRoom, device
<1>11. InOrder'
  <2>1. got + call.n <= MAXIN
    BY <1>1, <1>2, Indices, Parts, BoundAssumption
  <2>2. \A k \in 1 .. got + call.n : heard'[k] = k
    BY <1>1, <1>6, <2>1, Parts, BoundAssumption DEF UartInv, InOrder
  <2> QED
    BY <1>4, <2>2 DEF UartInv, InOrder
<1>12. Called'
  BY <1>3, <1>4 DEF UartInv, Called, WriteAts
<1> QED
  BY <1>7, <1>8, <1>9, <1>10, <1>11, <1>12 DEF UartInv

\* Only then are their slots given back.
LEMMA ReadPublishInv == UartInv /\ ReadPublish => UartInv'
<1> SUFFICES ASSUME UartInv, ReadPublish PROVE UartInv'
  OBVIOUS
<1>1. UartTypeOK /\ call.at = "readPublish" /\ got \in Nat /\ taken \in Nat
  BY DEF UartInv, UartTypeOK, ReadPublish, Program
<1>2. /\ call.n <= Dist(rx_out, rx_in) /\ rx_out + call.n <= BUF_LEN /\ Unread = call.n
      /\ taken = got - call.n + Dist(rx_out, rx_in)
      /\ \A i \in Slots : Dist(rx_out, i) < Dist(rx_out, rx_in)
                            => rx_buf[i] = got - call.n + Dist(rx_out, i) + 1
  BY <1>1 DEF UartInv, RxRing, Unread
<1>3. call' \in CallType /\ call'.at \in {"read", "readEnd"}
  BY <1>1 DEF UartTypeOK, ReadPublish, CallType, ReadAts
<1>4. /\ rx_out' \in Slots /\ Dist(rx_out', rx_in) = Dist(rx_out, rx_in) - call.n
      /\ \A i \in Slots : Dist(rx_out', i) < BUF_LEN - call.n
                            => Dist(rx_out, i) = Dist(rx_out', i) + call.n
  BY <1>1, <1>2, TakenOut, Indices, Parts DEF ReadPublish
<1>5. UNCHANGED <<rx_in, rx_buf, typed, taken, got>>
  BY DEF ReadPublish, device, caller
<1>6. UartTypeOK'
  BY <1>1, <1>3, <1>4 DEF UartTypeOK, ReadPublish, tx, host, device, caller
<1>7. RxRing'
  <2>1. Unread' = 0 /\ Dist(rx_out, rx_in) < BUF_LEN
    BY <1>1, <1>3, DistFacts, Indices DEF Unread
  <2>2. taken = got + Dist(rx_out', rx_in)
    BY <1>1, <1>2, <1>4, Indices, Parts
  <2>3. ASSUME NEW i \in Slots, Dist(rx_out', i) < Dist(rx_out', rx_in)
        PROVE  rx_buf[i] = got + Dist(rx_out', i) + 1
    <3>1. Dist(rx_out', i) \in Nat
      BY <1>4, DistFacts
    <3>2. Dist(rx_out', i) < BUF_LEN - call.n
      BY <1>1, <1>4, <2>1, <2>3, <3>1, Indices, Parts
    <3>3. Dist(rx_out, i) = Dist(rx_out', i) + call.n
      BY <1>4, <3>2
    <3>4. Dist(rx_out, i) < Dist(rx_out, rx_in)
      BY <1>1, <1>4, <2>3, <3>1, <3>3, Indices, Parts
    <3>5. rx_buf[i] = got - call.n + Dist(rx_out, i) + 1
      BY <1>2, <3>4
    <3> QED
      BY <1>1, <3>1, <3>3, <3>5, Parts
  <2> QED
    BY <1>1, <1>3, <1>5, <2>1, <2>2, <2>3 DEF UartInv, RxRing
<1>8. TxRing'
  BY <1>1, <1>3, <1>6, TxKept DEF UartInv, ReadPublish, Unwritten, WriteAts, device, caller
<1>9. TxRoom' /\ InOrder'
  BY DEF UartInv, ReadPublish, TxRoom, InOrder, device, caller
<1>10. Called'
  BY <1>3 DEF UartInv, ReadPublish, Called, WriteAts, caller
<1> QED
  BY <1>6, <1>7, <1>8, <1>9, <1>10 DEF UartInv

\* A reader that waits changes nothing.
LEMMA ReadSpinInv == UartInv /\ ReadSpin => UartInv'
<1> SUFFICES ASSUME UartInv, ReadSpin PROVE UartInv'
  OBVIOUS
<1>1. call' \in CallType /\ call'.at \in {"read", "readEnd"} /\ call.at = "readSpin"
  BY DEF UartInv, UartTypeOK, ReadSpin, CallType, ReadAts, Program
<1>2. UartTypeOK'
  BY <1>1 DEF UartInv, UartTypeOK, ReadSpin, rx, tx, host, device, caller
<1>3. RxRing'
  BY <1>1, <1>2, RxKept DEF UartInv, ReadSpin, Unread, device, caller
<1>4. TxRing'
  BY <1>1, <1>2, TxKept DEF UartInv, ReadSpin, Unwritten, WriteAts, device, caller
<1>5. TxRoom' /\ InOrder'
  BY DEF UartInv, ReadSpin, TxRoom, InOrder, device, caller
<1>6. Called'
  BY <1>1 DEF UartInv, ReadSpin, Called, WriteAts, caller
<1> QED
  BY <1>2, <1>3, <1>4, <1>5, <1>6 DEF UartInv

\* read() ends: the enable bit only.
LEMMA ReadEndInv == UartInv /\ ReadEnd => UartInv'
<1> SUFFICES ASSUME UartInv, ReadEnd PROVE UartInv'
  OBVIOUS
<1>1. call' \in CallType /\ call'.at = "none" /\ call.at = "readEnd"
  BY NoneTyped DEF ReadEnd, NoCall, Program
<1>2. UartTypeOK'
  BY <1>1 DEF UartInv, UartTypeOK, ReadEnd, rx, tx, host, device, caller
<1>3. RxRing'
  BY <1>1, <1>2, RxKept DEF UartInv, ReadEnd, Unread, device, caller
<1>4. TxRing'
  BY <1>1, <1>2, TxKept DEF UartInv, ReadEnd, Unwritten, WriteAts, device, caller
<1>5. TxRoom' /\ InOrder'
  BY DEF UartInv, ReadEnd, TxRoom, InOrder, device, caller
<1>6. Called'
  BY <1>1 DEF UartInv, ReadEnd, Called, WriteAts, caller
<1> QED
  BY <1>2, <1>3, <1>4, <1>5, <1>6 DEF UartInv

-----------------------------------------------------------------------------
(* The program: write()                                                    *)

\* write() begins with no more than the bound allows.
LEMMA WriteInv == UartInv /\ Write => UartInv'
<1> SUFFICES ASSUME UartInv, Write PROVE UartInv'
  OBVIOUS
<1>1. /\ call' \in CallType /\ call'.at \in {"write", "writeKick"} /\ call.at = "none"
      /\ put + call'.left <= MAXOUT
  <2>1. PICK count \in 0 .. Least(MAXCALL, MAXOUT - put), nonblock \in BOOLEAN :
          call' = [NoCall EXCEPT !.at = IF count > 0 THEN "write" ELSE "writeKick",
                                 !.left = count, !.nonblock = nonblock]
    BY DEF Write
  <2>2. put \in Nat /\ put <= MAXOUT
    BY DEF UartInv, UartTypeOK, Called
  <2>3. count \in Nat /\ put + count <= MAXOUT
    BY <2>2, BoundAssumption DEF Least
  <2> QED
    BY <2>1, <2>3, NoneTyped DEF Write, Program, CallType, WriteAts
<1>2. UartTypeOK'
  BY <1>1 DEF UartInv, UartTypeOK, Write, rx, tx, host, device, caller
<1>3. RxRing'
  BY <1>1, <1>2, RxKept DEF UartInv, Write, Unread, device, caller
<1>4. TxRing'
  BY <1>1, <1>2, TxKept DEF UartInv, Write, Unwritten, device, caller
<1>5. TxRoom' /\ InOrder'
  BY DEF UartInv, Write, TxRoom, InOrder, device, caller
<1>6. Called'
  BY <1>1 DEF UartInv, Write, Called, caller
<1> QED
  BY <1>2, <1>3, <1>4, <1>5, <1>6 DEF UartInv

\* What write() finds is free in one piece, whatever is sent meanwhile.
LEMMA WriteLookInv == UartInv /\ WriteLook => UartInv'
<1> SUFFICES ASSUME UartInv, WriteLook PROVE UartInv'
  OBVIOUS
<1> DEFINE n == IF tx_in < tx_out THEN tx_out - 1 - tx_in
                ELSE IF tx_out > 0 THEN BUF_LEN - tx_in ELSE BUF_LEN - 1 - tx_in
           m == Least(n, call.left)
<1>1. UartTypeOK /\ call.at = "write" /\ call.left \in Nat
  BY Parts DEF UartInv, WriteLook, Program
<1>2. /\ n \in Nat /\ m \in Nat /\ m <= call.left
      /\ m + Dist(tx_out, tx_in) < BUF_LEN /\ tx_in + m <= BUF_LEN
  BY <1>1, Indices, BufAssumption DEF Dist, Least, Slots
<1> HIDE DEF m
<1>3. call' = [call EXCEPT !.seen = tx_out, !.n = m,
                           !.at = IF n > 0 THEN "writeCopy" ELSE "writeKick"]
  BY DEF WriteLook, m
<1> HIDE DEF n
<1>4. /\ call' \in CallType /\ call'.at \in {"writeCopy", "writeKick"}
      /\ call'.n = m /\ call'.left = call.left
  BY <1>1, <1>2, <1>3, Indices DEF UartTypeOK, CallType, WriteAts
<1>5. UartTypeOK'
  BY <1>4 DEF UartInv, UartTypeOK, WriteLook, rx, tx, host, device, caller
<1>6. RxRing'
  BY <1>1, <1>4, <1>5, RxKept DEF UartInv, WriteLook, Unread, device, caller
<1>7. TxRing'
  BY <1>1, <1>2, <1>4, <1>5, TxKept DEF UartInv, WriteLook, Unwritten, device, caller
<1>8. TxRoom' /\ InOrder'
  BY DEF UartInv, WriteLook, TxRoom, InOrder, device, caller
<1>9. Called'
  BY <1>1, <1>2, <1>4 DEF UartInv, WriteLook, Called, WriteAts, caller
<1> QED
  BY <1>5, <1>6, <1>7, <1>8, <1>9 DEF UartInv

\* What write() copies lies behind what waits to be sent, in order.
LEMMA WriteCopyInv == UartInv /\ WriteCopy => UartInv'
<1> SUFFICES ASSUME UartInv, WriteCopy PROVE UartInv'
  OBVIOUS
<1>1. UartTypeOK /\ call.at = "writeCopy" /\ put \in Nat /\ sent \in Nat
  BY DEF UartInv, UartTypeOK, WriteCopy, Program
<1>2. /\ call.n + Dist(tx_out, tx_in) < BUF_LEN /\ tx_in + call.n <= BUF_LEN
      /\ put = sent + Dist(tx_out, tx_in)
      /\ \A i \in Slots : Dist(tx_out, i) < Dist(tx_out, tx_in)
                            => tx_buf[i] = sent + Dist(tx_out, i) + 1
  BY <1>1, Indices DEF UartInv, TxRing, Unwritten
<1>3. call' \in CallType /\ call'.at = "writePublish" /\ call'.n = call.n
      /\ call'.left = call.left - call.n
  <2>1. call.moved + call.n \in Nat
    BY <1>1, Parts
  <2>2. call.left - call.n \in Nat
    BY <1>1, Parts DEF UartInv, Called
  <2> QED
    BY <1>1, <2>1, <2>2 DEF UartTypeOK, WriteCopy, CallType, WriteAts
<1>4. put' = put + call.n /\ UNCHANGED <<rx, tx_in, tx_out, typed, taken, got, heard, sent, drained, wire>>
  BY DEF WriteCopy, device
<1>5. /\ \A i \in Slots : tx_in <= i /\ i < tx_in + call.n
                            => Dist(tx_out, i) = Dist(tx_out, tx_in) + (i - tx_in)
      /\ \A i \in Slots : Dist(tx_out, tx_in) <= Dist(tx_out, i)
                          /\ Dist(tx_out, i) < Dist(tx_out, tx_in) + call.n
                            => tx_in <= i /\ i < tx_in + call.n
  BY <1>1, <1>2, PutIn, Indices, Parts
<1>6. \A i \in Slots : tx_buf'[i] = IF tx_in <= i /\ i < tx_in + call.n
                                    THEN put + (i - tx_in) + 1 ELSE tx_buf[i]
  BY DEF WriteCopy
<1>7. UartTypeOK'
  <2>1. tx_buf' \in [Slots -> Nat]
    <3>1. tx_buf' = [i \in Slots |-> tx_buf'[i]]
      BY DEF WriteCopy
    <3>2. ASSUME NEW i \in Slots PROVE tx_buf'[i] \in Nat
      <4>1. i \in Nat /\ tx_in \in Nat
        BY <1>1, Indices
      <4>2. tx_buf[i] \in Nat
        BY <1>1 DEF UartTypeOK
      <4> QED
        BY <1>1, <1>6, <4>1, <4>2
    <3> QED
      BY <3>1, <3>2
  <2>2. put' \in Nat
    BY <1>1, <1>4, Parts
  <2> QED
    BY <1>1, <1>3, <1>4, <2>1, <2>2 DEF UartTypeOK, WriteCopy, rx, host, device
<1>8. RxRing'
  BY <1>1, <1>3, <1>4, <1>7, RxKept DEF UartInv, Unread
<1>9. TxRing'
  <2>1. put' - Unwritten' = put /\ Unwritten' = call.n
    BY <1>1, <1>3, <1>4, Parts DEF Unwritten
  <2>2. ASSUME NEW i \in Slots, Dist(tx_out, i) < Dist(tx_out, tx_in) + call.n
        PROVE  tx_buf'[i] = sent + Dist(tx_out, i) + 1
    <3>1. i \in Nat /\ tx_in \in Nat /\ tx_out \in Slots /\ Dist(tx_out, tx_in) \in Nat
      BY <1>1, Indices
    <3>2. Dist(tx_out, i) \in Nat
      BY <3>1, DistFacts
    <3>3. CASE tx_in <= i /\ i < tx_in + call.n
      BY <1>1, <1>2, <1>5, <1>6, <3>1, <3>3
    <3>4. CASE ~(tx_in <= i /\ i < tx_in + call.n)
      <4>1. Dist(tx_out, i) < Dist(tx_out, tx_in)
        BY <1>5, <2>2, <3>1, <3>2, <3>4
      <4> QED
        BY <1>2, <1>6, <3>4, <4>1
    <3> QED
      BY <3>3, <3>4
  <2> QED
    BY <1>2, <1>3, <1>4, <2>1, <2>2 DEF TxRing
<1>10. TxRoom' /\ InOrder'
  BY DEF UartInv, WriteCopy, TxRoom, InOrder, device
<1>11. Called'
  <2>1. put + call.left <= MAXOUT /\ call.n <= call.left
    BY <1>1 DEF UartInv, Called, WriteAts
  <2> QED
    BY <1>1, <1>3, <1>4, <2>1, Parts, BoundAssumption DEF Called
<1> QED
  BY <1>7, <1>8, <1>9, <1>10, <1>11 DEF UartInv

\* Only then is the routine told of it.
LEMMA WritePublishInv == UartInv /\ WritePublish => UartInv'
<1> SUFFICES ASSUME UartInv, WritePublish PROVE UartInv'
  OBVIOUS
<1>1. UartTypeOK /\ call.at = "writePublish" /\ put \in Nat /\ sent \in Nat
  BY DEF UartInv, UartTypeOK, WritePublish, Program
<1>2. /\ call.n + Dist(tx_out, tx_in) < BUF_LEN /\ tx_in + call.n <= BUF_LEN
      /\ put - call.n = sent + Dist(tx_out, tx_in)
      /\ \A i \in Slots : Dist(tx_out, i) < Dist(tx_out, tx_in) + call.n
                            => tx_buf[i] = sent + Dist(tx_out, i) + 1
  BY <1>1 DEF UartInv, TxRing, Unwritten
<1>3. call' \in CallType /\ call'.at \in {"write", "writeKick"} /\ call'.left = call.left
  BY <1>1 DEF UartTypeOK, WritePublish, CallType, WriteAts
<1>4. tx_in' \in Slots /\ Dist(tx_out, tx_in') = Dist(tx_out, tx_in) + call.n
  BY <1>1, <1>2, PutIn, Indices, Parts DEF WritePublish
<1>5. UNCHANGED <<tx_out, tx_buf, sent, put>>
  BY DEF WritePublish, device, caller
<1>6. UartTypeOK'
  BY <1>1, <1>3, <1>4 DEF UartTypeOK, WritePublish, rx, host, device, caller
<1>7. RxRing'
  BY <1>1, <1>3, <1>6, RxKept DEF UartInv, WritePublish, Unread, device, caller
<1>8. TxRing'
  <2>1. Unwritten' = 0
    BY <1>3 DEF Unwritten
  <2>2. put - 0 = sent + Dist(tx_out, tx_in')
    BY <1>1, <1>2, <1>4, Indices, Parts
  <2>3. \A i \in Slots : Dist(tx_out, i) < Dist(tx_out, tx_in') + 0
                           => tx_buf[i] = sent + Dist(tx_out, i) + 1
    BY <1>1, <1>2, <1>4, Indices, Parts
  <2> QED
    BY <1>3, <1>5, <2>1, <2>2, <2>3 DEF TxRing
<1>9. TxRoom' /\ InOrder'
  BY DEF UartInv, WritePublish, TxRoom, InOrder, device, caller
<1>10. Called'
  BY <1>1, <1>3, <1>5 DEF UartInv, Called, WriteAts
<1> QED
  BY <1>6, <1>7, <1>8, <1>9, <1>10 DEF UartInv

\* write() asks for interrupts: the enable bit only.
LEMMA WriteKickInv == UartInv /\ WriteKick => UartInv'
<1> SUFFICES ASSUME UartInv, WriteKick PROVE UartInv'
  OBVIOUS
<1>1. /\ call' \in CallType /\ call'.at \in {"writeSpin", "none"} /\ call.at = "writeKick"
      /\ call'.at = "writeSpin" => call'.left = call.left
  BY NoneTyped DEF UartInv, UartTypeOK, WriteKick, CallType, WriteAts, NoCall, Program
<1>2. UartTypeOK'
  BY <1>1 DEF UartInv, UartTypeOK, WriteKick, rx, tx, host, device, caller
<1>3. RxRing'
  BY <1>1, <1>2, RxKept DEF UartInv, WriteKick, Unread, device, caller
<1>4. TxRing'
  BY <1>1, <1>2, TxKept DEF UartInv, WriteKick, Unwritten, device, caller
<1>5. TxRoom' /\ InOrder'
  BY DEF UartInv, WriteKick, TxRoom, InOrder, device, caller
<1>6. Called'
  BY <1>1 DEF UartInv, WriteKick, Called, WriteAts, caller
<1> QED
  BY <1>2, <1>3, <1>4, <1>5, <1>6 DEF UartInv

\* A writer that waits changes nothing.
LEMMA WriteSpinInv == UartInv /\ WriteSpin => UartInv'
<1> SUFFICES ASSUME UartInv, WriteSpin PROVE UartInv'
  OBVIOUS
<1>1. /\ call' \in CallType /\ call'.at \in {"write", "none"} /\ call.at = "writeSpin"
      /\ call'.at = "write" => call'.left = call.left
  BY NoneTyped DEF UartInv, UartTypeOK, WriteSpin, CallType, WriteAts, NoCall, Program
<1>2. UartTypeOK'
  BY <1>1 DEF UartInv, UartTypeOK, WriteSpin, rx, tx, host, device, caller
<1>3. RxRing'
  BY <1>1, <1>2, RxKept DEF UartInv, WriteSpin, Unread, device, caller
<1>4. TxRing'
  BY <1>1, <1>2, TxKept DEF UartInv, WriteSpin, Unwritten, device, caller
<1>5. TxRoom' /\ InOrder'
  BY DEF UartInv, WriteSpin, TxRoom, InOrder, device, caller
<1>6. Called'
  BY <1>1 DEF UartInv, WriteSpin, Called, WriteAts, caller
<1> QED
  BY <1>2, <1>3, <1>4, <1>5, <1>6 DEF UartInv

-----------------------------------------------------------------------------
(* The program: close() and ioctl()                                        *)

\* close() begins.
LEMMA CloseInv == UartInv /\ Close => UartInv'
<1> SUFFICES ASSUME UartInv, Close PROVE UartInv'
  OBVIOUS
<1>1. call' \in CallType /\ call'.at = "close" /\ call.at = "none"
  BY NoneTyped DEF Close, CallType, Program
<1>2. UartTypeOK'
  BY <1>1 DEF UartInv, UartTypeOK, Close, rx, tx, host, device, caller
<1>3. RxRing'
  BY <1>1, <1>2, RxKept DEF UartInv, Close, Unread, device, caller
<1>4. TxRing'
  BY <1>1, <1>2, TxKept DEF UartInv, Close, Unwritten, device, caller
<1>5. TxRoom' /\ InOrder'
  BY DEF UartInv, Close, TxRoom, InOrder, device, caller
<1>6. Called'
  BY <1>1 DEF UartInv, Close, Called, WriteAts, caller
<1> QED
  BY <1>2, <1>3, <1>4, <1>5, <1>6 DEF UartInv

\* close() ends.
LEMMA CloseEndInv == UartInv /\ CloseEnd => UartInv'
<1> SUFFICES ASSUME UartInv, CloseEnd PROVE UartInv'
  OBVIOUS
<1>1. call' \in CallType /\ call'.at = "none" /\ call.at = "close"
  BY NoneTyped DEF CloseEnd, NoCall, Program
<1>2. UartTypeOK'
  BY <1>1 DEF UartInv, UartTypeOK, CloseEnd, rx, tx, host, device, caller
<1>3. RxRing'
  BY <1>1, <1>2, RxKept DEF UartInv, CloseEnd, Unread, device, caller
<1>4. TxRing'
  BY <1>1, <1>2, TxKept DEF UartInv, CloseEnd, Unwritten, device, caller
<1>5. TxRoom' /\ InOrder'
  BY DEF UartInv, CloseEnd, TxRoom, InOrder, device, caller
<1>6. Called'
  BY <1>1 DEF UartInv, CloseEnd, Called, WriteAts, caller
<1> QED
  BY <1>2, <1>3, <1>4, <1>5, <1>6 DEF UartInv

\* ioctl() changes how many seconds are too many.
LEMMA IoctlInv == UartInv /\ Ioctl => UartInv'
<1> SUFFICES ASSUME UartInv, Ioctl PROVE UartInv'
  OBVIOUS
<1>1. timeout' \in Nat
  BY TimeoutAssumption DEF Ioctl
<1>2. UartTypeOK'
  BY <1>1 DEF UartInv, UartTypeOK, Ioctl, rx, tx, device, caller
<1>3. RxRing'
  BY <1>2, RxKept DEF UartInv, Ioctl, Unread, RxRing, device, caller
<1>4. TxRing'
  BY <1>2, TxKept DEF UartInv, Ioctl, Unwritten, TxRing, device, caller
<1>5. TxRoom' /\ InOrder' /\ Called'
  BY DEF UartInv, Ioctl, TxRoom, InOrder, Called, device, caller
<1> QED
  BY <1>2, <1>3, <1>4, <1>5 DEF UartInv

-----------------------------------------------------------------------------
(* Every step, and the theorems                                            *)

\* A stutter changes nothing.
LEMMA StutterInv == UartInv /\ UNCHANGED vars => UartInv'
<1> SUFFICES ASSUME UartInv, UNCHANGED vars PROVE UartInv'
  OBVIOUS
<1>1. UartTypeOK' /\ InOrder' /\ TxRoom'
  BY DEF UartInv, UartTypeOK, InOrder, TxRoom, vars, rx, tx, host, device, caller
<1>2. RxRing' /\ TxRing' /\ Called'
  BY DEF UartInv, RxRing, TxRing, Called, Unread, Unwritten, vars, rx, tx, device, caller
<1> QED
  BY <1>1, <1>2 DEF UartInv

\* Every step preserves the invariant.
LEMMA NextInv == UartInv /\ [Next]_vars => UartInv'
<1> SUFFICES ASSUME UartInv, [Next]_vars PROVE UartInv'
  OBVIOUS
<1>1. CASE Type \/ Take \/ Timeout \/ Interrupt
  BY <1>1, TypeInv, TakeInv, TimeoutInv, InterruptInv
<1>2. CASE Isr
  BY <1>2, IsrTopInv, IsrReceiveInv, IsrReceivedInv, IsrTransmitInv, IsrTransmittedInv DEF Isr
<1>3. CASE Reading
  BY <1>3, ReadLookInv, ReadCopyInv, ReadPublishInv, ReadSpinInv, ReadEndInv DEF Reading
<1>4. CASE Writing
  BY <1>4, WriteLookInv, WriteCopyInv, WritePublishInv, WriteKickInv, WriteSpinInv DEF Writing
<1>5. CASE CloseEnd \/ Calls
  BY <1>5, CloseEndInv, ReadInv, WriteInv, CloseInv, IoctlInv DEF Calls
<1>6. CASE UNCHANGED vars
  BY <1>6, StutterInv
<1> QED
  BY <1>1, <1>2, <1>3, <1>4, <1>5, <1>6 DEF Next

\* Of every state of the console: each index, buffer and local has its type,
\* what lies in a ring is what is between the two counts of its ends and in
\* their order, a call in progress works on slots the routine stays out of,
\* and the routine finds room for all it sends.
THEOREM UartInvariant == Spec => []UartInv
<1>1. Init => UartInv
  BY InitInv
<1>2. UartInv /\ [Next]_vars => UartInv'
  BY NextInv
<1> QED
  BY <1>1, <1>2, PTL DEF Spec

\* Nothing is lost, doubled or reordered between the host and the program,
\* for rings and FIFOs of every size, wherever the routine interrupts
\* read() or write().
THEOREM InOrderHolds == Spec => []InOrder
<1>1. UartInv => InOrder
  BY DEF UartInv
<1> QED
  BY <1>1, UartInvariant, PTL

-----------------------------------------------------------------------------
(* The interrupts: facts about sequences and calls                          *)

\* A new head before a sequence: the rest moves up by one.
LEMMA Pushed ==
  ASSUME NEW S, NEW s \in Seq(S), NEW e \in S
  PROVE  LET t == <<e>> \o s
         IN  /\ t \in Seq(S) /\ t # <<>> /\ Len(t) = Len(s) + 1 /\ Len(t) \in Nat /\ Head(t) = e
             /\ t[1] = e /\ \A k \in 1 .. Len(s) : t[k + 1] = s[k]
             /\ \A k \in 2 .. Len(t) : t[k] = s[k - 1]
OBVIOUS

\* A sequence without its head: the rest moves down by one.
LEMMA Popped ==
  ASSUME NEW S, NEW s \in Seq(S), s # <<>>
  PROVE  LET t == Tail(s)
         IN  /\ t \in Seq(S) /\ Len(t) = Len(s) - 1 /\ Len(t) \in Nat /\ Head(s) = s[1]
             /\ s[1] \in S /\ (t = <<>> <=> Len(s) = 1)
             /\ \A k \in 1 .. Len(t) : t[k] = s[k + 1]
<1>1. /\ Tail(s) \in Seq(S) /\ Len(Tail(s)) = Len(s) - 1 /\ Len(Tail(s)) \in Nat
      /\ Head(s) = s[1] /\ s[1] \in S
      /\ \A k \in 1 .. Len(Tail(s)) : Tail(s)[k] = s[k + 1]
  OBVIOUS
<1>2. Tail(s) = <<>> <=> Len(Tail(s)) = 0
  BY <1>1, EmptySeq
<1> QED
  BY <1>1, <1>2

\* The first of a sequence is replaced.
LEMMA HeadReplaced ==
  ASSUME NEW S, NEW s \in Seq(S), s # <<>>, NEW e \in S
  PROVE  LET t == [s EXCEPT ![1] = e]
         IN  /\ t \in Seq(S) /\ t # <<>> /\ Len(t) = Len(s) /\ Len(t) \in Nat \ {0}
             /\ t[1] = e /\ Head(t) = e /\ \A k \in 2 .. Len(s) : t[k] = s[k]
OBVIOUS

\* The program is not interrupted before it has started.
LEMMA StartingAlone ==
  ASSUME Irq!IrqInv
  PROVE  /\ Irq!Starting => stack = <<>> /\ contexts = <<>> /\ alt_irq_active = {}
         /\ Irq!Starting <=> todo \in {Irq!alt_irq_init, Tail(Irq!alt_irq_init)}
<1>1. Irq!CallSound
  BY DEF Irq!IrqInv
<1>2. Tail(Irq!alt_irq_init) = << <<"on">> >>
  BY DEF Irq!alt_irq_init
<1>3. todo \in {Irq!alt_irq_init, Tail(Irq!alt_irq_init)} => Irq!Starting
  BY <1>2 DEF Irq!Starting, Irq!alt_irq_init
<1>4. ASSUME NEW i \in Irq!Irqs, NEW on \in BOOLEAN, Irq!RestOfSwitch(i, on) \/ Irq!RestOfRegister(i, on)
      PROVE  ~Irq!Starting
  BY <1>4 DEF Irq!Starting, Irq!RestOfSwitch, Irq!RestOfRegister, Irq!Switch, Irq!Table, Irq!Save, Irq!Off, Irq!Restore
<1>5. ASSUME todo \in {<<>>, Irq!alt_irq_disable_all, <<Irq!Off>>, <<Irq!Restore>>, <<Irq!Restore, Irq!Restore>>}
      PROVE  ~Irq!Starting
  BY <1>5 DEF Irq!Starting, Irq!alt_irq_disable_all, Irq!Save, Irq!Off, Irq!Restore
<1> QED
  BY <1>1, <1>3, <1>4, <1>5 DEF Irq!CallSound

\* The steps of the processor and of the handlers leave the program's call alone.
LEMMA CallKept ==
  ASSUME Irq!IrqInv, ~Irq!Starting, UNCHANGED <<todo, contexts, alt_irq>>
  PROVE  Irq!CallSound'
<1>1. Irq!CallSound /\ todo \notin {Irq!alt_irq_init, Tail(Irq!alt_irq_init)}
  BY StartingAlone DEF Irq!IrqInv
<1> QED
  BY <1>1 DEF Irq!CallSound, Irq!RestOfSwitch, Irq!RestOfRegister, Irq!alt_irq_init, Irq!alt_irq_disable_all

-----------------------------------------------------------------------------
(* Exceptions and their handlers                                           *)

\* An exception: a new frame on top of the program, or of a handler that
\* allows to be interrupted.
LEMMA EnterKeeps ==
  ASSUME Irq!IrqInv, Irq!Enter, pie \/ stack = <<>>, ~Irq!Starting,
         lines' \subseteq Irq!Irqs
  PROVE  Irq!IrqInv'
<1> DEFINE frame == [at |-> "entry", irq |-> ALT_NIRQ, estatus |-> pie, old |-> {}]
<1>1. Irq!TypeOK /\ Irq!StackSound /\ Irq!MaskSound /\ Irq!StatusSound /\ Irq!CallSound /\ Irq!ActiveSound
  BY DEF Irq!IrqInv
<1>2. ALT_NIRQ \in Nat
  BY IrqAssumption DEF Irq!Bounds
<1>3. frame \in Irq!Frames /\ stack \in Seq(Irq!Frames) /\ Len(stack) \in Nat
  BY <1>1, <1>2 DEF Irq!TypeOK, Irq!Frames
<1>4. stack' = <<frame>> \o stack /\ pie' = FALSE
      /\ UNCHANGED <<ienable, alt_irq_active, alt_priority_mask, alt_irq, exception_handler, todo, contexts>>
  BY DEF Irq!Enter, Irq!control, Irq!tables, Irq!program
<1> HIDE DEF frame
<1>5. /\ stack' \in Seq(Irq!Frames) /\ stack' # <<>> /\ Len(stack') = Len(stack) + 1
      /\ stack'[1] = frame /\ Head(stack') = frame /\ \A k \in 2 .. Len(stack') : stack'[k] = stack[k - 1]
  BY <1>3, <1>4, Pushed
<1>6. frame.at = "entry" /\ frame.estatus = pie
  BY DEF frame
<1>7. \A k \in Nat \ {0, 1} : Irq!Mask(k)' = Irq!Mask(k - 1)
  BY <1>3, <1>5 DEF Irq!Mask, Irq!Irqs, Irq!Below
<1>8. stack # <<>> => Irq!Top = stack[1] /\ Irq!Top.at \in Irq!Allowing /\ Len(stack) >= 1
  <2> SUFFICES ASSUME stack # <<>>
               PROVE  Irq!Top = stack[1] /\ Irq!Top.at \in Irq!Allowing /\ Len(stack) >= 1
    OBVIOUS
  <2>1. Irq!Top = stack[1] /\ Len(stack) >= 1
    BY <1>3 DEF Irq!Top
  <2>2. Irq!Top.at \in Irq!Allowing
    BY <1>1 DEF Irq!StatusSound
  <2> QED
    BY <2>1, <2>2
<1>9. stack = <<>> => Len(stack) = 0
  OBVIOUS
<1>10. Irq!TypeOK'
  BY <1>1, <1>4, <1>5 DEF Irq!TypeOK, Irq!Irqs
<1>11. Irq!StackSound'
  <2> SUFFICES ASSUME NEW k \in 1 .. Len(stack')
               PROVE  /\ k > 1 => stack'[k].at \in Irq!Allowing
                      /\ k < Len(stack') \/ stack'[k].at \in Irq!Handling => stack'[k].estatus
                      /\ stack'[k].at \in Irq!Serving => stack'[k].irq \in Irq!Mask(k + 1)'
                      /\ stack'[k].at \in Irq!Allowing => stack'[k].old = Irq!Mask(k + 1)'
                      /\ stack'[k].at = "isr" => stack'[k].irq \in alt_irq'
    BY DEF Irq!StackSound, Irq!Serving, Irq!Handling, Irq!Allowing
  <2>1. CASE k = 1
    BY <2>1, <1>5, <1>6, <1>8, <1>9 DEF Irq!Handling, Irq!Serving, Irq!Allowing
  <2>2. CASE k # 1
    <3>1. k - 1 \in 1 .. Len(stack) /\ k + 1 \in Nat \ {0, 1} /\ stack'[k] = stack[k - 1]
          /\ (k < Len(stack') <=> k - 1 < Len(stack)) /\ Irq!Mask(k + 1)' = Irq!Mask((k - 1) + 1)
      BY <2>2, <1>3, <1>5, <1>7
    <3>2. k - 1 > 1 => stack[k - 1].at \in Irq!Allowing
      BY <3>1, <1>1 DEF Irq!StackSound
    <3>3. k - 1 = 1 => stack[k - 1].at \in Irq!Allowing
      BY <3>1, <1>3, <1>8
    <3> QED
      BY <3>1, <3>2, <3>3, <1>1, <1>4 DEF Irq!StackSound
  <2> QED
    BY <2>1, <2>2
<1>12. Irq!MaskSound'
  <2>1. alt_priority_mask = Irq!Mask(1)
    BY <1>1, <1>3, <1>8, <1>9 DEF Irq!MaskSound, Irq!Mask
  <2>2. Irq!Mask(2)' = Irq!Mask(1)
    BY <1>7
  <2> QED
    BY <2>1, <2>2, <1>1, <1>4, <1>5, <1>6 DEF Irq!MaskSound, Irq!Top, Irq!Allowing
<1>13. Irq!StatusSound'
  <2>1. Irq!Status' = Irq!Status
    BY <1>3, <1>5, <1>6, <1>9 DEF Irq!Status
  <2>2. Irq!Within' = Irq!Within /\ Irq!Starting' = Irq!Starting
    BY <1>4 DEF Irq!Within, Irq!Starting
  <2>3. Irq!Status' <=> ~Irq!Within' /\ ~Irq!Starting'
    BY <2>1, <2>2, <1>1 DEF Irq!StatusSound
  <2>4. pie' <=> Irq!Top'.at \in Irq!Allowing
    BY <1>4, <1>5, <1>6 DEF Irq!Top, Irq!Allowing
  <2>5. \A k \in 1 .. Len(contexts') : contexts'[k] <=> k = Len(contexts')
    BY <1>1, <1>4 DEF Irq!StatusSound
  <2> QED
    BY <2>3, <2>4, <2>5 DEF Irq!StatusSound, Irq!Allowing
<1>14. Irq!CallSound'
  BY <1>4, CallKept
<1>15. Irq!ActiveSound'
  BY <1>1, <1>4 DEF Irq!ActiveSound, Irq!Within, Irq!RestOfSwitch, Irq!Switch, Irq!Save, Irq!Off, Irq!Restore
<1> QED
  BY <1>10, <1>11, <1>12, <1>13, <1>14, <1>15 DEF Irq!IrqInv

\* A step of the innermost exception: its frame is replaced by another.
LEMMA TopReplaced ==
  ASSUME Irq!IrqInv, stack # <<>>, NEW e \in Irq!Frames, stack' = [stack EXCEPT ![1] = e],
         e.estatus = Irq!Top.estatus, UNCHANGED <<todo, contexts, alt_irq, exception_handler>>,
         e.at \in Irq!Handling => Irq!Top.estatus,
         e.at \in Irq!Serving => e.irq \in Irq!Mask(2),
         e.at \in Irq!Allowing => e.old = Irq!Mask(2),
         e.at = "isr" => e.irq \in alt_irq,
         pie' \in BOOLEAN, pie' <=> e.at \in Irq!Allowing,
         alt_irq_active' \subseteq Irq!Irqs, alt_irq_active' \ alt_irq \subseteq alt_irq_active,
         alt_priority_mask' = IF e.at \in Irq!Allowing THEN Irq!Below(e.irq) ELSE Irq!Mask(2),
         ienable' = alt_irq_active' \cap alt_priority_mask',
         lines' \subseteq Irq!Irqs
  PROVE  Irq!IrqInv'
<1>1. Irq!TypeOK /\ Irq!StackSound /\ Irq!MaskSound /\ Irq!StatusSound /\ Irq!CallSound /\ Irq!ActiveSound
  BY DEF Irq!IrqInv
<1>2. stack \in Seq(Irq!Frames) /\ Len(stack) \in Nat \ {0} /\ Irq!Top = stack[1]
  BY <1>1 DEF Irq!TypeOK, Irq!Top
<1>3. /\ stack' \in Seq(Irq!Frames) /\ stack' # <<>> /\ Len(stack') = Len(stack)
      /\ stack'[1] = e /\ Head(stack') = e /\ \A k \in 2 .. Len(stack) : stack'[k] = stack[k]
  BY <1>2, HeadReplaced
<1>4. \A k \in Nat \ {0, 1} : Irq!Mask(k)' = Irq!Mask(k)
  BY <1>2, <1>3 DEF Irq!Mask, Irq!Irqs, Irq!Below
<1>5. ~Irq!Starting
  BY StartingAlone
<1>6. Irq!TypeOK'
  <2>1. Irq!Mask(2) \subseteq Irq!Irqs /\ (e.at \in Irq!Allowing => Irq!Below(e.irq) \subseteq Irq!Irqs)
    <3>1. ALT_NIRQ \in Nat
      BY IrqAssumption DEF Irq!Bounds
    <3>2. \A f \in Irq!Frames : Irq!Below(f.irq) \subseteq Irq!Irqs
      BY <3>1 DEF Irq!Frames, Irq!Below, Irq!Irqs
    <3> QED
      BY <3>2, <1>2 DEF Irq!Mask
  <2> QED
    BY <2>1, <1>1, <1>3 DEF Irq!TypeOK, Irq!Irqs
<1>7. Irq!StackSound'
  <2> SUFFICES ASSUME NEW k \in 1 .. Len(stack')
               PROVE  /\ k > 1 => stack'[k].at \in Irq!Allowing
                      /\ k < Len(stack') \/ stack'[k].at \in Irq!Handling => stack'[k].estatus
                      /\ stack'[k].at \in Irq!Serving => stack'[k].irq \in Irq!Mask(k + 1)'
                      /\ stack'[k].at \in Irq!Allowing => stack'[k].old = Irq!Mask(k + 1)'
                      /\ stack'[k].at = "isr" => stack'[k].irq \in alt_irq'
    BY DEF Irq!StackSound, Irq!Serving, Irq!Handling, Irq!Allowing
  <2>1. CASE k = 1
    <3>1. 1 < Len(stack) => Irq!Top.estatus
      BY <1>1, <1>2 DEF Irq!StackSound
    <3> QED
      BY <3>1, <2>1, <1>2, <1>3, <1>4
  <2>2. CASE k # 1
    <3>1. k \in 1 .. Len(stack) /\ k + 1 \in Nat \ {0, 1} /\ stack'[k] = stack[k]
      BY <2>2, <1>2, <1>3
    <3> QED
      BY <3>1, <1>1, <1>3, <1>4 DEF Irq!StackSound
  <2> QED
    BY <2>1, <2>2
<1>8. Irq!MaskSound'
  <2>1. Irq!Mask(1)' = Irq!Below(e.irq)
    BY <1>2, <1>3 DEF Irq!Mask, Irq!Below
  <2> QED
    BY <2>1, <1>3, <1>4 DEF Irq!MaskSound, Irq!Top, Irq!Allowing
<1>9. Irq!StatusSound'
  <2>1. Irq!Status' = Irq!Status
    BY <1>2, <1>3 DEF Irq!Status
  <2>2. Irq!Within' = Irq!Within /\ Irq!Starting' = Irq!Starting
    BY DEF Irq!Within, Irq!Starting
  <2>3. Irq!Status' <=> ~Irq!Within' /\ ~Irq!Starting'
    BY <2>1, <2>2, <1>1 DEF Irq!StatusSound
  <2>4. pie' <=> Irq!Top'.at \in Irq!Allowing
    BY <1>3 DEF Irq!Top, Irq!Allowing
  <2>5. \A k \in 1 .. Len(contexts') : contexts'[k] <=> k = Len(contexts')
    BY <1>1 DEF Irq!StatusSound
  <2> QED
    BY <2>3, <2>4, <2>5 DEF Irq!StatusSound, Irq!Allowing
<1>10. Irq!CallSound'
  BY <1>5, CallKept
<1>11. Irq!ActiveSound'
  BY <1>1 DEF Irq!ActiveSound, Irq!Within, Irq!RestOfSwitch, Irq!Switch, Irq!Save, Irq!Off, Irq!Restore
<1> QED
  BY <1>6, <1>7, <1>8, <1>9, <1>10, <1>11 DEF Irq!IrqInv

\* The innermost exception ends, and whoever was interrupted goes on.
LEMMA LeaveKeeps ==
  ASSUME Irq!IrqInv, stack # <<>>, Irq!Top.at \notin Irq!Allowing, Irq!Leave,
         UNCHANGED <<Irq!control, Irq!tables, Irq!program, lines>>
  PROVE  Irq!IrqInv'
<1>1. Irq!TypeOK /\ Irq!StackSound /\ Irq!MaskSound /\ Irq!StatusSound /\ Irq!CallSound /\ Irq!ActiveSound
  BY DEF Irq!IrqInv
<1>2. stack \in Seq(Irq!Frames) /\ Len(stack) \in Nat \ {0} /\ Irq!Top = stack[1]
  BY <1>1 DEF Irq!TypeOK, Irq!Top
<1>3. stack' = Tail(stack) /\ pie' = stack[1].estatus
      /\ UNCHANGED <<ienable, alt_irq_active, alt_priority_mask, alt_irq, exception_handler,
                     todo, contexts, lines>>
  BY <1>2 DEF Irq!Leave, Irq!control, Irq!tables, Irq!program
<1>4. /\ stack' \in Seq(Irq!Frames) /\ Len(stack') = Len(stack) - 1 /\ Len(stack') \in Nat
      /\ (stack' = <<>> <=> Len(stack) = 1) /\ \A k \in 1 .. Len(stack') : stack'[k] = stack[k + 1]
  BY <1>2, <1>3, Popped
<1>5. \A k \in Nat \ {0} : Irq!Mask(k)' = Irq!Mask(k + 1)
  BY <1>2, <1>4 DEF Irq!Mask, Irq!Irqs, Irq!Below
<1>6. ~Irq!Starting
  BY StartingAlone
<1>7. stack' # <<>> => Head(stack') = stack[2] /\ stack[2].at \in Irq!Allowing /\ stack[1].estatus
  BY <1>1, <1>2, <1>4 DEF Irq!StackSound
<1>8. Irq!TypeOK'
  <2>1. stack[1].estatus \in BOOLEAN
    <3>1. stack[1] \in Irq!Frames
      BY <1>2
    <3> QED
      BY <3>1 DEF Irq!Frames
  <2> QED
    BY <2>1, <1>1, <1>3, <1>4 DEF Irq!TypeOK, Irq!Irqs
<1>9. Irq!StackSound'
  <2> SUFFICES ASSUME NEW k \in 1 .. Len(stack')
               PROVE  /\ k > 1 => stack'[k].at \in Irq!Allowing
                      /\ k < Len(stack') \/ stack'[k].at \in Irq!Handling => stack'[k].estatus
                      /\ stack'[k].at \in Irq!Serving => stack'[k].irq \in Irq!Mask(k + 1)'
                      /\ stack'[k].at \in Irq!Allowing => stack'[k].old = Irq!Mask(k + 1)'
                      /\ stack'[k].at = "isr" => stack'[k].irq \in alt_irq'
    BY DEF Irq!StackSound, Irq!Serving, Irq!Handling, Irq!Allowing
  <2>1. k + 1 \in 1 .. Len(stack) /\ k + 1 \in Nat \ {0} /\ k + 1 > 1 /\ stack'[k] = stack[k + 1]
        /\ (k < Len(stack') <=> k + 1 < Len(stack)) /\ Irq!Mask(k + 1)' = Irq!Mask((k + 1) + 1)
    <3>1. k \in Nat \ {0} /\ k + 1 \in 1 .. Len(stack) /\ k + 1 \in Nat \ {0} /\ k + 1 > 1
          /\ (k < Len(stack') <=> k + 1 < Len(stack))
      BY <1>2, <1>4
    <3> QED
      BY <3>1, <1>4, <1>5
  <2> QED
    BY <2>1, <1>1, <1>3 DEF Irq!StackSound
<1>10. Irq!MaskSound'
  <2>1. alt_priority_mask = Irq!Mask(2)
    BY <1>1 DEF Irq!MaskSound
  <2>2. Irq!Mask(1)' = Irq!Mask(2) /\ (stack' = <<>> => Irq!Mask(2)' = Irq!Mask(2))
    <3>1. Irq!Mask(1)' = Irq!Mask(2)
      BY <1>5
    <3>2. ASSUME stack' = <<>> PROVE Irq!Mask(2)' = Irq!Mask(2)
      <4>1. Len(stack) = 1 /\ Len(stack') = 0
        BY <3>2, <1>2, <1>4
      <4>2. Irq!Mask(2) = Irq!Irqs
        BY <4>1 DEF Irq!Mask
      <4>3. Irq!Mask(2)' = Irq!Irqs
        BY <4>1 DEF Irq!Mask, Irq!Irqs
      <4> QED
        BY <4>2, <4>3
    <3> QED
      BY <3>1, <3>2
  <2> QED
    BY <2>1, <2>2, <1>1, <1>3, <1>7 DEF Irq!MaskSound, Irq!Top, Irq!Allowing
<1>11. Irq!StatusSound'
  <2>1. Irq!Status' <=> Irq!Status
    <3>1. CASE stack' = <<>>
      BY <3>1, <1>2, <1>3, <1>4 DEF Irq!Status
    <3>2. CASE stack' # <<>>
      BY <3>2, <1>2, <1>4 DEF Irq!Status
    <3> QED
      BY <3>1, <3>2
  <2>2. Irq!Within' = Irq!Within /\ Irq!Starting' = Irq!Starting
    BY <1>3 DEF Irq!Within, Irq!Starting
  <2>3. Irq!Status' <=> ~Irq!Within' /\ ~Irq!Starting'
    BY <2>1, <2>2, <1>1 DEF Irq!StatusSound
  <2>4. stack' # <<>> => (pie' <=> Irq!Top'.at \in Irq!Allowing)
    BY <1>3, <1>7 DEF Irq!Top, Irq!Allowing
  <2>5. \A k \in 1 .. Len(contexts') : contexts'[k] <=> k = Len(contexts')
    BY <1>1, <1>3 DEF Irq!StatusSound
  <2> QED
    BY <2>3, <2>4, <2>5 DEF Irq!StatusSound, Irq!Allowing
<1>12. Irq!CallSound'
  BY <1>3, <1>6, CallKept
<1>13. Irq!ActiveSound'
  BY <1>1, <1>3 DEF Irq!ActiveSound, Irq!Within, Irq!RestOfSwitch, Irq!Switch, Irq!Save, Irq!Off, Irq!Restore
<1> QED
  BY <1>8, <1>9, <1>10, <1>11, <1>12, <1>13 DEF Irq!IrqInv

\* Numbers have a least one.
LEMMA MinIn ==
  ASSUME NEW T, T \subseteq Nat, T # {}
  PROVE  Irq!Min(T) \in T
<1>1. PICK x \in T : \A y \in T : <<y, x>> \notin OpToRel(<, Nat)
  BY NatLessThanWellFounded, WFMin
<1>2. \A y \in T : ~(y < x)
  BY <1>1, Zenon DEF OpToRel
<1>3. \A y \in T : x <= y
  BY <1>2
<1> QED
  BY <1>3 DEF Irq!Min

\* The steps of the processor and of the handlers.
LEMMA HandlersKeep ==
  ASSUME Irq!IrqInv, Irq!Handlers
  PROVE  Irq!IrqInv'
<1>1. Irq!TypeOK /\ Irq!StackSound /\ Irq!MaskSound /\ Irq!StatusSound /\ Irq!CallSound /\ Irq!ActiveSound
  BY DEF Irq!IrqInv
<1>2. stack # <<>>
  BY DEF Irq!Handlers, Irq!IrqTest, Irq!Dispatch, Irq!Return, Irq!Serve, Irq!alt_irq_interruptible,
         Irq!alt_irq_non_interruptible, Irq!IsrSwitches, Irq!Unknown, Irq!In
<1>3. stack \in Seq(Irq!Frames) /\ Len(stack) \in Nat \ {0} /\ Irq!Top = stack[1] /\ Irq!Top \in Irq!Frames
  BY <1>1, <1>2 DEF Irq!TypeOK, Irq!Top
<1>4. 1 \in 1 .. Len(stack)
  BY <1>3
<1>5. /\ Irq!Top.at \in Irq!Handling => Irq!Top.estatus
      /\ Irq!Top.at \in Irq!Serving => Irq!Top.irq \in Irq!Mask(2)
      /\ Irq!Top.at \in Irq!Allowing => Irq!Top.old = Irq!Mask(2)
      /\ Irq!Top.at = "isr" => Irq!Top.irq \in alt_irq
  BY <1>1, <1>3, <1>4 DEF Irq!StackSound
<1>6. /\ pie <=> Irq!Top.at \in Irq!Allowing
      /\ alt_priority_mask = IF Irq!Top.at \in Irq!Allowing THEN Irq!Below(Irq!Top.irq) ELSE Irq!Mask(2)
      /\ ienable = alt_irq_active \cap alt_priority_mask
  BY <1>1, <1>2, <1>3 DEF Irq!StatusSound, Irq!MaskSound, Irq!Mask
<1>7. pie \in BOOLEAN /\ alt_irq_active \subseteq Irq!Irqs /\ lines \subseteq Irq!Irqs
  BY <1>1 DEF Irq!TypeOK
<1>8. Irq!Mask(2) \subseteq Irq!Irqs /\ Irq!Irqs \subseteq 0 .. ALT_NIRQ /\ Irq!Irqs \subseteq Nat
  <2>1. ALT_NIRQ \in Nat
    BY IrqAssumption DEF Irq!Bounds
  <2>2. \A f \in Irq!Frames : Irq!Below(f.irq) \subseteq Irq!Irqs
    BY <2>1 DEF Irq!Frames, Irq!Below, Irq!Irqs
  <2> QED
    BY <2>1, <2>2, <1>3 DEF Irq!Mask, Irq!Irqs
<1>9. CASE Irq!IrqTest
  <2> DEFINE e == [Irq!Top EXCEPT !.at = IF Irq!Top.estatus /\ Irq!Pending # {} THEN "first" ELSE "unknown"]
  <2>1. e \in Irq!Frames /\ e.at \in {"first", "unknown"} /\ e.estatus = Irq!Top.estatus
        /\ (e.at = "first" => Irq!Top.estatus)
    BY <1>3 DEF Irq!Frames, Irq!Handling
  <2>2. Irq!Top.at = "entry" /\ stack' = [stack EXCEPT ![1] = e]
        /\ UNCHANGED <<pie, ienable, alt_irq_active, alt_priority_mask, alt_irq, exception_handler,
                       todo, contexts, lines>>
    BY <1>3, <1>9 DEF Irq!IrqTest, Irq!In, Irq!Move, Irq!control, Irq!tables, Irq!program
  <2> HIDE DEF e
  <2> QED
    BY <2>1, <2>2, <1>2, <1>6, <1>7, TopReplaced DEF Irq!Allowing, Irq!Serving, Irq!Handling
<1>10. CASE Irq!Dispatch
  <2> DEFINE e == [Irq!Top EXCEPT !.at = "isr", !.irq = Irq!Min(Irq!Pending)]
  <2>1. Irq!Pending # {} /\ Irq!Top.at \in {"first", "pending"} /\ stack' = [stack EXCEPT ![1] = e]
        /\ UNCHANGED <<pie, ienable, alt_irq_active, alt_priority_mask, alt_irq, exception_handler,
                       todo, contexts, lines>>
    BY <1>3, <1>10 DEF Irq!Dispatch, Irq!In, Irq!control, Irq!tables, Irq!program
  <2>2. Irq!Top.estatus /\ alt_priority_mask = Irq!Mask(2)
    BY <2>1, <1>5, <1>6 DEF Irq!Handling, Irq!Allowing
  <2>3. Irq!Status
    <3>1. 1 < Len(stack) => stack[Len(stack)].at \in Irq!Allowing
      BY <1>1, <1>3 DEF Irq!StackSound
    <3>2. stack[Len(stack)].at \in Irq!Handling => stack[Len(stack)].estatus
      BY <1>1, <1>3 DEF Irq!StackSound
    <3> QED
      BY <3>1, <3>2, <2>2, <1>2, <1>3 DEF Irq!Status, Irq!Handling, Irq!Serving
  <2>4. alt_irq_active \subseteq alt_irq
    BY <2>3, <1>1 DEF Irq!StatusSound, Irq!ActiveSound
  <2>5. Irq!Min(Irq!Pending) \in Irq!Pending
    <3>1. Irq!Pending \subseteq Nat
      BY <1>7, <1>8 DEF Irq!Pending
    <3> QED
      BY <3>1, <2>1, MinIn
  <2>6. Irq!Min(Irq!Pending) \in alt_irq /\ Irq!Min(Irq!Pending) \in Irq!Mask(2) /\ Irq!Min(Irq!Pending) \in Irq!Irqs
    BY <2>2, <2>4, <2>5, <1>6, <1>7 DEF Irq!Pending
  <2>7. e \in Irq!Frames /\ e.at = "isr" /\ e.irq = Irq!Min(Irq!Pending) /\ e.estatus = Irq!Top.estatus
    BY <2>6, <1>3, <1>8 DEF Irq!Frames, Irq!Handling, Irq!Serving
  <2>8. ~pie
    BY <2>1, <1>6 DEF Irq!Allowing
  <2> HIDE DEF e
  <2> QED
    BY <2>1, <2>2, <2>6, <2>7, <2>8, <1>2, <1>6, <1>7, TopReplaced DEF Irq!Allowing
<1>11. CASE Irq!Return
  BY <1>2, <1>11, LeaveKeeps DEF Irq!Return, Irq!In, Irq!Allowing
<1>12. CASE Irq!Serve
  <2> DEFINE e == [Irq!Top EXCEPT !.at = IF Irq!Top.at = "isr" THEN "pending" ELSE "closing"]
  <2>1. Irq!Top.at \in {"isr", "open"} /\ stack' = [stack EXCEPT ![1] = e]
        /\ lines' = lines \ {Irq!Top.irq}
        /\ UNCHANGED <<pie, ienable, alt_irq_active, alt_priority_mask, alt_irq, exception_handler,
                       todo, contexts>>
    BY <1>3, <1>12 DEF Irq!Serve, Irq!Move, Irq!In, Irq!control, Irq!tables, Irq!program
  <2>2. e \in Irq!Frames /\ e.estatus = Irq!Top.estatus /\ e.irq = Irq!Top.irq /\ e.old = Irq!Top.old
        /\ e.at = IF Irq!Top.at = "isr" THEN "pending" ELSE "closing"
    BY <1>3 DEF Irq!Frames, Irq!Handling, Irq!Serving, Irq!Allowing
  <2> HIDE DEF e
  <2>3. /\ e.at \in Irq!Handling => Irq!Top.estatus
        /\ e.at \in Irq!Serving => e.irq \in Irq!Mask(2)
        /\ e.at \in Irq!Allowing => e.old = Irq!Mask(2)
        /\ e.at # "isr"
        /\ pie <=> e.at \in Irq!Allowing
        /\ alt_priority_mask = IF e.at \in Irq!Allowing THEN Irq!Below(e.irq) ELSE Irq!Mask(2)
    BY <2>1, <2>2, <1>5, <1>6 DEF Irq!Handling, Irq!Serving, Irq!Allowing
  <2> QED
    BY <2>1, <2>2, <2>3, <1>2, <1>6, <1>7, TopReplaced
<1>13. CASE Irq!alt_irq_interruptible
  <2> DEFINE e == [Irq!Top EXCEPT !.at = "open", !.old = alt_priority_mask]
  <2>1. Irq!Top.at = "isr" /\ stack' = [stack EXCEPT ![1] = e] /\ pie' = TRUE
        /\ alt_priority_mask' = Irq!Below(Irq!Top.irq) /\ ienable' = alt_irq_active \cap Irq!Below(Irq!Top.irq)
        /\ UNCHANGED <<alt_irq_active, alt_irq, exception_handler, todo, contexts, lines>>
    BY <1>3, <1>13 DEF Irq!alt_irq_interruptible, Irq!In, Irq!tables, Irq!program
  <2>2. alt_priority_mask = Irq!Mask(2)
    BY <2>1, <1>6 DEF Irq!Allowing
  <2>3. e \in Irq!Frames /\ e.at = "open" /\ e.irq = Irq!Top.irq /\ e.old = Irq!Mask(2) /\ e.estatus = Irq!Top.estatus
    BY <2>2, <1>3, <1>8 DEF Irq!Frames, Irq!Handling, Irq!Serving, Irq!Allowing
  <2>4. Irq!Top.estatus /\ Irq!Top.irq \in Irq!Mask(2)
    BY <2>1, <1>5 DEF Irq!Handling, Irq!Serving
  <2> HIDE DEF e
  <2> QED
    BY <2>1, <2>3, <2>4, <1>2, <1>7, TopReplaced DEF Irq!Allowing
<1>14. CASE Irq!alt_irq_non_interruptible
  <2> DEFINE e == [Irq!Top EXCEPT !.at = "pending"]
  <2>1. Irq!Top.at = "closing" /\ stack' = [stack EXCEPT ![1] = e] /\ pie' = FALSE
        /\ alt_priority_mask' = Irq!Top.old /\ ienable' = Irq!Top.old \cap alt_irq_active
        /\ UNCHANGED <<alt_irq_active, alt_irq, exception_handler, todo, contexts, lines>>
    BY <1>3, <1>14 DEF Irq!alt_irq_non_interruptible, Irq!Move, Irq!In, Irq!tables, Irq!program
  <2>2. Irq!Top.old = Irq!Mask(2) /\ Irq!Top.estatus
    BY <2>1, <1>5 DEF Irq!Allowing, Irq!Handling, Irq!Serving
  <2>3. e \in Irq!Frames /\ e.at = "pending" /\ e.estatus = Irq!Top.estatus
    BY <1>3 DEF Irq!Frames, Irq!Handling
  <2> HIDE DEF e
  <2>4. ienable' = alt_irq_active' \cap alt_priority_mask'
    BY <2>1
  <2> QED
    BY <2>1, <2>2, <2>3, <2>4, <1>2, <1>7, TopReplaced DEF Irq!Allowing, Irq!Serving
<1>15. CASE Irq!IsrSwitches
  <2>1. Irq!Top.at = "isr" /\ Len(stack) = 1 /\ ienable' = alt_irq_active'
        /\ alt_irq_active' \subseteq Irq!Irqs /\ alt_irq_active' \ alt_irq \subseteq alt_irq_active
        /\ UNCHANGED <<pie, alt_priority_mask, alt_irq, exception_handler, stack, todo, contexts,
                       lines>>
    <3>1. PICK i \in alt_irq : Irq!SetActive(alt_irq_active \cup {i}) \/ Irq!SetActive(alt_irq_active \ {i})
      BY <1>15 DEF Irq!IsrSwitches
    <3>2. i \in Irq!Irqs
      BY <1>1 DEF Irq!TypeOK
    <3> QED
      BY <3>1, <3>2, <1>7, <1>15 DEF Irq!IsrSwitches, Irq!SetActive, Irq!In, Irq!tables, Irq!program
  <2>2. stack' = [stack EXCEPT ![1] = Irq!Top]
    BY <2>1, <1>3
  <2>3. Irq!Mask(2) = Irq!Irqs /\ alt_priority_mask' = Irq!Mask(2)
    BY <2>1, <1>6 DEF Irq!Mask, Irq!Allowing
  <2>4. ienable' = alt_irq_active' \cap alt_priority_mask'
    BY <2>1, <2>3
  <2> QED
    BY <2>1, <2>2, <2>3, <2>4, <1>2, <1>3, <1>5, <1>6, <1>7, TopReplaced DEF Irq!Allowing
<1>16. CASE Irq!Unknown
  <2>1. Irq!Top.at = "unknown" /\ UNCHANGED <<Irq!control, Irq!tables, Irq!program, lines>>
    BY <1>16 DEF Irq!Unknown, Irq!In
  <2>2. CASE Irq!Leave
    BY <2>1, <2>2, <1>2, LeaveKeeps DEF Irq!Allowing
  <2>3. CASE Irq!Move("break") /\ UNCHANGED pie
    <3> DEFINE e == [Irq!Top EXCEPT !.at = "break"]
    <3>1. stack' = [stack EXCEPT ![1] = e]
      BY <2>3, <1>3 DEF Irq!Move
    <3>2. e \in Irq!Frames /\ e.at = "break" /\ e.estatus = Irq!Top.estatus
      BY <1>3 DEF Irq!Frames
    <3>3. UNCHANGED <<ienable, alt_irq_active, alt_priority_mask, alt_irq, exception_handler,
                      todo, contexts, lines>>
      BY <2>1 DEF Irq!control, Irq!tables, Irq!program
    <3> HIDE DEF e
    <3> QED
      BY <3>1, <3>2, <3>3, <2>1, <2>3, <1>2, <1>6, <1>7, TopReplaced DEF Irq!Allowing, Irq!Serving, Irq!Handling
  <2> QED
    BY <2>2, <2>3, <1>16 DEF Irq!Unknown
<1> QED
  BY <1>9, <1>10, <1>11, <1>12, <1>13, <1>14, <1>15, <1>16 DEF Irq!Handlers

-----------------------------------------------------------------------------
(* The Irq!program's calls                                                     *)

\* What is left of a call that switches a line, step by step.
LEMMA SwitchSteps ==
  ASSUME NEW i \in Irq!Irqs, NEW on \in BOOLEAN, Irq!RestOfSwitch(i, on), Len(contexts) \in Nat
  PROVE  /\ todo # <<>> /\ Head(todo) \in {Irq!Save, Irq!Off, Irq!Switch(i, on)}
         /\ Head(todo) = Irq!Off => Len(contexts) >= 1
         /\ Head(todo) = Irq!Switch(i, on) =>
              \/ Tail(todo) = <<Irq!Restore>> /\ Len(contexts) >= 1
              \/ Tail(todo) = <<Irq!Restore, Irq!Restore>> /\ Len(contexts) >= 2
         /\ Head(todo) \in {Irq!Save, Irq!Off} => Tail(todo) # <<>>
         /\ Head(todo) = Irq!Save => Head(Tail(todo)) = Irq!Off
         /\ Head(todo) = Irq!Off => Head(Tail(todo)) = Irq!Switch(i, on)
         /\ todo' = Tail(todo) =>
              /\ Head(todo) = Irq!Save /\ Len(contexts') = Len(contexts) + 1 => Irq!RestOfSwitch(i, on)'
              /\ Head(todo) = Irq!Off /\ contexts' = contexts => Irq!RestOfSwitch(i, on)'
<1> DEFINE switch == Irq!Switch(i, on)
<1>1. \/ todo = <<Irq!Save, Irq!Off, switch, Irq!Restore>>
      \/ Len(contexts) >= 1 /\ todo = <<Irq!Off, switch, Irq!Restore>>
      \/ Len(contexts) >= 1 /\ todo = <<switch, Irq!Restore>>
      \/ Len(contexts) >= 1 /\ todo = <<Irq!Save, Irq!Off, switch, Irq!Restore, Irq!Restore>>
      \/ Len(contexts) >= 2 /\ todo = <<Irq!Off, switch, Irq!Restore, Irq!Restore>>
      \/ Len(contexts) >= 2 /\ todo = <<switch, Irq!Restore, Irq!Restore>>
  BY DEF Irq!RestOfSwitch
<1>2. switch # Irq!Save /\ switch # Irq!Off /\ Irq!Save # Irq!Off
  BY DEF Irq!Switch, Irq!Save, Irq!Off
<1>3. Irq!RestOfSwitch(i, on)' <=>
        \/ todo' = <<Irq!Save, Irq!Off, switch, Irq!Restore>>
        \/ Len(contexts') >= 1 /\ todo' \in {<<Irq!Off, switch, Irq!Restore>>, <<switch, Irq!Restore>>}
        \/ Len(contexts') >= 1 /\ todo' = <<Irq!Save, Irq!Off, switch, Irq!Restore, Irq!Restore>>
        \/ Len(contexts') >= 2 /\ todo' \in {<<Irq!Off, switch, Irq!Restore, Irq!Restore>>, <<switch, Irq!Restore, Irq!Restore>>}
  BY DEF Irq!RestOfSwitch, Irq!Switch, Irq!Save, Irq!Off, Irq!Restore
<1> HIDE DEF switch
<1>4. CASE todo = <<Irq!Save, Irq!Off, switch, Irq!Restore>>
  BY <1>2, <1>3, <1>4 DEF switch
<1>5. CASE Len(contexts) >= 1 /\ todo = <<Irq!Off, switch, Irq!Restore>>
  BY <1>2, <1>3, <1>5 DEF switch
<1>6. CASE Len(contexts) >= 1 /\ todo = <<switch, Irq!Restore>>
  BY <1>2, <1>3, <1>6 DEF switch
<1>7. CASE Len(contexts) >= 1 /\ todo = <<Irq!Save, Irq!Off, switch, Irq!Restore, Irq!Restore>>
  BY <1>2, <1>3, <1>7 DEF switch
<1>8. CASE Len(contexts) >= 2 /\ todo = <<Irq!Off, switch, Irq!Restore, Irq!Restore>>
  BY <1>2, <1>3, <1>8 DEF switch
<1>9. CASE Len(contexts) >= 2 /\ todo = <<switch, Irq!Restore, Irq!Restore>>
  BY <1>2, <1>3, <1>9 DEF switch
<1> QED
  BY <1>1, <1>4, <1>5, <1>6, <1>7, <1>8, <1>9

\* ... and of a call that registers a handler.
LEMMA RegisterSteps ==
  ASSUME NEW i \in Irq!Irqs, NEW on \in BOOLEAN, Irq!RestOfRegister(i, on), Len(contexts) \in Nat
  PROVE  /\ todo # <<>> /\ Head(todo) \in {Irq!Save, Irq!Off, Irq!Table(i, on)}
         /\ Head(todo) = Irq!Off => Len(contexts) >= 1
         /\ Tail(todo) # <<>>
         /\ Head(todo) = Irq!Save => Head(Tail(todo)) = Irq!Off
         /\ Head(todo) = Irq!Off => Head(Tail(todo)) = Irq!Table(i, on)
         /\ Head(todo) = Irq!Table(i, on) => Head(Tail(todo)) = Irq!Save /\ Len(contexts) >= 1
         /\ todo' = Tail(todo) =>
              /\ Head(todo) = Irq!Save /\ Len(contexts') = Len(contexts) + 1 => Irq!RestOfRegister(i, on)'
              /\ Head(todo) = Irq!Off /\ contexts' = contexts => Irq!RestOfRegister(i, on)'
              /\ Head(todo) = Irq!Table(i, on) /\ contexts' = contexts => Irq!RestOfSwitch(i, on)'
<1> DEFINE switch == Irq!Switch(i, on)
           table  == Irq!Table(i, on)
<1>1. \/ todo = <<Irq!Save, Irq!Off, table, Irq!Save, Irq!Off, switch, Irq!Restore, Irq!Restore>>
      \/ Len(contexts) >= 1 /\ todo = <<Irq!Off, table, Irq!Save, Irq!Off, switch, Irq!Restore, Irq!Restore>>
      \/ Len(contexts) >= 1 /\ todo = <<table, Irq!Save, Irq!Off, switch, Irq!Restore, Irq!Restore>>
  BY DEF Irq!RestOfRegister
<1>2. table # Irq!Save /\ table # Irq!Off /\ Irq!Save # Irq!Off
  BY DEF Irq!Table, Irq!Save, Irq!Off
<1>3. Len(contexts') >= 1 /\ todo' = <<Irq!Save, Irq!Off, switch, Irq!Restore, Irq!Restore>>
        => Irq!RestOfSwitch(i, on)'
  BY DEF Irq!RestOfSwitch, Irq!Switch, Irq!Save, Irq!Off, Irq!Restore
<1>4. Irq!RestOfRegister(i, on)' <=>
        \/ todo' = <<Irq!Save, Irq!Off, table, Irq!Save, Irq!Off, switch, Irq!Restore, Irq!Restore>>
        \/ /\ Len(contexts') >= 1
           /\ todo' \in {<<Irq!Off, table, Irq!Save, Irq!Off, switch, Irq!Restore, Irq!Restore>>,
                         <<table, Irq!Save, Irq!Off, switch, Irq!Restore, Irq!Restore>>}
  BY DEF Irq!RestOfRegister, Irq!Switch, Irq!Table, Irq!Save, Irq!Off, Irq!Restore
<1> HIDE DEF switch, table
<1>5. CASE todo = <<Irq!Save, Irq!Off, table, Irq!Save, Irq!Off, switch, Irq!Restore, Irq!Restore>>
  BY <1>2, <1>3, <1>4, <1>5 DEF table
<1>6. CASE Len(contexts) >= 1 /\ todo = <<Irq!Off, table, Irq!Save, Irq!Off, switch, Irq!Restore, Irq!Restore>>
  BY <1>2, <1>3, <1>4, <1>6 DEF table
<1>7. CASE Len(contexts) >= 1 /\ todo = <<table, Irq!Save, Irq!Off, switch, Irq!Restore, Irq!Restore>>
  BY <1>2, <1>3, <1>4, <1>7 DEF table
<1> QED
  BY <1>1, <1>5, <1>6, <1>7

\* Which step is next, by its name.
LEMMA SwitchHead ==
  ASSUME NEW i \in Irq!Irqs, NEW on \in BOOLEAN, Irq!RestOfSwitch(i, on), Len(contexts) \in Nat
  PROVE  /\ Head(todo)[1] \in {"save", "off", "enable", "disable"}
         /\ Head(todo)[1] = "save" => Head(todo) = Irq!Save
         /\ Head(todo)[1] = "off" => Head(todo) = Irq!Off
         /\ Head(todo)[1] \in {"enable", "disable"} => Head(todo) = Irq!Switch(i, on)
<1>1. Head(todo) \in {Irq!Save, Irq!Off, Irq!Switch(i, on)}
  BY SwitchSteps
<1>2. Irq!Save[1] = "save" /\ Irq!Off[1] = "off" /\ Irq!Switch(i, on)[1] \in {"enable", "disable"}
  BY DEF Irq!Save, Irq!Off, Irq!Switch
<1> QED
  BY <1>1, <1>2

\* What begins the rest of a registration, at each of its steps.
LEMMA RegisterHead ==
  ASSUME NEW i \in Irq!Irqs, NEW on \in BOOLEAN, Irq!RestOfRegister(i, on), Len(contexts) \in Nat
  PROVE  /\ Head(todo)[1] \in {"save", "off", "table"}
         /\ Head(todo)[1] = "save" => Head(todo) = Irq!Save
         /\ Head(todo)[1] = "off" => Head(todo) = Irq!Off
         /\ Head(todo)[1] = "table" => Head(todo) = Irq!Table(i, on)
<1>1. Head(todo) \in {Irq!Save, Irq!Off, Irq!Table(i, on)}
  BY RegisterSteps
<1>2. Irq!Save[1] = "save" /\ Irq!Off[1] = "off" /\ Irq!Table(i, on)[1] = "table"
  BY DEF Irq!Save, Irq!Off, Irq!Table
<1> QED
  BY <1>1, <1>2

\* A step of the program, with no handler about.
LEMMA ProgramStep ==
  ASSUME Irq!IrqInv, stack = <<>>, stack' = stack,
         pie' \in BOOLEAN, contexts' \in Seq(BOOLEAN), exception_handler' \in BOOLEAN,
         alt_irq_active' \subseteq Irq!Irqs, alt_irq' \subseteq Irq!Irqs, ienable' = alt_irq_active',
         UNCHANGED <<alt_priority_mask, lines>>,
         pie' <=> ~Irq!Within' /\ ~Irq!Starting',
         \A k \in 1 .. Len(contexts') : contexts'[k] <=> k = Len(contexts'),
         Irq!CallSound', Irq!ActiveSound'
  PROVE  Irq!IrqInv'
<1>1. Irq!TypeOK /\ Irq!MaskSound
  BY DEF Irq!IrqInv
<1>2. Irq!TypeOK'
  BY <1>1 DEF Irq!TypeOK, Irq!Irqs
<1>3. Len(stack') = 0 /\ Len(stack) = 0
  OBVIOUS
<1>4. Irq!StackSound'
  BY <1>3 DEF Irq!StackSound
<1>5. Irq!MaskSound'
  <2>1. \A k \in Nat \ {0} : Irq!Mask(k) = Irq!Irqs /\ Irq!Mask(k)' = Irq!Irqs
    BY <1>3 DEF Irq!Mask, Irq!Irqs
  <2>2. alt_priority_mask' = Irq!Irqs
    BY <2>1, <1>1 DEF Irq!MaskSound
  <2>3. ienable' = alt_irq_active' \cap alt_priority_mask'
    BY <2>2
  <2>4. Irq!Mask(2)' = Irq!Irqs
    BY <2>1
  <2> QED
    BY <2>2, <2>3, <2>4 DEF Irq!MaskSound, Irq!Irqs
<1>6. Irq!StatusSound'
  <2>1. Irq!Status' <=> pie'
    BY DEF Irq!Status
  <2> QED
    BY <2>1 DEF Irq!StatusSound
<1> QED
  BY <1>2, <1>4, <1>5, <1>6 DEF Irq!IrqInv

\* What holds whenever the program runs.
LEMMA ProgramState ==
  ASSUME Irq!IrqInv, stack = <<>>
  PROVE  /\ Irq!TypeOK /\ Irq!CallSound /\ Irq!ActiveSound /\ Len(contexts) \in Nat
         /\ pie <=> ~Irq!Within /\ ~Irq!Starting
         /\ alt_priority_mask = Irq!Irqs /\ ienable = alt_irq_active
         /\ \A k \in 1 .. Len(contexts) : contexts[k] <=> k = Len(contexts)
<1>1. Irq!TypeOK /\ Irq!MaskSound /\ Irq!StatusSound /\ Irq!CallSound /\ Irq!ActiveSound
  BY DEF Irq!IrqInv
<1>2. Irq!Mask(2) = Irq!Irqs
  BY DEF Irq!Mask
<1>3. alt_priority_mask = Irq!Irqs
  BY <1>1, <1>2 DEF Irq!MaskSound
<1>4. ienable = alt_irq_active
  BY <1>1, <1>3 DEF Irq!MaskSound, Irq!TypeOK
<1>5. Len(contexts) \in Nat
  BY <1>1 DEF Irq!TypeOK
<1> QED
  BY <1>1, <1>3, <1>4, <1>5 DEF Irq!StatusSound, Irq!Status

\* alt_irq_disable_all() reads the status: one section more once PIE is cleared.
LEMMA SaveContextKeeps ==
  ASSUME Irq!IrqInv, Irq!SaveContext
  PROVE  Irq!IrqInv'
<1>1. stack = <<>> /\ todo # <<>> /\ Head(todo)[1] = "save" /\ todo' = Tail(todo)
      /\ contexts' = <<pie>> \o contexts
      /\ UNCHANGED <<pie, ienable, alt_irq_active, alt_priority_mask, alt_irq, exception_handler,
                     stack, lines>>
  BY DEF Irq!SaveContext, Irq!Step, Irq!Running, Irq!control, Irq!tables
<1>2. /\ Irq!TypeOK /\ Irq!CallSound /\ Irq!ActiveSound /\ Len(contexts) \in Nat
      /\ pie <=> ~Irq!Within /\ ~Irq!Starting
      /\ ienable = alt_irq_active
      /\ \A k \in 1 .. Len(contexts) : contexts[k] <=> k = Len(contexts)
  BY <1>1, ProgramState
<1>3. pie \in BOOLEAN /\ contexts \in Seq(BOOLEAN)
  BY <1>2 DEF Irq!TypeOK
<1>4. /\ contexts' \in Seq(BOOLEAN) /\ Len(contexts') = Len(contexts) + 1 /\ contexts'[1] = pie
      /\ \A k \in 2 .. Len(contexts') : contexts'[k] = contexts[k - 1]
  BY <1>1, <1>3, Pushed
<1>5. ~Irq!Starting
  BY <1>1 DEF Irq!Starting
<1>6. Irq!CallSound' /\ todo' # <<>> /\ Head(todo') = Irq!Off
  <2>1. CASE todo \in {<<>>, Irq!alt_irq_disable_all}
    <3>1. todo = <<Irq!Save, Irq!Off>>
      BY <2>1, <1>1 DEF Irq!alt_irq_disable_all
    <3>2. todo' = <<Irq!Off>>
      BY <3>1, <1>1
    <3> QED
      BY <3>2, <1>2, <1>4 DEF Irq!CallSound, Irq!Off
  <2>2. CASE todo \in {<<Irq!Off>>, <<Irq!Restore>>, <<Irq!Restore, Irq!Restore>>}
    BY <2>2, <1>1 DEF Irq!Off, Irq!Restore
  <2>3. CASE todo \in {Irq!alt_irq_init, Tail(Irq!alt_irq_init)}
    BY <2>3, <1>5, StartingAlone
  <2>4. ASSUME NEW i \in Irq!Irqs, NEW on \in BOOLEAN, Irq!RestOfSwitch(i, on), on => i \in alt_irq
        PROVE  Irq!CallSound' /\ todo' # <<>> /\ Head(todo') = Irq!Off
    <3>1. Head(todo) = Irq!Save
      BY <2>4, <1>1, <1>2, SwitchHead
    <3>2. Irq!RestOfSwitch(i, on)' /\ todo' # <<>> /\ Head(todo') = Irq!Off
      BY <3>1, <2>4, <1>1, <1>2, <1>4, SwitchSteps
    <3> QED
      BY <3>2, <2>4, <1>1 DEF Irq!CallSound, Irq!Irqs
  <2>5. ASSUME NEW i \in Irq!Irqs, NEW on \in BOOLEAN, Irq!RestOfRegister(i, on)
        PROVE  Irq!CallSound' /\ todo' # <<>> /\ Head(todo') = Irq!Off
    <3>1. Head(todo) = Irq!Save
      BY <2>5, <1>1, <1>2, RegisterHead
    <3>2. Irq!RestOfRegister(i, on)' /\ todo' # <<>> /\ Head(todo') = Irq!Off
      BY <3>1, <2>5, <1>1, <1>2, <1>4, RegisterSteps
    <3> QED
      BY <3>2, <2>5 DEF Irq!CallSound, Irq!Irqs
  <2> QED
    BY <2>1, <2>2, <2>3, <2>4, <2>5, <1>2 DEF Irq!CallSound
<1>7. Irq!Within' <=> Irq!Within
  BY <1>1, <1>2, <1>4, <1>6 DEF Irq!Within, Irq!Off
<1>8. ~Irq!Starting'
  BY <1>6 DEF Irq!Starting, Irq!Off
<1>9. Irq!ActiveSound'
  <2> SUFFICES ASSUME NEW i \in alt_irq_active \ alt_irq
               PROVE  Irq!Within' /\ Irq!RestOfSwitch(i, FALSE)'
    BY <1>1 DEF Irq!ActiveSound
  <2>1. i \in Irq!Irqs /\ Irq!Within /\ Irq!RestOfSwitch(i, FALSE)
    BY <1>2 DEF Irq!ActiveSound, Irq!TypeOK
  <2>2. Head(todo) = Irq!Save
    BY <2>1, <1>1, <1>2, SwitchHead
  <2> QED
    BY <2>1, <2>2, <1>1, <1>2, <1>4, <1>7, SwitchSteps
<1>10. \A k \in 1 .. Len(contexts') : contexts'[k] <=> k = Len(contexts')
  <2>1. contexts'[1] <=> Len(contexts') = 1
    BY <1>1, <1>2, <1>4, <1>5 DEF Irq!Within, Irq!Off
  <2>2. ASSUME NEW k \in 2 .. Len(contexts')
        PROVE  contexts'[k] <=> k = Len(contexts')
    BY <1>2, <1>4
  <2> QED
    BY <2>1, <2>2, <1>2, <1>4
<1> QED
  BY <1>1, <1>2, <1>3, <1>4, <1>5, <1>6, <1>7, <1>8, <1>9, <1>10, ProgramStep DEF Irq!TypeOK

\* ... and clears PIE: the section has begun.
LEMMA TurnOffKeeps ==
  ASSUME Irq!IrqInv, Irq!TurnOff
  PROVE  Irq!IrqInv'
<1>1. stack = <<>> /\ todo # <<>> /\ Head(todo)[1] = "off" /\ todo' = Tail(todo) /\ pie' = FALSE
      /\ UNCHANGED <<ienable, alt_irq_active, alt_priority_mask, alt_irq, exception_handler,
                     stack, contexts, lines>>
  BY DEF Irq!TurnOff, Irq!Step, Irq!Running, Irq!control, Irq!tables
<1>2. /\ Irq!TypeOK /\ Irq!CallSound /\ Irq!ActiveSound /\ Len(contexts) \in Nat
      /\ pie <=> ~Irq!Within /\ ~Irq!Starting
      /\ ienable = alt_irq_active
      /\ \A k \in 1 .. Len(contexts) : contexts[k] <=> k = Len(contexts)
  BY <1>1, ProgramState
<1>3. ~Irq!Starting
  BY <1>1 DEF Irq!Starting
<1>4. Irq!CallSound' /\ Len(contexts) >= 1 /\ (todo' # <<>> => Head(todo')[1] \in {"enable", "disable", "table"})
  <2>1. CASE todo \in {<<>>, Irq!alt_irq_disable_all, <<Irq!Restore>>, <<Irq!Restore, Irq!Restore>>}
    BY <2>1, <1>1 DEF Irq!alt_irq_disable_all, Irq!Save, Irq!Restore
  <2>2. CASE Len(contexts) >= 1 /\ todo = <<Irq!Off>>
    <3>1. todo' = <<>>
      BY <2>2, <1>1
    <3> QED
      BY <3>1, <2>2 DEF Irq!CallSound
  <2>3. CASE todo \in {Irq!alt_irq_init, Tail(Irq!alt_irq_init)}
    BY <2>3, <1>3, StartingAlone
  <2>4. ASSUME NEW i \in Irq!Irqs, NEW on \in BOOLEAN, Irq!RestOfSwitch(i, on), on => i \in alt_irq
        PROVE  /\ Irq!CallSound' /\ Len(contexts) >= 1 /\ Head(todo')[1] \in {"enable", "disable", "table"}
    <3>1. Head(todo) = Irq!Off
      BY <2>4, <1>1, <1>2, SwitchHead
    <3>2. Irq!RestOfSwitch(i, on)' /\ Len(contexts) >= 1 /\ Head(todo') = Irq!Switch(i, on)
      BY <3>1, <2>4, <1>1, <1>2, SwitchSteps
    <3>3. Irq!CallSound'
      BY <3>2, <2>4, <1>1 DEF Irq!CallSound, Irq!Irqs
    <3> QED
      BY <3>2, <3>3 DEF Irq!Switch
  <2>5. ASSUME NEW i \in Irq!Irqs, NEW on \in BOOLEAN, Irq!RestOfRegister(i, on)
        PROVE  /\ Irq!CallSound' /\ Len(contexts) >= 1 /\ Head(todo')[1] \in {"enable", "disable", "table"}
    <3>1. Head(todo) = Irq!Off
      BY <2>5, <1>1, <1>2, RegisterHead
    <3>2. Irq!RestOfRegister(i, on)' /\ Len(contexts) >= 1 /\ Head(todo') = Irq!Table(i, on)
      BY <3>1, <2>5, <1>1, <1>2, RegisterSteps
    <3>3. Irq!CallSound'
      BY <3>2, <2>5 DEF Irq!CallSound, Irq!Irqs
    <3> QED
      BY <3>2, <3>3 DEF Irq!Table
  <2> QED
    BY <2>1, <2>2, <2>3, <2>4, <2>5, <1>2 DEF Irq!CallSound
<1>5. Irq!Within'
  BY <1>1, <1>2, <1>4 DEF Irq!Within, Irq!Off
<1>6. ~Irq!Starting'
  BY <1>4 DEF Irq!Starting
<1>7. Irq!ActiveSound'
  <2> SUFFICES ASSUME NEW i \in alt_irq_active \ alt_irq
               PROVE  Irq!RestOfSwitch(i, FALSE)'
    BY <1>1, <1>5 DEF Irq!ActiveSound
  <2>1. i \in Irq!Irqs /\ Irq!RestOfSwitch(i, FALSE)
    BY <1>2 DEF Irq!ActiveSound, Irq!TypeOK
  <2>2. Head(todo) = Irq!Off
    BY <2>1, <1>1, <1>2, SwitchHead
  <2> QED
    BY <2>1, <2>2, <1>1, <1>2, SwitchSteps
<1> QED
  BY <1>1, <1>2, <1>4, <1>5, <1>6, <1>7, ProgramStep DEF Irq!TypeOK

\* alt_irq_enable_all(): the innermost section ends, with the status it has saved.
LEMMA RestoreContextKeeps ==
  ASSUME Irq!IrqInv, Irq!RestoreContext
  PROVE  Irq!IrqInv'
<1>1. stack = <<>> /\ todo # <<>> /\ Head(todo)[1] = "restore" /\ todo' = Tail(todo)
      /\ pie' = Head(contexts) /\ contexts' = Tail(contexts)
      /\ UNCHANGED <<ienable, alt_irq_active, alt_priority_mask, alt_irq, exception_handler,
                     stack, lines>>
  BY DEF Irq!RestoreContext, Irq!Step, Irq!Running, Irq!control, Irq!tables
<1>2. /\ Irq!TypeOK /\ Irq!CallSound /\ Irq!ActiveSound /\ Len(contexts) \in Nat
      /\ pie <=> ~Irq!Within /\ ~Irq!Starting
      /\ ienable = alt_irq_active
      /\ \A k \in 1 .. Len(contexts) : contexts[k] <=> k = Len(contexts)
  BY <1>1, ProgramState
<1>3. ~Irq!Starting
  BY <1>1 DEF Irq!Starting
<1>4. \A i \in Irq!Irqs, on \in BOOLEAN : ~Irq!RestOfSwitch(i, on) /\ ~Irq!RestOfRegister(i, on)
  BY <1>1, <1>2, SwitchHead, RegisterHead
<1>5. \/ Len(contexts) >= 1 /\ todo = <<Irq!Restore>> /\ todo' = <<>>
      \/ Len(contexts) >= 2 /\ todo = <<Irq!Restore, Irq!Restore>> /\ todo' = <<Irq!Restore>>
  <2>1. todo \notin {Irq!alt_irq_init, Tail(Irq!alt_irq_init)}
    BY <1>3, StartingAlone
  <2>2. todo \notin {<<>>, Irq!alt_irq_disable_all, <<Irq!Off>>}
    BY <1>1 DEF Irq!alt_irq_disable_all, Irq!Save, Irq!Off
  <2>3. \/ Len(contexts) >= 1 /\ todo = <<Irq!Restore>>
        \/ Len(contexts) >= 2 /\ todo = <<Irq!Restore, Irq!Restore>>
    BY <2>1, <2>2, <1>2, <1>4 DEF Irq!CallSound
  <2>4. ASSUME NEW op PROVE Tail(<<op>>) = <<>> /\ Tail(<<op, op>>) = <<op>>
    OBVIOUS
  <2> QED
    BY <2>3, <2>4, <1>1
<1>6. contexts \in Seq(BOOLEAN) /\ contexts # <<>>
  BY <1>2, <1>5 DEF Irq!TypeOK
<1>7. /\ contexts' \in Seq(BOOLEAN) /\ Len(contexts') = Len(contexts) - 1 /\ pie' = contexts[1]
      /\ contexts[1] \in BOOLEAN /\ \A k \in 1 .. Len(contexts') : contexts'[k] = contexts[k + 1]
  BY <1>1, <1>6, Popped
<1>8. Irq!CallSound'
  BY <1>2, <1>5, <1>7 DEF Irq!CallSound
<1>9. ~Irq!Starting' /\ (todo' # <<>> => Head(todo') # Irq!Off)
  BY <1>5 DEF Irq!Starting, Irq!Restore, Irq!Off
<1>10. pie' <=> ~Irq!Within'
  BY <1>2, <1>5, <1>7, <1>9 DEF Irq!Within
<1>11. Irq!ActiveSound'
  <2>1. alt_irq_active \subseteq alt_irq
    BY <1>2, <1>4 DEF Irq!ActiveSound, Irq!TypeOK
  <2> QED
    BY <2>1, <1>1 DEF Irq!ActiveSound
<1>12. \A k \in 1 .. Len(contexts') : contexts'[k] <=> k = Len(contexts')
  BY <1>2, <1>7
<1> QED
  BY <1>1, <1>2, <1>7, <1>8, <1>9, <1>10, <1>11, <1>12, ProgramStep DEF Irq!TypeOK

\* A line is switched, within the section of the call that switches it.
LEMMA SwitchLineKeeps ==
  ASSUME Irq!IrqInv, Irq!SwitchLine
  PROVE  Irq!IrqInv'
<1>1. stack = <<>> /\ todo # <<>> /\ Head(todo)[1] \in {"enable", "disable"} /\ todo' = Tail(todo)
      /\ alt_irq_active' = (IF Head(todo)[1] = "enable" THEN alt_irq_active \cup {Head(todo)[2]}
                            ELSE alt_irq_active \ {Head(todo)[2]})
      /\ ienable' = alt_irq_active'
      /\ UNCHANGED <<pie, alt_priority_mask, alt_irq, exception_handler, stack, contexts, lines>>
  BY DEF Irq!SwitchLine, Irq!SetActive, Irq!Step, Irq!Running, Irq!tables
<1>2. /\ Irq!TypeOK /\ Irq!CallSound /\ Irq!ActiveSound /\ Len(contexts) \in Nat
      /\ pie <=> ~Irq!Within /\ ~Irq!Starting
      /\ ienable = alt_irq_active
      /\ \A k \in 1 .. Len(contexts) : contexts[k] <=> k = Len(contexts)
  BY <1>1, ProgramState
<1>3. ~Irq!Starting
  BY <1>1 DEF Irq!Starting
<1>4. \A i \in Irq!Irqs, on \in BOOLEAN : ~Irq!RestOfRegister(i, on)
  BY <1>1, <1>2, RegisterHead
<1>5. todo \notin {Irq!alt_irq_init, Tail(Irq!alt_irq_init)}
  BY <1>3, StartingAlone
<1>6. todo \notin {<<>>, Irq!alt_irq_disable_all, <<Irq!Off>>, <<Irq!Restore>>, <<Irq!Restore, Irq!Restore>>}
  BY <1>1 DEF Irq!alt_irq_disable_all, Irq!Save, Irq!Off, Irq!Restore
<1>7. PICK i \in Irq!Irqs, on \in BOOLEAN : Irq!RestOfSwitch(i, on) /\ (on => i \in alt_irq)
  BY <1>2, <1>4, <1>5, <1>6 DEF Irq!CallSound
<1>8. Head(todo) = Irq!Switch(i, on)
  BY <1>1, <1>2, <1>7, SwitchHead
<1>9. /\ Head(todo) # Irq!Off
      /\ \/ todo' = <<Irq!Restore>> /\ Len(contexts) >= 1
         \/ todo' = <<Irq!Restore, Irq!Restore>> /\ Len(contexts) >= 2
  <2>1. Head(todo) # Irq!Off
    BY <1>1 DEF Irq!Off
  <2> QED
    BY <2>1, <1>1, <1>2, <1>7, <1>8, SwitchSteps
<1>10. Irq!CallSound'
  BY <1>1, <1>9 DEF Irq!CallSound
<1>11. ~Irq!Starting' /\ todo' # <<>> /\ Head(todo') # Irq!Off
  BY <1>9 DEF Irq!Starting, Irq!Restore, Irq!Off
<1>12. Irq!Within' <=> Irq!Within
  BY <1>1, <1>9, <1>11 DEF Irq!Within
<1>13. alt_irq_active' = IF on THEN alt_irq_active \cup {i} ELSE alt_irq_active \ {i}
  <2>1. Head(todo)[2] = i /\ (on <=> Head(todo)[1] = "enable")
    BY <1>8 DEF Irq!Switch
  <2> QED
    BY <2>1, <1>1
<1>14. alt_irq_active' \subseteq alt_irq
  <2> SUFFICES ASSUME NEW j \in alt_irq_active', j \notin alt_irq
               PROVE  FALSE
    OBVIOUS
  <2>1. j \in alt_irq_active /\ (~on => j # i)
    BY <1>7, <1>13
  <2>2. Irq!RestOfSwitch(j, FALSE) /\ j \in Irq!Irqs
    BY <2>1, <1>2 DEF Irq!ActiveSound, Irq!TypeOK
  <2>3. Head(todo) = <<"disable", j>>
    BY <2>2, <1>1, <1>2, SwitchHead DEF Irq!Switch
  <2>4. on
    BY <2>1, <2>3, <1>8 DEF Irq!Switch
  <2> QED
    BY <2>3, <2>4, <1>8 DEF Irq!Switch
<1>15. Irq!ActiveSound'
  BY <1>1, <1>14 DEF Irq!ActiveSound
<1>16. alt_irq_active' \subseteq Irq!Irqs
  BY <1>2, <1>13 DEF Irq!TypeOK
<1> QED
  BY <1>1, <1>2, <1>3, <1>10, <1>11, <1>12, <1>15, <1>16, ProgramStep DEF Irq!TypeOK

\* A handler is entered into the table or taken out: a line without one is still
\* wanted only until the call's next steps have switched it off.
LEMMA SetTableKeeps ==
  ASSUME Irq!IrqInv, Irq!SetTable
  PROVE  Irq!IrqInv'
<1>1. stack = <<>> /\ todo # <<>> /\ Head(todo)[1] = "table" /\ todo' = Tail(todo)
      /\ alt_irq' = (IF Head(todo)[3] THEN alt_irq \cup {Head(todo)[2]} ELSE alt_irq \ {Head(todo)[2]})
      /\ UNCHANGED <<pie, ienable, alt_irq_active, alt_priority_mask, exception_handler, stack,
                     contexts, lines>>
  BY DEF Irq!SetTable, Irq!Step, Irq!Running, Irq!control
<1>2. /\ Irq!TypeOK /\ Irq!CallSound /\ Irq!ActiveSound /\ Len(contexts) \in Nat
      /\ pie <=> ~Irq!Within /\ ~Irq!Starting
      /\ ienable = alt_irq_active
      /\ \A k \in 1 .. Len(contexts) : contexts[k] <=> k = Len(contexts)
  BY <1>1, ProgramState
<1>3. ~Irq!Starting
  BY <1>1 DEF Irq!Starting
<1>4. \A i \in Irq!Irqs, on \in BOOLEAN : ~Irq!RestOfSwitch(i, on)
  BY <1>1, <1>2, SwitchHead
<1>5. todo \notin {Irq!alt_irq_init, Tail(Irq!alt_irq_init)}
  BY <1>3, StartingAlone
<1>6. todo \notin {<<>>, Irq!alt_irq_disable_all, <<Irq!Off>>, <<Irq!Restore>>, <<Irq!Restore, Irq!Restore>>}
  BY <1>1 DEF Irq!alt_irq_disable_all, Irq!Save, Irq!Off, Irq!Restore
<1>7. PICK i \in Irq!Irqs, on \in BOOLEAN : Irq!RestOfRegister(i, on)
  BY <1>2, <1>4, <1>5, <1>6 DEF Irq!CallSound
<1>8. Head(todo) = Irq!Table(i, on)
  BY <1>1, <1>2, <1>7, RegisterHead
<1>9. Head(todo) # Irq!Off
  BY <1>1 DEF Irq!Off
<1>10. Irq!RestOfSwitch(i, on)' /\ todo' # <<>> /\ Head(todo') = Irq!Save /\ Len(contexts) >= 1
  BY <1>1, <1>2, <1>7, <1>8, RegisterSteps
<1>11. alt_irq' = IF on THEN alt_irq \cup {i} ELSE alt_irq \ {i}
  <2>1. Head(todo)[2] = i /\ (Head(todo)[3] <=> on)
    BY <1>8 DEF Irq!Table
  <2> QED
    BY <2>1, <1>1
<1>12. Irq!CallSound'
  BY <1>10, <1>11 DEF Irq!CallSound, Irq!Irqs
<1>13. ~Irq!Starting' /\ Irq!Within' /\ Irq!Within
  BY <1>1, <1>2, <1>9, <1>10 DEF Irq!Starting, Irq!Within, Irq!Save, Irq!Off
<1>14. Irq!ActiveSound'
  <2> SUFFICES ASSUME NEW j \in alt_irq_active', j \notin alt_irq'
               PROVE  Irq!RestOfSwitch(j, FALSE)'
    BY <1>13 DEF Irq!ActiveSound
  <2>1. j \in alt_irq
    BY <1>1, <1>2, <1>4 DEF Irq!ActiveSound, Irq!TypeOK
  <2>2. j = i /\ on = FALSE
    BY <2>1, <1>11
  <2> QED
    BY <2>2, <1>10
<1>15. alt_irq' \subseteq Irq!Irqs
  BY <1>2, <1>11 DEF Irq!TypeOK
<1> QED
  BY <1>1, <1>2, <1>3, <1>12, <1>13, <1>14, <1>15, ProgramStep DEF Irq!TypeOK

\* alt_irq_init(): the controller is cleared, and PIE set for the first time.
LEMMA InitIrqKeeps ==
  ASSUME Irq!IrqInv, Irq!InitIrq
  PROVE  Irq!IrqInv'
<1>1. stack = <<>> /\ todo # <<>> /\ Head(todo)[1] \in {"clear", "on"} /\ todo' = Tail(todo)
      /\ \/ Head(todo)[1] = "clear" /\ ienable' = {} /\ pie' = pie
         \/ Head(todo)[1] = "on" /\ pie' = TRUE /\ ienable' = ienable
      /\ UNCHANGED <<alt_irq_active, alt_priority_mask, alt_irq, exception_handler, stack, contexts, lines>>
  BY DEF Irq!InitIrq, Irq!Step, Irq!Running, Irq!tables
<1>2. /\ Irq!TypeOK /\ Irq!CallSound /\ Irq!ActiveSound /\ Len(contexts) \in Nat
      /\ pie <=> ~Irq!Within /\ ~Irq!Starting
      /\ ienable = alt_irq_active
      /\ \A k \in 1 .. Len(contexts) : contexts[k] <=> k = Len(contexts)
  BY <1>1, ProgramState
<1>3. Irq!Starting
  BY <1>1 DEF Irq!Starting
<1>4. contexts = <<>> /\ alt_irq_active = {} /\ todo \in {Irq!alt_irq_init, Tail(Irq!alt_irq_init)}
  BY <1>3, StartingAlone
<1>5. Tail(Irq!alt_irq_init) = << <<"on">> >> /\ Irq!alt_irq_init = << <<"clear">>, <<"on">> >>
  BY DEF Irq!alt_irq_init
<1>6. ~Irq!Within /\ ~Irq!Within'
  BY <1>1, <1>4 DEF Irq!Within
<1>7. CASE todo = Irq!alt_irq_init
  <2>1. todo' = Tail(Irq!alt_irq_init) /\ Head(todo)[1] = "clear"
    BY <1>1, <1>5, <1>7
  <2>2. Irq!CallSound'
    BY <2>1, <1>1, <1>4 DEF Irq!CallSound, Irq!alt_irq_init
  <2>3. Irq!Starting'
    BY <2>1, <1>5 DEF Irq!Starting
  <2>4. Irq!ActiveSound'
    BY <1>1, <1>4 DEF Irq!ActiveSound
  <2>5. ienable' = alt_irq_active' /\ pie' = pie
    BY <2>1, <1>1, <1>4
  <2> QED
    BY <2>2, <2>3, <2>4, <2>5, <1>1, <1>2, <1>3, <1>6, ProgramStep DEF Irq!TypeOK
<1>8. CASE todo = Tail(Irq!alt_irq_init)
  <2>1. todo' = <<>> /\ Head(todo)[1] = "on"
    BY <1>1, <1>5, <1>8
  <2>2. Irq!CallSound' /\ ~Irq!Starting'
    BY <2>1 DEF Irq!CallSound, Irq!Starting
  <2>3. Irq!ActiveSound'
    BY <1>1, <1>4 DEF Irq!ActiveSound
  <2>4. ienable' = alt_irq_active' /\ pie' = TRUE
    BY <2>1, <1>1, <1>2
  <2> QED
    BY <2>2, <2>3, <2>4, <1>1, <1>2, <1>6, ProgramStep DEF Irq!TypeOK
<1> QED
  BY <1>4, <1>7, <1>8

\* A call begins: it changes nothing until its first step.
LEMMA CallKeeps ==
  ASSUME Irq!IrqInv, stack = <<>>, todo = <<>>, todo' # <<>>, Head(todo') \in {Irq!Save, Irq!Restore}, Irq!CallSound',
         UNCHANGED <<pie, Irq!control, Irq!tables, stack, contexts, lines>>
  PROVE  Irq!IrqInv'
<1>1. UNCHANGED <<ienable, alt_irq_active, alt_priority_mask, alt_irq, exception_handler>>
  BY DEF Irq!control, Irq!tables
<1>2. /\ Irq!TypeOK /\ Irq!CallSound /\ Irq!ActiveSound /\ Len(contexts) \in Nat
      /\ pie <=> ~Irq!Within /\ ~Irq!Starting
      /\ ienable = alt_irq_active
      /\ \A k \in 1 .. Len(contexts) : contexts[k] <=> k = Len(contexts)
  BY ProgramState
<1>3. Head(todo') # Irq!Off /\ ~Irq!Starting' /\ ~Irq!Starting
  BY DEF Irq!Save, Irq!Restore, Irq!Off, Irq!Starting
<1>4. Irq!Within' <=> Irq!Within
  BY <1>3 DEF Irq!Within
<1>5. Irq!ActiveSound'
  <2>1. \A i \in Irq!Irqs : ~Irq!RestOfSwitch(i, FALSE)
    BY <1>2, SwitchSteps
  <2>2. alt_irq_active \subseteq alt_irq
    BY <2>1, <1>2 DEF Irq!ActiveSound, Irq!TypeOK
  <2> QED
    BY <2>2, <1>1 DEF Irq!ActiveSound
<1> QED
  BY <1>1, <1>2, <1>3, <1>4, <1>5, ProgramStep DEF Irq!TypeOK

\* What the calls are made of.
LEMMA CallsMade ==
  ASSUME NEW i \in Irq!Irqs
  PROVE  /\ Irq!alt_irq_enable(i) = <<Irq!Save, Irq!Off, Irq!Switch(i, TRUE), Irq!Restore>>
         /\ Irq!alt_irq_disable(i) = <<Irq!Save, Irq!Off, Irq!Switch(i, FALSE), Irq!Restore>>
         /\ \A on \in BOOLEAN :
              Irq!alt_iic_isr_register(i, on)
                = <<Irq!Save, Irq!Off, Irq!Table(i, on), Irq!Save, Irq!Off, Irq!Switch(i, on), Irq!Restore, Irq!Restore>>
<1>1. ASSUME NEW op
      PROVE  <<Irq!Save, Irq!Off>> \o <<op>> \o <<Irq!Restore>> = <<Irq!Save, Irq!Off, op, Irq!Restore>>
  <2> DEFINE S == {Irq!Save, Irq!Off, op, Irq!Restore}
             s == <<Irq!Save, Irq!Off>> \o <<op>> \o <<Irq!Restore>>
             t == <<Irq!Save, Irq!Off, op, Irq!Restore>>
  <2>1. Irq!Save \in S /\ Irq!Off \in S /\ op \in S /\ Irq!Restore \in S
    OBVIOUS
  <2> HIDE DEF S
  <2>2. s \in Seq(S) /\ Len(s) = 4 /\ t \in Seq(S) /\ Len(t) = 4 /\ \A k \in 1 .. 4 : s[k] = t[k]
    BY <2>1
  <2> HIDE DEF s, t
  <2>3. s = t
    BY <2>2, SeqEqual
  <2> QED
    BY <2>3 DEF s, t
<1>2. ASSUME NEW table, NEW op
      PROVE  <<Irq!Save, Irq!Off>> \o <<table>> \o <<Irq!Save, Irq!Off, op, Irq!Restore>> \o <<Irq!Restore>>
               = <<Irq!Save, Irq!Off, table, Irq!Save, Irq!Off, op, Irq!Restore, Irq!Restore>>
  <2> DEFINE S == {Irq!Save, Irq!Off, table, op, Irq!Restore}
             s == <<Irq!Save, Irq!Off>> \o <<table>> \o <<Irq!Save, Irq!Off, op, Irq!Restore>> \o <<Irq!Restore>>
             t == <<Irq!Save, Irq!Off, table, Irq!Save, Irq!Off, op, Irq!Restore, Irq!Restore>>
  <2>1. Irq!Save \in S /\ Irq!Off \in S /\ table \in S /\ op \in S /\ Irq!Restore \in S
    OBVIOUS
  <2> HIDE DEF S
  <2>2. s \in Seq(S) /\ Len(s) = 8 /\ t \in Seq(S) /\ Len(t) = 8 /\ \A k \in 1 .. 8 : s[k] = t[k]
    BY <2>1
  <2> HIDE DEF s, t
  <2>3. s = t
    BY <2>2, SeqEqual
  <2> QED
    BY <2>3 DEF s, t
<1>3. Irq!alt_irq_enable(i) = <<Irq!Save, Irq!Off, Irq!Switch(i, TRUE), Irq!Restore>>
  BY <1>1 DEF Irq!alt_irq_enable, Irq!alt_irq_disable_all, Irq!alt_irq_enable_all, Irq!Switch
<1>4. Irq!alt_irq_disable(i) = <<Irq!Save, Irq!Off, Irq!Switch(i, FALSE), Irq!Restore>>
  BY <1>1 DEF Irq!alt_irq_disable, Irq!alt_irq_disable_all, Irq!alt_irq_enable_all, Irq!Switch
<1>5. ASSUME NEW on \in BOOLEAN
      PROVE  Irq!alt_iic_isr_register(i, on)
               = <<Irq!Save, Irq!Off, Irq!Table(i, on), Irq!Save, Irq!Off, Irq!Switch(i, on), Irq!Restore, Irq!Restore>>
  <2>1. (IF on THEN Irq!alt_irq_enable(i) ELSE Irq!alt_irq_disable(i)) = <<Irq!Save, Irq!Off, Irq!Switch(i, on), Irq!Restore>>
    BY <1>3, <1>4
  <2>2. Irq!alt_iic_isr_register(i, on)
          = <<Irq!Save, Irq!Off>> \o <<Irq!Table(i, on)>>
              \o (IF on THEN Irq!alt_irq_enable(i) ELSE Irq!alt_irq_disable(i)) \o <<Irq!Restore>>
    BY DEF Irq!alt_iic_isr_register, Irq!alt_irq_disable_all, Irq!alt_irq_enable_all, Irq!Table
  <2> QED
    BY <2>1, <2>2, <1>2
<1> QED
  BY <1>3, <1>4, <1>5

\* The program's next call.
LEMMA CallIrqKeeps ==
  ASSUME Irq!IrqInv, Irq!CallIrq
  PROVE  Irq!IrqInv'
<1>1. stack = <<>> /\ todo = <<>> /\ UNCHANGED <<pie, Irq!control, Irq!tables, stack, contexts, lines>>
  BY DEF Irq!CallIrq, Irq!Idle, Irq!Running
<1>2. UNCHANGED <<alt_irq, contexts>> /\ alt_irq \subseteq Irq!Irqs
  BY <1>1 DEF Irq!tables, Irq!IrqInv, Irq!TypeOK
<1>3. CASE todo' = Irq!alt_irq_disable_all
  <2>1. Irq!CallSound'
    BY <1>3 DEF Irq!CallSound, Irq!alt_irq_disable_all
  <2>2. todo' # <<>> /\ Head(todo') = Irq!Save
    BY <1>3 DEF Irq!alt_irq_disable_all
  <2> QED
    BY <2>1, <2>2, <1>1, CallKeeps
<1>4. ASSUME NEW i \in alt_irq, NEW on \in BOOLEAN, todo' = <<Irq!Save, Irq!Off, Irq!Switch(i, on), Irq!Restore>>
      PROVE  Irq!IrqInv'
  <2>1. Irq!RestOfSwitch(i, on)' /\ i \in Irq!Irqs
    BY <1>2, <1>4 DEF Irq!RestOfSwitch, Irq!Switch, Irq!Save, Irq!Off, Irq!Restore
  <2>2. Irq!CallSound'
    BY <2>1, <1>2 DEF Irq!CallSound, Irq!Irqs
  <2>3. todo' # <<>> /\ Head(todo') = Irq!Save
    BY <1>4
  <2> QED
    BY <2>2, <2>3, <1>1, CallKeeps
<1>5. ASSUME NEW i \in Irq!Irqs, NEW on \in BOOLEAN,
             todo' = <<Irq!Save, Irq!Off, Irq!Table(i, on), Irq!Save, Irq!Off, Irq!Switch(i, on), Irq!Restore, Irq!Restore>>
      PROVE  Irq!IrqInv'
  <2>1. Irq!RestOfRegister(i, on)'
    BY <1>5 DEF Irq!RestOfRegister, Irq!Switch, Irq!Table, Irq!Save, Irq!Off, Irq!Restore
  <2>2. Irq!CallSound'
    BY <2>1 DEF Irq!CallSound, Irq!Irqs
  <2>3. todo' # <<>> /\ Head(todo') = Irq!Save
    BY <1>5
  <2> QED
    BY <2>2, <2>3, <1>1, CallKeeps
<1> QED
  BY <1>2, <1>3, <1>4, <1>5, CallsMade DEF Irq!CallIrq

\* The program ends a section of its own.
LEMMA EndSectionKeeps ==
  ASSUME Irq!IrqInv, Irq!EndSection
  PROVE  Irq!IrqInv'
<1>1. stack = <<>> /\ todo = <<>> /\ contexts # <<>> /\ todo' = <<Irq!Restore>>
      /\ UNCHANGED <<pie, Irq!control, Irq!tables, stack, contexts, lines>>
  BY DEF Irq!EndSection, Irq!Idle, Irq!Running, Irq!alt_irq_enable_all
<1>2. Len(contexts) >= 1
  BY <1>1 DEF Irq!IrqInv, Irq!TypeOK
<1>3. Irq!CallSound' /\ todo' # <<>> /\ Head(todo') = Irq!Restore
  BY <1>1, <1>2 DEF Irq!CallSound, Irq!Restore
<1> QED
  BY <1>1, <1>3, CallKeeps

-----------------------------------------------------------------------------
(* Devices, exceptions and the first state                                 *)

\* What the invariant says of the frames, masks and calls reads nothing else.
LEMMA RestOutside ==
  ASSUME Irq!IrqInv,
         UNCHANGED <<pie, ienable, alt_irq_active, alt_priority_mask, alt_irq, stack, todo, contexts>>
  PROVE  Irq!StackSound' /\ Irq!MaskSound' /\ Irq!StatusSound' /\ Irq!CallSound' /\ Irq!ActiveSound'
<1>1. Irq!StackSound /\ Irq!MaskSound /\ Irq!StatusSound /\ Irq!CallSound /\ Irq!ActiveSound
  BY DEF Irq!IrqInv
<1>2. \A k : Irq!Mask(k)' = Irq!Mask(k)
  BY DEF Irq!Mask, Irq!Irqs, Irq!Below
<1>3. Irq!StackSound' /\ Irq!MaskSound'
  BY <1>1, <1>2 DEF Irq!StackSound, Irq!MaskSound, Irq!Top, Irq!Allowing, Irq!Handling, Irq!Serving
<1>4. Irq!Within' = Irq!Within /\ Irq!Starting' = Irq!Starting /\ Irq!Status' = Irq!Status
  BY DEF Irq!Within, Irq!Starting, Irq!Status
<1>5. Irq!StatusSound'
  BY <1>1, <1>4 DEF Irq!StatusSound, Irq!Top, Irq!Allowing
<1>6. \A i, on : Irq!RestOfSwitch(i, on)' = Irq!RestOfSwitch(i, on)
                 /\ Irq!RestOfRegister(i, on)' = Irq!RestOfRegister(i, on)
  BY DEF Irq!RestOfSwitch, Irq!RestOfRegister
<1>7. Irq!CallSound' /\ Irq!ActiveSound'
  BY <1>1, <1>4, <1>6 DEF Irq!CallSound, Irq!ActiveSound
<1> QED
  BY <1>3, <1>5, <1>7

\* A device asks: no frame, mask or call is touched.
LEMMA RaiseKeeps ==
  ASSUME Irq!IrqInv, Irq!Raise
  PROVE  Irq!IrqInv'
<1>1. /\ lines' \subseteq Irq!Irqs
      /\ UNCHANGED <<pie, ienable, alt_irq_active, alt_priority_mask, alt_irq, exception_handler,
                     stack, todo, contexts>>
  BY DEF Irq!Raise, Irq!IrqInv, Irq!TypeOK, Irq!control, Irq!tables, Irq!program, Irq!Irqs
<1>2. Irq!TypeOK'
  BY <1>1 DEF Irq!IrqInv, Irq!TypeOK, Irq!Irqs
<1>3. Irq!StackSound' /\ Irq!MaskSound' /\ Irq!StatusSound' /\ Irq!CallSound' /\ Irq!ActiveSound'
  BY <1>1, RestOutside
<1> QED
  BY <1>2, <1>3 DEF Irq!IrqInv

\* A handler of exceptions is registered: nothing else is touched.
LEMMA RegisterExceptionKeeps ==
  ASSUME Irq!IrqInv, Irq!alt_instruction_exception_register
  PROVE  Irq!IrqInv'
<1>1. /\ exception_handler' \in BOOLEAN
      /\ UNCHANGED <<pie, ienable, alt_irq_active, alt_priority_mask, alt_irq,
                     stack, todo, contexts, lines>>
  BY DEF Irq!alt_instruction_exception_register, Irq!control, Irq!program
<1>2. Irq!TypeOK'
  BY <1>1 DEF Irq!IrqInv, Irq!TypeOK, Irq!Irqs
<1>3. Irq!StackSound' /\ Irq!MaskSound' /\ Irq!StatusSound' /\ Irq!CallSound' /\ Irq!ActiveSound'
  BY <1>1, RestOutside
<1> QED
  BY <1>2, <1>3 DEF Irq!IrqInv

\* An interrupt, or an instruction that raises an exception.
LEMMA ExceptionKeeps ==
  ASSUME Irq!IrqInv, Irq!Interrupt \/ Irq!Fault
  PROVE  Irq!IrqInv'
<1>1. Irq!TypeOK /\ Irq!StatusSound /\ Irq!CallSound
  BY DEF Irq!IrqInv
<1>2. lines' \subseteq Irq!Irqs
  BY <1>1, Zenon DEF Irq!Interrupt, Irq!Fault, Irq!TypeOK, Irq!Irqs
<1>3. Irq!Enter /\ (pie \/ stack = <<>>)
  BY DEF Irq!Interrupt, Irq!Fault
<1>4. ~Irq!Starting
  <2>1. CASE Irq!Interrupt
    <3>1. Irq!Starting => stack = <<>> /\ Irq!Status = pie
      BY StartingAlone DEF Irq!Status
    <3> QED
      BY <3>1, <2>1, <1>1 DEF Irq!Interrupt, Irq!StatusSound
  <2>2. CASE Irq!Fault
    BY <2>2 DEF Irq!Fault, Irq!Starting
  <2> QED
    BY <2>1, <2>2
<1> QED
  BY <1>2, <1>3, <1>4, EnterKeeps

\* The first state: the program has yet to clear the controller.
LEMMA IrqInit == ASSUME Irq!Init PROVE Irq!IrqInv
<1>1. ALT_NIRQ \in Nat
  BY IrqAssumption DEF Irq!Bounds
<1>2. Irq!TypeOK
  <2>1. stack \in Seq(Irq!Frames) /\ contexts \in Seq(BOOLEAN)
    BY DEF Irq!Init
  <2>2. pie \in BOOLEAN /\ exception_handler \in BOOLEAN
    BY DEF Irq!Init
  <2>3. /\ ienable \subseteq Irq!Irqs /\ alt_irq_active \subseteq Irq!Irqs /\ alt_priority_mask \subseteq Irq!Irqs
        /\ alt_irq \subseteq Irq!Irqs /\ lines \subseteq Irq!Irqs
    BY Zenon DEF Irq!Init
  <2> QED
    BY <2>1, <2>2, <2>3 DEF Irq!TypeOK
<1>3. Len(stack) = 0 /\ Len(contexts) = 0
  BY DEF Irq!Init
<1>4. Irq!StackSound
  BY <1>3 DEF Irq!StackSound
<1>5. Irq!MaskSound
  BY <1>3 DEF Irq!MaskSound, Irq!Mask, Irq!Init, Irq!Irqs
<1>6. Irq!Starting /\ ~pie /\ stack = <<>>
  BY DEF Irq!Starting, Irq!Init, Irq!alt_irq_init
<1>7. Irq!StatusSound
  BY <1>3, <1>6 DEF Irq!StatusSound, Irq!Status
<1>8. Irq!CallSound
  BY DEF Irq!CallSound, Irq!Init
<1>9. Irq!ActiveSound
  BY DEF Irq!ActiveSound, Irq!Init
<1> QED
  BY <1>2, <1>4, <1>5, <1>7, <1>8, <1>9 DEF Irq!IrqInv

\* Every step keeps the invariant.
LEMMA IrqStep == ASSUME Irq!IrqInv, Irq!Next PROVE Irq!IrqInv'
<1>1. ASSUME Irq!Program PROVE Irq!IrqInv'
  BY <1>1, SaveContextKeeps, TurnOffKeeps, RestoreContextKeeps, SwitchLineKeeps, SetTableKeeps,
     InitIrqKeeps DEF Irq!Program
<1> QED
  BY <1>1, RaiseKeeps, ExceptionKeeps, HandlersKeep, CallIrqKeeps, EndSectionKeeps,
     RegisterExceptionKeeps DEF Irq!Next

\* Within a section no handler runs: what interrupts a handler or the program
\* comes in an interrupt, which the section's program does not allow.
LEMMA NoHandlerWithin ==
  ASSUME Irq!IrqInv, Irq!Within
  PROVE  ~pie /\ \A k \in 1 .. Len(stack) : stack[k].at \in {"entry", "unknown", "break"}
<1>1. Irq!TypeOK /\ Irq!StackSound /\ Irq!StatusSound
  BY DEF Irq!IrqInv
<1>2. stack \in Seq(Irq!Frames) /\ Len(stack) \in Nat
  BY <1>1 DEF Irq!TypeOK
<1>3. ~Irq!Status
  BY <1>1 DEF Irq!StatusSound
<1>4. CASE stack = <<>>
  BY <1>3, <1>4 DEF Irq!Status
<1>5. CASE stack # <<>>
  <2>1. Len(stack) \in 1 .. Len(stack) /\ ~stack[Len(stack)].estatus
    BY <1>2, <1>3, <1>5 DEF Irq!Status
  <2>2. 1 \in 1 .. Len(stack) /\ Len(stack) = 1
    <3>1. Len(stack) <= 1
      <4> SUFFICES ASSUME Len(stack) > 1 PROVE FALSE
        BY <1>2
      <4>1. Len(stack) - 1 \in 1 .. Len(stack) /\ stack[Len(stack)].at \in Irq!Allowing
        BY <1>2, <1>1, <2>1 DEF Irq!StackSound
      <4> QED
        BY <4>1, <2>1, <1>1 DEF Irq!StackSound, Irq!Handling, Irq!Serving
    <3>2. Len(stack) >= 1
      BY <2>1, <1>2
    <3>3. Len(stack) = 1
      <4>1. Len(stack) \in Nat
        BY <1>2
      <4>2. ASSUME NEW n \in Nat, n <= 1, n >= 1 PROVE n = 1
        BY <4>2
      <4> QED
        BY <3>1, <3>2, <4>1, <4>2, Zenon
    <3> QED
      BY <3>3
  <2>3. stack[1].at \notin Irq!Handling
    BY <2>1, <2>2, <1>1 DEF Irq!StackSound
  <2>4. stack[1] \in Irq!Frames
    BY <2>2, <1>2, ElementOfSeq
  <2>5. stack[1].at \in {"entry", "unknown", "break"}
    BY <2>3, <2>4 DEF Irq!Frames
  <2>6. Irq!Top = stack[1]
    BY <1>2, <1>5 DEF Irq!Top
  <2>7. ~pie
    BY <2>3, <2>6, <1>1, <1>5 DEF Irq!StatusSound, Irq!Handling, Irq!Serving
  <2> QED
    BY <2>2, <2>5, <2>7
<1> QED
  BY <1>4, <1>5

\* The discipline follows.
LEMMA Disciplined == ASSUME Irq!IrqInv PROVE Irq!InterruptDiscipline
<1>1. Irq!TypeOK /\ Irq!StackSound /\ Irq!MaskSound /\ Irq!StatusSound
  BY DEF Irq!IrqInv
<1>2. stack \in Seq(Irq!Frames) /\ Len(stack) \in Nat
  BY <1>1 DEF Irq!TypeOK
<1>3. ASSUME NEW k \in 1 .. Len(stack) - 1, stack[k].at \in {"isr", "open", "closing"}
      PROVE  stack[k].irq < stack[k + 1].irq
  <2>1. k \in 1 .. Len(stack) /\ ~(k + 1 > Len(stack)) /\ k + 1 \in 1 .. Len(stack)
    BY <1>2
  <2>2. stack[k].irq \in Irq!Mask(k + 1)
    BY <2>1, <1>1, <1>3 DEF Irq!StackSound, Irq!Serving, Irq!Allowing
  <2>3. stack[k].irq \in 0 .. stack[k + 1].irq - 1
    BY <2>1, <2>2 DEF Irq!Mask, Irq!Below
  <2>4. stack[k + 1] \in Irq!Frames
    BY <2>1, <1>2
  <2>5. stack[k + 1].irq \in Int
    BY <2>4, IrqAssumption DEF Irq!Frames, Irq!Bounds
  <2> QED
    BY <2>3, <2>5
<1>4. ienable = alt_irq_active \cap alt_priority_mask
  BY <1>1 DEF Irq!MaskSound
<1>5. Irq!In("open") => alt_priority_mask = Irq!Below(Irq!Top.irq)
  <2> SUFFICES ASSUME stack # <<>>, Irq!Top.at = "open" PROVE alt_priority_mask = Irq!Below(Irq!Top.irq)
    BY DEF Irq!In
  <2>1. alt_priority_mask = Irq!Mask(1)
    BY <1>1 DEF Irq!MaskSound, Irq!Allowing
  <2> QED
    BY <2>1, <1>2 DEF Irq!Mask, Irq!Top
<1>6. stack = <<>> => alt_priority_mask = Irq!Irqs
  BY <1>1 DEF Irq!MaskSound, Irq!Mask
<1>7. Irq!Within => ~pie /\ \A k \in 1 .. Len(stack) : stack[k].at \in {"entry", "unknown", "break"}
  BY NoHandlerWithin
<1>8. \A k \in 1 .. Len(stack) : stack[k].at = "isr" => stack[k].irq \in alt_irq
  BY <1>1 DEF Irq!StackSound
<1> QED
  BY <1>3, <1>4, <1>5, <1>6, <1>7, <1>8 DEF Irq!InterruptDiscipline

-----------------------------------------------------------------------------
(* The interrupts: the theorems                                            *)

\* A step of the processor, the devices, a handler or the program, or none.
LEMMA IrqNextInv == Irq!IrqInv /\ [Irq!Next]_Irq!vars => Irq!IrqInv'
<1> SUFFICES ASSUME Irq!IrqInv, UNCHANGED Irq!vars PROVE Irq!IrqInv'
  BY IrqStep
<1>1. /\ UNCHANGED <<pie, ienable, alt_irq_active, alt_priority_mask, alt_irq, exception_handler>>
      /\ UNCHANGED <<lines, stack, todo, contexts>>
  BY DEF Irq!vars, Irq!control, Irq!tables, Irq!program
<1>2. Irq!TypeOK'
  BY <1>1 DEF Irq!IrqInv, Irq!TypeOK, Irq!Irqs
<1> QED
  BY <1>1, <1>2, RestOutside DEF Irq!IrqInv

\* Of every state of the interrupts: each handler but the innermost allows to
\* be interrupted and has itself come in an interrupt, the mask is the one of
\* whoever runs and each handler keeps the one to go back to, PIE is what the
\* program's section and call leave it, and the call is at one of its steps.
THEOREM IrqInvariant == Irq!Spec => []Irq!IrqInv
<1>1. Irq!Init => Irq!IrqInv
  BY IrqInit
<1>2. Irq!IrqInv /\ [Irq!Next]_Irq!vars => Irq!IrqInv'
  BY IrqNextInv
<1> QED
  BY <1>1, <1>2, PTL DEF Irq!Spec

-----------------------------------------------------------------------------
(* The driver and the interrupts, one of the two at a time                 *)

\* A step of the two is a step of one, and the other stands still.
LEMMA BothSteps ==
  ASSUME [BothNext]_both
  PROVE  [Next]_vars /\ [Irq!Next]_Irq!vars
<1>1. ASSUME UNCHANGED uart PROVE UNCHANGED vars
  BY <1>1 DEF uart, vars, rx, tx, host, device, caller
<1>2. ASSUME UNCHANGED interrupts PROVE UNCHANGED Irq!vars
  BY <1>2 DEF interrupts, Irq!vars, Irq!control, Irq!tables, Irq!program
<1> QED
  BY <1>1, <1>2 DEF BothNext, InUart, InIrq, both

\* Both invariants hold of the two as MCProcessor runs them.
THEOREM ProcessorInvariant == BothSpec => [](UartInv /\ Irq!IrqInv)
<1>1. BothInit => UartInv /\ Irq!IrqInv
  BY InitInv, IrqInit DEF BothInit
<1>2. UartInv /\ Irq!IrqInv /\ [BothNext]_both => (UartInv /\ Irq!IrqInv)'
  BY BothSteps, NextInv, IrqNextInv
<1> QED
  BY <1>1, <1>2, PTL DEF BothSpec

\* A handler is interrupted by a more urgent one only, the lines let through
\* are those wanted and allowed, a handler that runs is registered, and none
\* runs within a section without interrupts, however sections and calls are
\* nested: alt_irq_handler(), alt_irq_interruptible(), alt_irq_disable_all()
\* and the calls that enable, disable and register a line.
THEOREM InterruptDisciplineHolds == BothSpec => []InterruptDiscipline
<1>1. Irq!IrqInv => InterruptDiscipline
  BY Disciplined DEF InterruptDiscipline
<1> QED
  BY <1>1, ProcessorInvariant, PTL
=============================================================================
