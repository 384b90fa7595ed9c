--------------------------- MODULE HwSwLinkProofs ---------------------------
(***************************************************************************)
(* Proofs about HwSwLink, for any number of objects and any frames.        *)
(***************************************************************************)
EXTENDS HwSwLink, TLAPS

\* The latches keep ten, ten, three and three bits of what lies on a port.
LEMMA ImageRanges ==
  ASSUME NEW v \in Int, NEW i \in Int
  PROVE  /\ XImage(v) \in TenBits
         /\ YImage(i, v) \in TenBits
         /\ StateImage(v) \in 0 .. 7
         /\ TypeImage(v) \in 0 .. 7
BY SMTT(30) DEF XImage, YImage, StateImage, TypeImage, TenBits

LEMMA ZeroFacts == 0 \in Objects /\ Zeros \in [Objects -> Int]
BY LastAssumption DEF Objects, Zeros

LEMMA ObjectsInt == \A i \in Objects : i \in Int
BY LastAssumption DEF Objects

\* What the proofs need of a frame.
LEMMA FrameFacts ==
  ASSUME NEW f \in Frames
  PROVE  /\ f.x \in [Objects -> Int]
         /\ f.y \in [Objects -> Int]
         /\ f.state \in [Objects -> 0 .. 7]
         /\ f.type \in 0 .. 7
         /\ f # NoFrame
<1>1. f \in [x : [Objects -> Int], y : [Objects -> Int],
             state : [Objects -> 0 .. 7], type : 0 .. 7]
  BY FramesAssumption
<1>2. f # NoFrame
  BY <1>1 DEF NoFrame
<1> QED
  BY <1>1, <1>2

\* Type and state packed in one word come out of the latches unharmed.
LEMMA PackImage ==
  ASSUME NEW f \in Frames
  PROVE  /\ Pack(f) \in Int
         /\ StateImage(Pack(f)) = f.state[0]
         /\ TypeImage(Pack(f)) = f.type
<1>1. f.state[0] \in 0 .. 7 /\ f.type \in 0 .. 7
  BY FrameFacts, ZeroFacts
<1>2. \A s, t \in 0 .. 7 : (8 * t + s) % 8 = s /\ ((8 * t + s) \div 8) % 8 = t
  BY SMTT(30)
<1> QED
  BY <1>1, <1>2 DEF Pack, StateImage, TypeImage

LEMMA MessageFacts ==
  ASSUME frame \in Frames, NEW i \in Objects
  PROVE  /\ Message(1, i) = frame.x[i] /\ Message(1, i) \in Int
         /\ Message(2, i) = frame.y[i] /\ Message(2, i) \in Int
         /\ Message(3, i) \in Int
         /\ StateImage(Message(3, i)) = frame.state[i]
         /\ i = 0 => TypeImage(Message(3, i)) = frame.type
<1>1. frame.x[i] \in Int /\ frame.y[i] \in Int /\ frame.state[i] \in 0 .. 7
  BY FrameFacts
<1>2. Message(1, i) = frame.x[i] /\ Message(2, i) = frame.y[i]
  BY DEF Message
<1>3. Message(3, i) = IF i = 0 THEN Pack(frame) ELSE frame.state[i]
  BY DEF Message
<1> QED
  BY <1>1, <1>2, <1>3, PackImage DEF StateImage

-----------------------------------------------------------------------------
(* TypeOK, which does not need the rest.                                   *)

LEMMA FollowTypes ==
  ASSUME TypeOK, NEW p \in [Objects -> Int], LatchesFollow(p)
  PROVE  /\ to_sw_sig' \in 0 .. 3
         /\ xCoord' \in [Objects -> TenBits]
         /\ yCoord' \in [Objects -> TenBits]
         /\ state' \in [Objects -> 0 .. 7]
         /\ type0' \in 0 .. 7
<1>1. /\ [i \in Objects |-> XImage(p[i])] \in [Objects -> TenBits]
      /\ [i \in Objects |-> YImage(i, p[i])] \in [Objects -> TenBits]
      /\ [i \in Objects |-> StateImage(p[i])] \in [Objects -> 0 .. 7]
      /\ TypeImage(p[0]) \in 0 .. 7
  <2>1. \A i \in Objects : /\ XImage(p[i]) \in TenBits
                           /\ YImage(i, p[i]) \in TenBits
                           /\ StateImage(p[i]) \in 0 .. 7
                           /\ TypeImage(p[i]) \in 0 .. 7
    <3> TAKE i \in Objects
    <3>1. i \in Int /\ p[i] \in Int
      BY ObjectsInt
    <3> QED
      BY <3>1, ImageRanges
  <2>2. TypeImage(p[0]) \in 0 .. 7
    BY <2>1, ZeroFacts
  <2>3. [i \in Objects |-> XImage(p[i])] \in [Objects -> TenBits]
    BY <2>1
  <2>4. [i \in Objects |-> YImage(i, p[i])] \in [Objects -> TenBits]
    BY <2>1
  <2>5. [i \in Objects |-> StateImage(p[i])] \in [Objects -> 0 .. 7]
    BY <2>1
  <2> QED
    BY <2>2, <2>3, <2>4, <2>5
<1>2. xCoord' \in [Objects -> TenBits]
  <2>1. CASE sig = 1
    BY <2>1, <1>1 DEF LatchesFollow, XLatched
  <2>2. CASE sig # 1
    BY <2>2 DEF TypeOK, LatchesFollow, XLatched
  <2> QED
    BY <2>1, <2>2
<1>3. yCoord' \in [Objects -> TenBits]
  <2>1. CASE sig = 2
    BY <2>1, <1>1 DEF LatchesFollow, YLatched
  <2>2. CASE sig # 2
    BY <2>2 DEF TypeOK, LatchesFollow, YLatched
  <2> QED
    BY <2>1, <2>2
<1>4. state' \in [Objects -> 0 .. 7]
  BY <1>1 DEF TypeOK, LatchesFollow, StateLatched
<1>5. type0' \in 0 .. 7
  BY <1>1 DEF TypeOK, LatchesFollow, TypeLatched
<1>6. to_sw_sig' \in 0 .. 3
  BY DEF TypeOK, LatchesFollow, AckLatched
<1> QED
  BY <1>2, <1>3, <1>4, <1>5, <1>6

LEMMA ShownType ==
  ASSUME TypeOK
  PROVE  Shown \in Showings
BY DEF TypeOK, Shown, Showings

LEMMA InitTypeOK == Init => TypeOK
<1> SUFFICES ASSUME Init PROVE TypeOK
  OBVIOUS
<1>1. PICK b \in {0, 1023} : /\ to_sw_sig = b % 4
                             /\ xCoord = [i \in Objects |-> b]
                             /\ yCoord = [i \in Objects |-> b]
                             /\ state = [i \in Objects |-> b % 8]
                             /\ type0 = b % 8
  BY DEF Init
<1>2. b % 4 \in 0 .. 3 /\ b % 8 \in 0 .. 7 /\ b \in TenBits
  BY DEF TenBits
<1>3. /\ to_sw_sig \in 0 .. 3
      /\ xCoord \in [Objects -> TenBits]
      /\ yCoord \in [Objects -> TenBits]
      /\ state \in [Objects -> 0 .. 7]
      /\ type0 \in 0 .. 7
  BY <1>1, <1>2
<1>4. Shown \in Showings
  BY <1>3 DEF Shown, Showings
<1> QED
  BY <1>3, <1>4, ZeroFacts DEF Init, TypeOK

LEMMA WriteTypeOK ==
  ASSUME TypeOK, NEW v \in Int, NEW here, NEW after \in {"raise", "await"},
         Write(v, here, after)
  PROVE  TypeOK'
<1>1. port' \in [Objects -> Int]
  BY DEF TypeOK, Write
<1>2. next' \in Objects
  BY LastAssumption DEF TypeOK, Write, Objects
<1> QED
  BY <1>1, <1>2 DEF TypeOK, Write, latches

LEMMA NextTypeOK == TypeOK /\ [Next]_vars => TypeOK'
<1> SUFFICES ASSUME TypeOK, [Next]_vars PROVE TypeOK'
  OBVIOUS
<1>1. CASE Follow
  <2>1. port \in [Objects -> Int] /\ LatchesFollow(port)
    BY <1>1 DEF Follow, TypeOK
  <2>2. /\ to_sw_sig' \in 0 .. 3
        /\ xCoord' \in [Objects -> TenBits]
        /\ yCoord' \in [Objects -> TenBits]
        /\ state' \in [Objects -> 0 .. 7]
        /\ type0' \in 0 .. 7
    BY <2>1, FollowTypes
  <2> QED
    BY <1>1, <2>2 DEF Follow, TypeOK
<1>2. CASE Reset
  <2>1. PICK z \in SUBSET Objects :
          LatchesFollow([i \in Objects |-> IF i \in z THEN 0 ELSE port[i]])
    BY <1>2 DEF Reset
  <2>2. [i \in Objects |-> IF i \in z THEN 0 ELSE port[i]] \in [Objects -> Int]
    BY DEF TypeOK
  <2>3. /\ to_sw_sig' \in 0 .. 3
        /\ xCoord' \in [Objects -> TenBits]
        /\ yCoord' \in [Objects -> TenBits]
        /\ state' \in [Objects -> 0 .. 7]
        /\ type0' \in 0 .. 7
    BY <2>1, <2>2, FollowTypes
  <2>4. Shown' \in Showings
    BY <2>3 DEF Shown, Showings
  <2>5. /\ sig' = 0 /\ port' = Zeros /\ pc' = "game" /\ phase' = 1 /\ next' = 0
        /\ delivered' = NoFrame /\ atStart' = Shown' /\ frame' = frame
    BY <1>2 DEF Reset
  <2> QED
    BY <2>3, <2>4, <2>5, ZeroFacts DEF TypeOK
<1>3. CASE \E f \in Frames : BeginCall(f)
  <2>1. atStart' \in Showings
    BY <1>3, ShownType DEF BeginCall
  <2>2. /\ pc' = "clear" /\ frame' \in Frames /\ phase' = 1 /\ next' = 0
        /\ UNCHANGED <<port, sig, latches, delivered>>
    BY <1>3 DEF BeginCall
  <2> QED
    BY <2>1, <2>2, ZeroFacts DEF TypeOK, latches
<1>4. CASE ClearPort
  BY <1>4, WriteTypeOK DEF ClearPort
<1>5. CASE WritePort
  <2>1. Message(phase, next) \in Int
    BY MessageFacts DEF TypeOK
  <2> QED
    BY <1>5, <2>1, WriteTypeOK DEF WritePort
<1>6. CASE RaiseSig \/ Await \/ LowerSig
  BY <1>6 DEF RaiseSig, Await, LowerSig, TypeOK, latches
<1>7. CASE UNCHANGED vars
  BY <1>7 DEF vars, latches, TypeOK
<1> QED
  BY <1>1, <1>2, <1>3, <1>4, <1>5, <1>6, <1>7 DEF Next, Software

-----------------------------------------------------------------------------
(* LinkInv holds initially and is preserved.                               *)

\* While the frame does not change, neither do the messages.
LEMMA MessagesStay ==
  ASSUME frame' = frame
  PROVE  \A k, i : Message(k, i)' = Message(k, i)
BY DEF Message, Pack

\* What a settled link holds, by the signal.
LEMMA SettledFacts ==
  ASSUME Settled
  PROVE  /\ sig = 1 => xCoord = [i \in Objects |-> XImage(port[i])] /\ to_sw_sig = 1
         /\ sig = 2 => yCoord = [i \in Objects |-> YImage(i, port[i])] /\ to_sw_sig = 2
         /\ sig = 3 => /\ state = [i \in Objects |-> StateImage(port[i])]
                       /\ type0 = TypeImage(port[0])
                       /\ to_sw_sig = 3
BY DEF Settled, XLatched, YLatched, StateLatched, TypeLatched, AckLatched

LEMMA InitLinkInv == Init => LinkInv
<1> SUFFICES ASSUME Init PROVE LinkInv
  OBVIOUS
<1>1. SignalOfPhase /\ LeftSettled /\ PhasesInOrder /\ TearingBounded
  BY DEF Init, SignalOfPhase, LeftSettled, PhasesInOrder, TearingBounded
<1>2. PortsWritten
  BY DEF Init, PortsWritten
<1>3. FrameDelivered /\ StartRemembered
  BY DEF Init, FrameDelivered, StartRemembered
<1> QED
  BY InitTypeOK, <1>1, <1>2, <1>3 DEF LinkInv

LEMMA FollowLinkInv ==
  ASSUME LinkInv, TypeOK', Follow
  PROVE  LinkInv'
<1> USE DEF LinkInv
<1>1. /\ pc \notin {"raise", "lower"}
      /\ UNCHANGED <<pc, phase, next, frame, port, sig, delivered, atStart>>
  BY DEF Follow, LeftSettled
<1>2. /\ sig # 1 => xCoord' = xCoord
      /\ sig # 2 => yCoord' = yCoord
      /\ sig # 3 => state' = state /\ type0' = type0
      /\ sig = 0 => to_sw_sig' = to_sw_sig
  BY DEF Follow, LatchesFollow, XLatched, YLatched, StateLatched, TypeLatched,
     AckLatched
<1>3. SignalOfPhase' /\ LeftSettled'
  BY <1>1 DEF SignalOfPhase, LeftSettled
<1>4. PortsWritten'
  BY <1>1, MessagesStay DEF PortsWritten, Before
<1>5. PhasesInOrder'
  BY <1>1, <1>2 DEF PhasesInOrder, ShowsX, ShowsY
<1>6. FrameDelivered' /\ StartRemembered'
  BY <1>1, <1>2 DEF FrameDelivered, StartRemembered, ShowsX, ShowsY, ShowsStates
<1>7. TearingBounded'
  <2> SUFFICES ASSUME pc # "game", NEW i \in Objects
               PROVE  /\ xCoord'[i] \in {atStart.x[i], 0, XImage(frame.x[i])}
                      /\ yCoord'[i] \in {atStart.y[i], YImage(i, frame.x[i]),
                                         YImage(i, frame.y[i])}
                      /\ state'[i] \in {atStart.state[i], StateImage(frame.y[i]),
                                        frame.state[i]}
    BY <1>1 DEF TearingBounded
  <2>0. /\ xCoord[i] \in {atStart.x[i], 0, XImage(frame.x[i])}
        /\ yCoord[i] \in {atStart.y[i], YImage(i, frame.x[i]), YImage(i, frame.y[i])}
        /\ state[i] \in {atStart.state[i], StateImage(frame.y[i]), frame.state[i]}
    BY DEF TearingBounded
  <2>1. sig \in 0 .. 3 /\ frame \in Frames
    BY DEF TypeOK
  <2>2. sig # 0 => pc \in {"write", "await"} /\ phase = sig
    BY <1>1 DEF SignalOfPhase, TypeOK
  <2>3. sig # 0 => port[i] \in {Message(sig, i), Before(sig, i)}
    BY <2>2 DEF PortsWritten
  <2>4. CASE sig = 1
    <3>1. port[i] \in {frame.x[i], 0}
      BY <2>1, <2>3, <2>4, MessageFacts DEF Before
    <3>2. xCoord'[i] = XImage(port[i])
      BY <2>4 DEF Follow, LatchesFollow, XLatched
    <3> QED
      BY <1>2, <2>0, <2>4, <3>1, <3>2 DEF XImage
  <2>5. CASE sig = 2
    <3>1. port[i] \in {frame.y[i], frame.x[i]}
      BY <2>1, <2>3, <2>5, MessageFacts DEF Before
    <3>2. yCoord'[i] = YImage(i, port[i])
      BY <2>5 DEF Follow, LatchesFollow, YLatched
    <3> QED
      BY <1>2, <2>0, <2>5, <3>1, <3>2
  <2>6. CASE sig = 3
    <3>1. StateImage(port[i]) \in {frame.state[i], StateImage(frame.y[i])}
      BY <2>1, <2>3, <2>6, MessageFacts DEF Before
    <3>2. state'[i] = StateImage(port[i])
      BY <2>6 DEF Follow, LatchesFollow, StateLatched
    <3> QED
      BY <1>2, <2>0, <2>6, <3>1, <3>2
  <2> QED
    BY <1>2, <2>0, <2>1, <2>4, <2>5, <2>6
<1> QED
  BY <1>3, <1>4, <1>5, <1>6, <1>7

LEMMA BeginCallLinkInv ==
  ASSUME LinkInv, TypeOK', NEW f \in Frames, BeginCall(f)
  PROVE  LinkInv'
<1> USE DEF LinkInv, BeginCall, latches
<1>1. SignalOfPhase' /\ LeftSettled' /\ PhasesInOrder'
  BY DEF SignalOfPhase, LeftSettled, PhasesInOrder
<1>2. PortsWritten'
  <2>1. \A i \in Objects : ~(i < next')
    BY LastAssumption DEF Objects
  <2> QED
    BY <2>1 DEF PortsWritten
<1>3. FrameDelivered'
  BY DEF FrameDelivered, ShowsX, ShowsY, ShowsStates
<1>4. StartRemembered'
  BY DEF StartRemembered, FrameDelivered, ShowsStates, SignalOfPhase, Shown
<1>5. TearingBounded'
  BY DEF TearingBounded, Shown
<1> QED
  BY <1>1, <1>2, <1>3, <1>4, <1>5

\* The writes and the signals leave the latches alone: what was true of them
\* stays true as long as the signal does.
LEMMA WriteLinkInv ==
  ASSUME LinkInv, TypeOK', ClearPort \/ WritePort
  PROVE  LinkInv'
<1> USE DEF LinkInv, ClearPort, WritePort, Write, latches
<1>0. /\ UNCHANGED <<phase, frame, sig, latches, delivered, atStart>>
      /\ Settled
      /\ port' = [port EXCEPT ![next] = IF pc = "clear" THEN 0 ELSE Message(phase, next)]
      /\ \/ pc = "clear" /\ pc' = "clear" /\ next < LAST /\ next' = next + 1
         \/ pc = "clear" /\ pc' = "raise" /\ ~(next < LAST) /\ next' = 0
         \/ pc = "write" /\ pc' = "write" /\ next < LAST /\ next' = next + 1
         \/ pc = "write" /\ pc' = "await" /\ ~(next < LAST) /\ next' = 0
  OBVIOUS
<1>1. SignalOfPhase'
  BY <1>0 DEF SignalOfPhase
<1>2. PortsWritten'
  <2> SUFFICES ASSUME NEW i \in Objects
               PROVE  /\ pc' = "clear" /\ i < next' => port'[i] = 0
                      /\ pc' = "raise" => port'[i] = Before(phase, i)
                      /\ pc' = "write" => port'[i] = IF i < next' THEN Message(phase, i)
                                                     ELSE Before(phase, i)
                      /\ pc' \in {"await", "lower"} => port'[i] = Message(phase, i)
    BY <1>0, MessagesStay DEF PortsWritten, Before
  <2>0. port \in [Objects -> Int] /\ next \in Objects
    BY DEF TypeOK
  <2>1. /\ i \in Int /\ i <= LAST /\ next \in Int /\ next <= LAST /\ LAST \in Int
        /\ port'[i] = IF i # next THEN port[i]
                      ELSE IF pc = "clear" THEN 0 ELSE Message(phase, next)
    <3>1. /\ i \in Int /\ i <= LAST /\ next \in Int /\ next <= LAST /\ LAST \in Int
      BY <2>0, LastAssumption DEF Objects
    <3>2. port'[i] = IF i # next THEN port[i]
                     ELSE IF pc = "clear" THEN 0 ELSE Message(phase, next)
      BY <1>0, <2>0
    <3> QED
      BY <3>1, <3>2
  <2>2. /\ pc = "clear" /\ i < next => port[i] = 0
        /\ pc = "write" => port[i] = IF i < next THEN Message(phase, i)
                                                ELSE Before(phase, i)
        /\ pc = "clear" => phase = 1
    BY DEF PortsWritten, SignalOfPhase
  <2>3. CASE pc = "clear"
    BY <1>0, <2>1, <2>2, <2>3 DEF Before
  <2>4. CASE pc = "write"
    BY <1>0, <2>1, <2>2, <2>4
  <2> QED
    BY <1>0, <2>3, <2>4
<1>3. LeftSettled'
  BY <1>0 DEF LeftSettled, SignalOfPhase, Settled, XLatched, YLatched,
     StateLatched, TypeLatched, AckLatched
<1>4. PhasesInOrder' /\ FrameDelivered'
  BY <1>0 DEF PhasesInOrder, FrameDelivered, ShowsX, ShowsY, ShowsStates
<1>5. StartRemembered' /\ TearingBounded'
  BY <1>0 DEF StartRemembered, TearingBounded
<1> QED
  BY <1>1, <1>2, <1>3, <1>4, <1>5

\* A phase opens with the latches of the one before settled on its messages.
LEMMA RaiseSigLinkInv ==
  ASSUME LinkInv, TypeOK', RaiseSig
  PROVE  LinkInv'
<1> USE DEF LinkInv, RaiseSig, latches
<1>0. /\ phase \in 1 .. 3 /\ sig = phase - 1 /\ next = 0 /\ frame \in Frames
      /\ \A i \in Objects : port[i] = Before(phase, i)
  BY DEF TypeOK, SignalOfPhase, PortsWritten
<1>1. SignalOfPhase' /\ LeftSettled'
  BY <1>0 DEF SignalOfPhase, LeftSettled
<1>2. PortsWritten'
  <2>1. \A i \in Objects : ~(i < next)
    BY <1>0, LastAssumption DEF Objects
  <2> QED
    BY <1>0, <2>1, MessagesStay DEF PortsWritten, Before
<1>3. PhasesInOrder'
  <2>1. CASE phase = 1
    BY <2>1 DEF PhasesInOrder
  <2>2. CASE phase = 2
    <3>1. \A i \in Objects : port[i] = frame.x[i]
      BY <1>0, <2>2, MessageFacts DEF Before
    <3>2. ShowsX(frame)
      BY <1>0, <2>2, <3>1, SettledFacts DEF ShowsX
    <3> QED
      BY <2>2, <3>2 DEF PhasesInOrder, ShowsX
  <2>3. CASE phase = 3
    <3>1. \A i \in Objects : port[i] = frame.y[i]
      BY <1>0, <2>3, MessageFacts DEF Before
    <3>2. ShowsX(frame) /\ ShowsY(frame)
      BY <1>0, <2>3, <3>1, SettledFacts DEF PhasesInOrder, ShowsY
    <3> QED
      BY <3>2 DEF PhasesInOrder, ShowsX, ShowsY
  <2> QED
    BY <1>0, <2>1, <2>2, <2>3
<1>4. FrameDelivered' /\ StartRemembered'
  BY <1>0 DEF FrameDelivered, StartRemembered
<1>5. TearingBounded'
  BY DEF TearingBounded
<1> QED
  BY <1>1, <1>2, <1>3, <1>4, <1>5

LEMMA AwaitLinkInv ==
  ASSUME LinkInv, TypeOK', Await
  PROVE  LinkInv'
<1> USE DEF LinkInv, Await, latches
<1>0. /\ phase \in 1 .. 3 /\ sig = phase /\ next = 0
      /\ \A i \in Objects : port[i] = Message(phase, i)
  BY DEF TypeOK, SignalOfPhase, PortsWritten
<1>1. SignalOfPhase'
  BY <1>0 DEF SignalOfPhase
<1>2. PortsWritten'
  BY <1>0, MessagesStay DEF PortsWritten, Before
<1>3. LeftSettled'
  BY DEF LeftSettled, Settled
<1>4. PhasesInOrder' /\ FrameDelivered'
  BY DEF PhasesInOrder, FrameDelivered, ShowsX, ShowsY, ShowsStates
<1>5. StartRemembered' /\ TearingBounded'
  BY DEF StartRemembered, TearingBounded
<1> QED
  BY <1>1, <1>2, <1>3, <1>4, <1>5

\* The last phase leaves the whole frame in the latches.
LEMMA LowerSigLinkInv ==
  ASSUME LinkInv, TypeOK', LowerSig
  PROVE  LinkInv'
<1> USE DEF LinkInv, LowerSig, latches
<1>0. /\ phase = 3 /\ sig = 3 /\ Settled /\ frame \in Frames
      /\ \A i \in Objects : port[i] = Message(3, i)
  BY DEF TypeOK, SignalOfPhase, PortsWritten, LeftSettled
<1>1. SignalOfPhase' /\ PortsWritten' /\ LeftSettled'
  BY DEF SignalOfPhase, PortsWritten, LeftSettled, TypeOK
<1>2. PhasesInOrder' /\ TearingBounded'
  BY DEF PhasesInOrder, TearingBounded
<1>3. ShowsX(frame) /\ ShowsY(frame)
  BY <1>0 DEF PhasesInOrder
<1>4. ShowsStates(frame)
  <2>1. \A i \in Objects : StateImage(port[i]) = frame.state[i]
    BY <1>0, MessageFacts
  <2>2. frame.state = [i \in Objects |-> frame.state[i]]
    BY <1>0, FrameFacts
  <2>3. state = frame.state
    BY <1>0, <2>1, <2>2, SettledFacts
  <2>4. type0 = frame.type
    BY <1>0, ZeroFacts, MessageFacts, SettledFacts
  <2> QED
    BY <2>3, <2>4 DEF ShowsStates
<1>5. FrameDelivered'
  BY <1>3, <1>4 DEF FrameDelivered, ShowsX, ShowsY, ShowsStates
<1>6. StartRemembered'
  BY <1>0, SettledFacts DEF StartRemembered
<1> QED
  BY <1>1, <1>2, <1>5, <1>6

LEMMA ResetLinkInv ==
  ASSUME LinkInv, TypeOK', Reset
  PROVE  LinkInv'
<1>0. sig' = 0 /\ pc' = "game" /\ delivered' = NoFrame
  BY DEF Reset
<1>1. SignalOfPhase' /\ PortsWritten' /\ LeftSettled' /\ PhasesInOrder'
  BY <1>0 DEF SignalOfPhase, PortsWritten, LeftSettled, PhasesInOrder
<1>2. FrameDelivered' /\ StartRemembered' /\ TearingBounded'
  BY <1>0 DEF FrameDelivered, StartRemembered, TearingBounded
<1> QED
  BY <1>1, <1>2 DEF LinkInv

-----------------------------------------------------------------------------
(* The theorems.                                                           *)

\* LinkInv is an invariant of the link, resets included.
THEOREM LinkInvariant == Spec => []LinkInv
<1>1. Init => LinkInv
  BY InitLinkInv
<1>2. LinkInv /\ [Next]_vars => LinkInv'
  <2> SUFFICES ASSUME LinkInv, [Next]_vars PROVE LinkInv'
    OBVIOUS
  <2>0. TypeOK'
    BY NextTypeOK DEF LinkInv
  <2>1. CASE Follow
    BY <2>0, <2>1, FollowLinkInv
  <2>2. CASE \E f \in Frames : BeginCall(f)
    BY <2>0, <2>2, BeginCallLinkInv
  <2>3. CASE ClearPort \/ WritePort
    BY <2>0, <2>3, WriteLinkInv
  <2>4. CASE RaiseSig
    BY <2>0, <2>4, RaiseSigLinkInv
  <2>5. CASE Await
    BY <2>0, <2>5, AwaitLinkInv
  <2>6. CASE LowerSig
    BY <2>0, <2>6, LowerSigLinkInv
  <2>7. CASE Reset
    BY <2>0, <2>7, ResetLinkInv
  <2>8. CASE UNCHANGED vars
    <3>1. UNCHANGED <<pc, phase, next, frame, port, sig, to_sw_sig, xCoord,
                      yCoord, state, type0, delivered, atStart>>
      BY <2>8 DEF vars, latches
    <3>2. SignalOfPhase' /\ LeftSettled'
      BY <3>1 DEF LinkInv, SignalOfPhase, LeftSettled, Settled
    <3>3. PortsWritten'
      BY <3>1, MessagesStay DEF LinkInv, PortsWritten, Before
    <3>4. PhasesInOrder' /\ FrameDelivered' /\ StartRemembered' /\ TearingBounded'
      BY <3>1 DEF LinkInv, PhasesInOrder, FrameDelivered, StartRemembered,
         TearingBounded, ShowsX, ShowsY, ShowsStates
    <3> QED
      BY <2>0, <3>2, <3>3, <3>4 DEF LinkInv
  <2> QED
    BY <2>1, <2>2, <2>3, <2>4, <2>5, <2>6, <2>7, <2>8 DEF Next, Software
<1> QED
  BY <1>1, <1>2, PTL DEF Spec

\* Every variable keeps its range.
THEOREM TypeCorrect == Spec => []TypeOK
BY LinkInvariant, PTL DEF LinkInv

\* The display shows the last frame sent, whole, between two calls.
THEOREM FrameDeliveredHolds == Spec => []FrameDelivered
BY LinkInvariant, PTL DEF LinkInv

\* No phase begins before the latches of the one before hold the new frame.
THEOREM PhasesInOrderHolds == Spec => []PhasesInOrder
BY LinkInvariant, PTL DEF LinkInv

\* During a call a latch shows nothing but an old word, a new one, or the
\* word of the phase before.
THEOREM TearingBoundedHolds == Spec => []TearingBounded
BY LinkInvariant, PTL DEF LinkInv

\* A slot that stays empty is never drawn, not even during a call.
THEOREM EmptyStaysInvisibleHolds == Spec => []EmptyStaysInvisible
<1>1. LinkInv => EmptyStaysInvisible
  <2> SUFFICES ASSUME LinkInv, delivered # NoFrame, NEW i \in Objects \ {0},
                      delivered.state[i] = 0, frame.state[i] = 0
               PROVE  state[i] = 0
    BY DEF EmptyStaysInvisible
  <2>1. CASE pc = "game"
    BY <2>1 DEF LinkInv, SignalOfPhase, FrameDelivered, ShowsStates
  <2>2. CASE pc # "game"
    <3>1. frame.y[i] = 0
      BY FramesAssumption DEF LinkInv, TypeOK
    <3>2. StateImage(frame.y[i]) = 0
      BY <3>1 DEF StateImage
    <3>3. atStart.state[i] = 0
      BY <2>2 DEF LinkInv, StartRemembered
    <3> QED
      BY <2>2, <3>2, <3>3 DEF LinkInv, TearingBounded
  <2> QED
    BY <2>1, <2>2
<1> QED
  BY <1>1, LinkInvariant, PTL

\* After one complete call no phase finds its acknowledgement left over.
THEOREM AckFreshHolds == Spec => []AckFresh
<1>1. LinkInv => AckFresh
  <2> SUFFICES ASSUME LinkInv, pc = "raise", delivered # NoFrame
               PROVE  to_sw_sig # phase
    BY DEF AckFresh
  <2>1. sig = phase - 1 /\ phase \in 1 .. 3 /\ Settled
    BY DEF LinkInv, SignalOfPhase, LeftSettled, TypeOK
  <2>2. sig = 0 => to_sw_sig = 3
    BY DEF LinkInv, StartRemembered
  <2> QED
    BY <2>1, <2>2, SettledFacts
<1> QED
  BY <1>1, LinkInvariant, PTL
=============================================================================
