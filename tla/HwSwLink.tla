------------------------------ MODULE HwSwLink ------------------------------
(***************************************************************************)
(* The link that carries a frame from the game to the display.  The        *)
(* software side is FPGAcommunicator() of main.c: it clears the ports and  *)
(* then, in three phases, raises to_hw_sig, writes ten ports and waits for *)
(* to_sw_sig.  The hardware side is hardware_software_comm: transparent    *)
(* latches that follow the ports while to_hw_sig is 1, 2 or 3, and that    *)
(* the display reads at any moment.  KEY[0] resets processor and ports at  *)
(* any moment; the latches have no reset.                                  *)
(* Assumed of the hardware: the latches settle between two bus accesses of *)
(* the processor, and the two bits of to_hw_sig switch together.           *)
(***************************************************************************)
EXTENDS Integers

CONSTANTS
  LAST,          \* the last object sent, 9 in the code
  Frames         \* the contents of veggieObject the game may send

Objects == 0 .. LAST

ASSUME LastAssumption == LAST \in Nat \ {0}

\* A frame is what is sent of veggieObject.  Object 0 is the game status; an
\* object that is not on the screen (state 0) has been moved to (0, 0).
ASSUME FramesAssumption ==
  /\ Frames # {}
  /\ Frames \subseteq [x : [Objects -> Int], y : [Objects -> Int],
                       state : [Objects -> 0 .. 7], type : 0 .. 7]
  /\ \A f \in Frames : \A i \in Objects \ {0} :
       f.state[i] = 0 => f.y[i] = 0

VARIABLES
  pc,            \* where FPGAcommunicator() is
  phase,         \* 1 sends x coordinates, 2 y coordinates, 3 states
  next,          \* the port written next
  frame,         \* veggieObject, which does not change during the call
  port,          \* to_hw_port0 .. to_hw_port9
  sig,           \* to_hw_sig
  to_sw_sig,     \* the acknowledgement, a latch
  xCoord, yCoord, state, type0,   \* the other latches, read by the display
  delivered,     \* history: the frame of the last call since reset
  atStart        \* history: the latches when the present call began

latches == <<to_sw_sig, xCoord, yCoord, state, type0>>
vars == <<pc, phase, next, frame, port, sig, latches, delivered, atStart>>

NoFrame == [none |-> TRUE]
Zeros   == [i \in Objects |-> 0]

-----------------------------------------------------------------------------
(* What is sent and what the latches make of it.  A port has 32 bits, of   *)
(* which the low 10, 3 or 6 are read: a negative int arrives as its        *)
(* residue.                                                                *)

XImage(v)     == v % 1024
StateImage(v) == v % 8
TypeImage(v)  == (v \div 8) % 8

\* The y of an object is turned round, with ten bits; that of object 0, the
\* timer, is not.
YImage(i, v) == IF i = 0 THEN v % 1024 ELSE (480 - (v % 1024)) % 1024

\* Mutant: type and state are appended in decimal and never converted.
PackDecimal(f) == 10 * f.type + f.state[0]

\* messagePackager(): type and state side by side, three bits each.
Pack(f) == 8 * f.type + f.state[0]

\* Mutant: the states are sent from the wrong objects.
MessageShifted(k, i) ==
  CASE k = 1 -> frame.x[i]
    [] k = 2 -> frame.y[i]
    [] k = 3 /\ i = 0 -> Pack(frame)
    [] k = 3 /\ i # 0 -> frame.state[i - 1]

\* What is written to port i in phase k.
Message(k, i) ==
  CASE k = 1 -> frame.x[i]
    [] k = 2 -> frame.y[i]
    [] k = 3 /\ i = 0 -> Pack(frame)
    [] k = 3 /\ i # 0 -> frame.state[i]

\* What each group of latches holds once it has followed signal s and ports
\* p, and held "old" before.
XLatched(s, p, old) ==
  IF s = 1 THEN [i \in Objects |-> XImage(p[i])] ELSE old

YLatched(s, p, old) ==
  IF s = 2 THEN [i \in Objects |-> YImage(i, p[i])] ELSE old

StateLatched(s, p, old) ==
  IF s = 3 THEN [i \in Objects |-> StateImage(p[i])] ELSE old

TypeLatched(s, p, old) == IF s = 3 THEN TypeImage(p[0]) ELSE old

\* Mutant: phase 2 is not acknowledged.
AckLatchedNot2(s, old) == IF s \in {0, 2} THEN old ELSE s

AckLatched(s, old) == IF s = 0 THEN old ELSE s

\* The latches have followed the signal and the ports p.
LatchesFollow(p) ==
  /\ xCoord' = XLatched(sig, p, xCoord)
  /\ yCoord' = YLatched(sig, p, yCoord)
  /\ state' = StateLatched(sig, p, state)
  /\ type0' = TypeLatched(sig, p, type0)
  /\ to_sw_sig' = AckLatched(sig, to_sw_sig)

Settled ==
  /\ xCoord = XLatched(sig, port, xCoord)
  /\ yCoord = YLatched(sig, port, yCoord)
  /\ state = StateLatched(sig, port, state)
  /\ type0 = TypeLatched(sig, port, type0)
  /\ to_sw_sig = AckLatched(sig, to_sw_sig)

-----------------------------------------------------------------------------
(* The hardware, and FPGAcommunicator() one bus access at a time.          *)

\* The display's latches, as they are now.
Shown == [x |-> xCoord, y |-> yCoord, state |-> state]

\* The power-up contents of the latches are arbitrary: all zeros or all ones
\* stand for them.
Init ==
  /\ pc = "game" /\ phase = 1 /\ next = 0
  /\ frame \in Frames
  /\ port = Zeros /\ sig = 0
  /\ \E b \in {0, 1023} :
       /\ to_sw_sig = b % 4
       /\ xCoord = [i \in Objects |-> b]
       /\ yCoord = [i \in Objects |-> b]
       /\ state = [i \in Objects |-> b % 8]
       /\ type0 = b % 8
  /\ delivered = NoFrame
  /\ atStart = Shown

Follow ==
  /\ ~Settled
  /\ LatchesFollow(port)
  /\ UNCHANGED <<pc, phase, next, frame, port, sig, delivered, atStart>>

\* Mutant: the call takes up the phase the last one ended with.
BeginCallInPhase(f) ==
  /\ pc = "game" /\ pc' = "clear"
  /\ frame' = f
  /\ next' = 0
  /\ atStart' = Shown
  /\ UNCHANGED <<phase, port, sig, latches, delivered>>

\* The main loop has made frame f and calls FPGAcommunicator().
BeginCall(f) ==
  /\ pc = "game" /\ pc' = "clear"
  /\ frame' = f
  /\ phase' = 1
  /\ next' = 0
  /\ atStart' = Shown
  /\ UNCHANGED <<port, sig, latches, delivered>>

\* Every loop over the ports writes port "next" and ends in "after".
Write(v, here, after) ==
  /\ pc = here /\ Settled
  /\ port' = [port EXCEPT ![next] = v]
  /\ IF next < LAST THEN next' = next + 1 /\ pc' = pc
                    ELSE next' = 0 /\ pc' = after
  /\ UNCHANGED <<phase, frame, sig, latches, delivered, atStart>>

\* Mutant: the ports are not cleared.
ClearNothing ==
  /\ pc = "clear" /\ pc' = "raise"
  /\ UNCHANGED <<phase, next, frame, port, sig, latches, delivered, atStart>>

ClearPort == Write(0, "clear", "raise")

RaiseSig ==
  /\ pc = "raise" /\ pc' = "write"
  /\ Settled
  /\ sig' = phase
  /\ UNCHANGED <<phase, next, frame, port, latches, delivered, atStart>>

WritePort == Write(Message(phase, next), "write", "await")

\* while(*to_sw_sig != phase): the loop is left when the acknowledgement is
\* there.
Await ==
  /\ pc = "await"
  /\ Settled
  /\ to_sw_sig = phase
  /\ IF phase < 3 THEN phase' = phase + 1 /\ pc' = "raise"
                  ELSE phase' = phase /\ pc' = "lower"
  /\ UNCHANGED <<next, frame, port, sig, latches, delivered, atStart>>

LowerSig ==
  /\ pc = "lower" /\ pc' = "game"
  /\ sig' = 0
  /\ delivered' = frame
  /\ UNCHANGED <<phase, next, frame, port, latches, atStart>>

\* KEY[0]: ports and signal drop to 0 and the program starts again.  Data and
\* signal of an open latch fall together: of each port the latch keeps the
\* old word or catches the zero.
Reset ==
  /\ sig' = 0
  /\ port' = Zeros
  /\ \E z \in SUBSET Objects :
       LatchesFollow([i \in Objects |-> IF i \in z THEN 0 ELSE port[i]])
  /\ pc' = "game" /\ phase' = 1 /\ next' = 0
  /\ delivered' = NoFrame
  /\ atStart' = Shown'
  /\ UNCHANGED frame

Software ==
  \/ \E f \in Frames : BeginCall(f)
  \/ ClearPort \/ RaiseSig \/ WritePort \/ Await \/ LowerSig

Next == Software \/ Follow \/ Reset

Spec == Init /\ [][Next]_vars

\* The latches follow, and the loop of main() is never left.
FairSpec == Spec /\ WF_vars(Follow) /\ WF_vars(Software)

-----------------------------------------------------------------------------
\* What a latch of a coordinate holds.
TenBits == 0 .. 1023

Showings == [x : [Objects -> TenBits], y : [Objects -> TenBits],
             state : [Objects -> 0 .. 7]]

\* Every variable holds a value of its range.
TypeOK ==
  /\ pc \in {"game", "clear", "raise", "write", "await", "lower"}
  /\ phase \in 1 .. 3
  /\ next \in Objects
  /\ frame \in Frames
  /\ port \in [Objects -> Int]
  /\ sig \in 0 .. 3
  /\ to_sw_sig \in 0 .. 3
  /\ xCoord \in [Objects -> TenBits]
  /\ yCoord \in [Objects -> TenBits]
  /\ state \in [Objects -> 0 .. 7]
  /\ type0 \in 0 .. 7
  /\ delivered \in Frames \cup {NoFrame}
  /\ atStart \in Showings

\* A frame as the display shows it when nothing was torn or lost.
ShowsX(f) == xCoord = [i \in Objects |-> XImage(f.x[i])]
ShowsY(f) == yCoord = [i \in Objects |-> YImage(i, f.y[i])]
ShowsStates(f) ==
  /\ type0 = f.type
  /\ state = f.state

\* Between two calls the latches show the frame of the last one: every
\* coordinate, every state, the lives, and none of it from another frame.
FrameDelivered ==
  sig = 0 /\ delivered # NoFrame =>
    ShowsX(delivered) /\ ShowsY(delivered) /\ ShowsStates(delivered)

\* A phase is over only when all its latches hold the new frame: phase 2
\* starts with every x in place, phase 3 with every x and y.
PhasesInOrder ==
  /\ sig \in {2, 3} => ShowsX(frame)
  /\ sig = 3 => ShowsY(frame)

\* What a beam passing in the middle of a call can see: the old value, the
\* new one, or, of the phase before, the word still lying on the port.
TearingBounded ==
  pc # "game" =>
    \A i \in Objects :
      /\ xCoord[i] \in {atStart.x[i], 0, XImage(frame.x[i])}
      /\ yCoord[i] \in {atStart.y[i], YImage(i, frame.x[i]),
                         YImage(i, frame.y[i])}
      /\ state[i] \in {atStart.state[i], StateImage(frame.y[i]),
                             frame.state[i]}

\* A slot that is empty in the frame shown and in the one being sent is not
\* drawn meanwhile, whatever lies on the ports.
EmptyStaysInvisible ==
  delivered # NoFrame =>
    \A i \in Objects \ {0} :
      delivered.state[i] = 0 /\ frame.state[i] = 0 => state[i] = 0

\* Except for the first call after a reset, no phase finds the
\* acknowledgement it is about to wait for left over from an earlier one.
AckFresh ==
  pc = "raise" /\ delivered # NoFrame => to_sw_sig # phase

\* Once KEY[0] is left alone every call returns and frames keep arriving: no
\* phase waits for an acknowledgement for ever.
FramesArrive ==
  <>[][~Reset]_vars => []<>(pc = "game" /\ delivered = frame)

-----------------------------------------------------------------------------
(* Why they hold: the invariant that every step preserves.                 *)

\* The signal belongs to the phase.
SignalOfPhase ==
  /\ pc \in {"game", "clear"} => sig = 0
  /\ pc = "clear" => phase = 1
  /\ pc = "raise" => sig = phase - 1
  /\ pc \in {"raise", "await", "lower"} => next = 0
  /\ pc \in {"write", "await", "lower"} => sig = phase
  /\ pc = "lower" => phase = 3

\* What lay on port i before phase k wrote to it.
Before(k, i) == IF k = 1 THEN 0 ELSE Message(k - 1, i)

\* How far the ports are written.
PortsWritten ==
  \A i \in Objects :
    /\ pc = "clear" /\ i < next => port[i] = 0
    /\ pc = "raise" => port[i] = Before(phase, i)
    /\ pc = "write" => port[i] = IF i < next THEN Message(phase, i)
                                            ELSE Before(phase, i)
    /\ pc \in {"await", "lower"} => port[i] = Message(phase, i)

\* A phase is left only when the latches have followed its last write.
LeftSettled == pc \in {"raise", "lower"} => Settled

\* Between the phases of a call the last call's frame is remembered.
StartRemembered ==
  delivered # NoFrame =>
    /\ sig = 0 => to_sw_sig = 3
    /\ pc # "game" => atStart.state = delivered.state
    /\ pc = "game" => frame = delivered

LinkInv ==
  /\ TypeOK
  /\ SignalOfPhase
  /\ PortsWritten
  /\ LeftSettled
  /\ PhasesInOrder
  /\ FrameDelivered
  /\ StartRemembered
  /\ TearingBounded
=============================================================================
