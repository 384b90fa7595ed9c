--------------------------- MODULE FrameDisplayer ---------------------------
(***************************************************************************)
(* frame_displayer between the latches of hardware_software_comm and the   *)
(* screen.  On every pixel clock it chooses the picture that is topmost    *)
(* under the beam and registers the address of its word, with the table    *)
(* the word is to be coloured by; Frame_Buffer, a memory with registered   *)
(* inputs and outputs on the clock of twice that rate, returns the word    *)
(* one pixel later, and the colour is made of word, table and cursor as    *)
(* they are then.  The latches may change at any time.                     *)
(* A word is told by its address; of the words only which of them are 8'hff,*)
(* "transparent", is kept (Clear), and of a colour where it comes from.    *)
(***************************************************************************)
EXTENDS VgaTiming, Sequences

CONSTANTS
  Frames,          \* what the latches may hold
  Clear,           \* the addresses of transparent words
  StartLines,      \* lines at whose start the beam is taken up
  Lines            \* bound on the lines along which it is followed

Objects == 1 .. 9
Coordinates == 0 .. 1023

ASSUME FrameAssumption ==
  \A f \in Frames :
    /\ f.screen \in 0 .. 7
    /\ f.state \in [Objects -> 0 .. 7]
    /\ f.x \in [Objects -> Coordinates] /\ f.y \in [Objects -> Coordinates]
    /\ f.cursor \in Coordinates \X Coordinates

ASSUME LineAssumption == StartLines \subseteq Lines /\ Lines \subseteq 0 .. vlines

VARIABLES
  frame,                               \* the latches
  frame_rdAddress, bgFrame_rdAddress,  \* addresses, registered
  palette,                             \* 0 background, 1 pictures
  frame_output, bgFrame_output,        \* words read, by their addresses
  steady           \* history: pixel clocks since the latches last changed or
                   \* the beam was reset, up to 2

vars == <<hc, vc, hs, vs, frame, frame_rdAddress, bgFrame_rdAddress, palette,
          frame_output, bgFrame_output, steady>>

-----------------------------------------------------------------------------
(* The memory and the pictures in it.                                      *)

ScreenX == 640
spriteOffset == 307200
textOffset == 417856
numwords == 434044

\* The texts follow the nine objects among the layers.
Veggie == 10
Viking == 11
Farmer == 12
VikingLevel == 13
Thor == 14
Yay == 15
Aww == 16
Continue == 17
Layers == 0 .. 17
Background == 0

Heights == <<65, 81, 73, 39, 66, 64, 42, 69>>
WholeOffsets == <<0, 4160, 9344, 14784, 17280, 21504, 25600, 28288>>
CutOffsets == <<32704, 36800, 41984, 44992, 49280, 53312, 57472, 59968>>
CrumbledOffsets == <<64320, 68352, 73600, 78336, 80832, 84864, 89024, 91520>>

BombOffset(s) ==
  CASE s = 2 -> 98880 [] s = 3 -> 102656 [] s = 4 -> 106816 [] OTHER -> 95872
BombHeight(s) == IF s \in 2 .. 4 THEN 64 ELSE 47

SpriteOffset(i, s) ==
  CASE i = 9 -> BombOffset(s)
    [] i # 9 /\ s = 2 -> CutOffsets[i]
    [] i # 9 /\ s = 3 -> CrumbledOffsets[i]
    [] i # 9 /\ s \notin {2, 3} -> WholeOffsets[i]
SpriteHeight(i, s) == IF i = 9 THEN BombHeight(s) ELSE Heights[i]

\* A box: its corner on the screen, its width and height, and the address of
\* its first word.  In the memory its lines follow one another.
Sprite(f, i) ==
  [left |-> f.x[i], top |-> f.y[i], width |-> 64,
   height |-> SpriteHeight(i, f.state[i]),
   start |-> spriteOffset + SpriteOffset(i, f.state[i])]

Line(x, y, height, offset) ==
  [left |-> x, top |-> y, width |-> 114, height |-> height, start |-> textOffset + offset]

Text(t) ==
  CASE t = Veggie -> Line(10, 10, 27, 0)
    [] t = Viking -> Line(85, 39, 28, 3192)
    [] t = Farmer -> Line(114, 400, 13, 9918)
    [] t = VikingLevel -> Line(200, 230, 15, 11400)
    [] t = Thor -> Line(460, 230, 15, 13110)
    [] t = Yay -> Line(350, 240, 18, 6270)
    [] t = Aww -> Line(350, 240, 17, 8322)
    [] t = Continue -> Line(300, 340, 27, 14592)

Box(f, l) == IF l \in Objects THEN Sprite(f, l) ELSE Text(l)

\* The layers of a screen from the topmost down.
Order(screen) ==
  CASE screen = 0 -> <<Veggie, Viking, Farmer, VikingLevel, Thor, 1, 2, 3>>
    [] screen = 4 -> <<Veggie, Viking, Yay, Continue, 9, 4>>
    [] screen = 5 -> <<Veggie, Viking, 4, 9, Aww, Continue>>
    [] OTHER -> <<1, 2, 3, 4, 5, 6, 7, 8, 9>>

Covers(f, l, x, y) ==
  LET b == Box(f, l) IN
  /\ l \in Objects => f.state[l] # 0
  /\ b.left <= x /\ x < b.left + b.width
  /\ b.top <= y /\ y < b.top + b.height

\* l is what the pixel shows.
Topmost(f, l, x, y) ==
  LET order == Order(f.screen) IN
  \/ /\ l = Background
     /\ \A k \in 1 .. Len(order) : ~ Covers(f, order[k], x, y)
  \/ \E k \in 1 .. Len(order) :
       /\ l = order[k] /\ Covers(f, l, x, y)
       /\ \A j \in 1 .. k - 1 : ~ Covers(f, order[j], x, y)

BackgroundAddress(x, y) == x + y * ScreenX

Address(f, l, x, y) ==
  IF l = Background THEN BackgroundAddress(x, y)
  ELSE LET b == Box(f, l) IN b.start + (x - b.left) + (y - b.top) * b.width

-----------------------------------------------------------------------------
(* A pixel.                                                                *)

\* Mutant: the background does not set the table.
ReadsInPictures(f, x, y, address, table) ==
  \E l \in Layers :
    /\ Topmost(f, l, x, y)
    /\ address = Address(f, l, x, y)
    /\ table = 1

\* address and table are those of the pixel (x, y).
Reads(f, x, y, address, table) ==
  \E l \in Layers :
    /\ Topmost(f, l, x, y)
    /\ address = Address(f, l, x, y)
    /\ table = IF l = Background THEN 0 ELSE 1

Draw ==
  /\ Display
  /\ Reads(frame, hc, vc, frame_rdAddress', palette')
  /\ bgFrame_rdAddress' = BackgroundAddress(hc, vc)

\* Mutant: the address is not taken back outside the picture.
BlankKeeps ==
  /\ ~ Display
  /\ UNCHANGED <<frame_rdAddress, bgFrame_rdAddress, palette>>

\* Outside the picture the addresses are 0, and the table stays.
Blank ==
  /\ ~ Display
  /\ frame_rdAddress' = 0 /\ bgFrame_rdAddress' = 0
  /\ UNCHANGED palette

\* Frame_Buffer, both of its ports.
Fetch == frame_output' = frame_rdAddress /\ bgFrame_output' = bgFrame_rdAddress

PixelClock ==
  /\ hc = hpixels => NextLine \in Lines
  /\ Draw \/ Blank
  /\ Fetch
  /\ Count
  /\ steady' = IF steady = 2 THEN 2 ELSE steady + 1
  /\ UNCHANGED frame

\* hardware_software_comm lets something through.
Latch ==
  /\ frame' \in Frames \ {frame}
  /\ steady' = 0
  /\ UNCHANGED <<beam, frame_rdAddress, bgFrame_rdAddress, palette,
                 frame_output, bgFrame_output>>

\* The beam starts again; the memory has a clock of its own and goes on.
Reset ==
  /\ ResetBeam
  /\ Fetch
  /\ steady' = 0
  /\ UNCHANGED <<frame, frame_rdAddress, bgFrame_rdAddress, palette>>

\* The beam enters a line that is not followed.
OutOfSight == hc = hpixels /\ NextLine \notin Lines /\ UNCHANGED vars

\* The start of a line, after all that is blank before it.
Init ==
  /\ hc = 0 /\ vc \in StartLines
  /\ hs = 1 /\ vs = IF vc \in {490, 491} THEN 0 ELSE 1
  /\ frame \in Frames
  /\ frame_rdAddress = 0 /\ bgFrame_rdAddress = 0 /\ palette \in 0 .. 1
  /\ frame_output = 0 /\ bgFrame_output = 0
  /\ steady = 2

Next == PixelClock \/ Latch \/ Reset \/ OutOfSight

Spec == Init /\ [][Next]_vars
-----------------------------------------------------------------------------
(* What is on the screen.                                                  *)

\* The cursor, around where the sword points; the screen counts lines from the
\* top and the game from the bottom.
InCursor(f, x, y) ==
  LET dx == x - f.cursor[1]
      dy == y - (480 - f.cursor[2])
  IN dx * dx + dy * dy <= 100

\* The word a pixel gets its colour from, and by which table.
Pixel ==
  IF InCursor(frame, hc, vc) THEN [table |-> "cursor", word |-> 0]
  ELSE IF palette = 1 /\ frame_output \notin Clear
    THEN [table |-> "pictures", word |-> frame_output]
    ELSE [table |-> "background", word |-> bgFrame_output]

-----------------------------------------------------------------------------
(* Properties.                                                             *)

Pictured(f, x, y) == \E l \in Layers \ {Background} : Topmost(f, l, x, y)

\* While the latches are quiet, the screen shows the word of the pixel two to
\* the left, of the topmost picture there or of the background: word and table
\* come from one line and one frame, and in the first two columns, for which
\* there is no such pixel, word 0 is shown.  Frame_Displayer.sv:250-604, with
\* the two registers of the memory (Frame_Buffer.v:100, 114).
PictureTwoLate ==
  Display /\ steady = 2 /\ Pixel.table # "cursor" =>
    IF hc < 2 THEN Pixel.word = 0
    ELSE CASE Pixel.table = "background" -> Pixel.word = BackgroundAddress(hc - 2, vc)
           [] Pixel.table = "pictures" ->
                \E l \in Layers : /\ Topmost(frame, l, hc - 2, vc)
                                  /\ Pixel.word = Address(frame, l, hc - 2, vc)

\* The table is one pixel ahead of the word.  Still, a word of the background
\* is looked up in the table of the pictures only where a picture begins, and
\* a word of a picture is withheld only where one ends: never inside, however
\* the pictures overlap.  Frame_Displayer.sv:245, 566-569.
WrongColourAtEdges ==
  Display /\ steady = 2 /\ hc >= 2 =>
    /\ palette = 1 /\ frame_output < spriteOffset =>
         Pictured(frame, hc - 1, vc) /\ ~ Pictured(frame, hc - 2, vc)
    /\ palette = 0 /\ frame_output >= spriteOffset =>
         ~ Pictured(frame, hc - 1, vc) /\ Pictured(frame, hc - 2, vc)

\* What may be addressed: the background, the sprites, the texts.  Two things
\* reach beyond: the third picture of the explosion, by four lines into the
\* texts, and 'Continue', of which the memory has 14 of 27 lines.
InBackground(a) == a >= 0 /\ a < spriteOffset
InSprites(a) == a >= spriteOffset /\ a < textOffset
InTexts(a) == a >= textOffset /\ a < numwords
IntoTexts(a) == a >= textOffset /\ a < textOffset + 4 * 64
BeyondContinue(a) == a >= numwords /\ a < numwords + 13 * 114

ReadsOwnPart(f, l, x, y) ==
  LET a == Address(f, l, x, y) IN
  /\ l = Background => InBackground(a)
  /\ l \in Objects =>
       InSprites(a) \/ (l = 9 /\ f.state[l] = 4 /\ IntoTexts(a))
  /\ l \in Veggie .. Continue =>
       \/ InTexts(a)
       \/ l = Continue /\ f.screen \in {4, 5} /\ y >= 340 + 14 /\ BeyondContinue(a)

\* Whatever the latches hold and however they change, no layer reads words of
\* another part of the memory but for those two.  Frame_Displayer.sv:62-121,
\* 253-546.
PartsKeptApart ==
  Display => \A l \in Layers : Topmost(frame, l, hc, vc) => ReadsOwnPart(frame, l, hc, vc)

-----------------------------------------------------------------------------
(* The invariant.                                                          *)

\* The pixel k clocks ago, if it was in the picture of this line.
Ago(k) == hc >= k /\ InPicture(hc - k, vc)

Addressed ==
  IF Ago(1)
  THEN /\ Reads(frame, hc - 1, vc, frame_rdAddress, palette)
       /\ bgFrame_rdAddress = BackgroundAddress(hc - 1, vc)
  ELSE frame_rdAddress = 0 /\ bgFrame_rdAddress = 0

Fetched ==
  IF Ago(2)
  THEN /\ \E table \in 0 .. 1 : Reads(frame, hc - 2, vc, frame_output, table)
       /\ bgFrame_output = BackgroundAddress(hc - 2, vc)
  ELSE frame_output = 0 /\ bgFrame_output = 0

DisplayInv ==
  /\ BeamTypeOK /\ vc \in Lines \cup {0}
  /\ frame \in Frames /\ palette \in 0 .. 1 /\ steady \in 0 .. 2
  /\ SyncOutsidePicture
  /\ steady >= 1 => Addressed
  /\ steady = 2 => Fetched
=============================================================================
