# Vegetable Viking in TLA+

Vegetable Viking is a game in the manner of Fruit Ninja.  A sword with a motion
sensor sends the place it points at by radio to an Arduino beside a DE2-115
board; the board runs the game on a Nios II processor and draws it on a VGA
screen.  This directory models the program, checks the models with TLC and
proves their invariants with TLAPS.

## 1. The system

    sword (MPU_unit.ino) --radio--> receiver (FPGA_unit.ino)
        --13 pins--> arduino_fpga_comm, GPIO[12:11]
        --parallel ports--> main.c <--100 Hz counter-- system_clock
        --parallel ports--> hardware_software_comm (latches)
        --> frame_displayer <--beam-- vga_controller

| part | source | state it keeps | operations | module |
|---|---|---|---|---|
| sword | `VeggieDuino/MPU_unit/MPU_unit.ino` | package to send, last gravity, age of the streak, glitch flags and counter | a trip round `loop()`: read, filter, map, clamp, send; button: send, wait, restart the sensor | `SwordFilter` |
| receiver | `VeggieDuino/FPGA_unit/FPGA_unit.ino` | package, which coordinate is next, 13 pins | drain the radio, write ten pins, move `xyPin`, write streak and button | `CursorPath` |
| cursor registers | `Arduino_FPGA_Comm.sv` | x, y | capture on either edge of GPIO[10] | `CursorPath` |
| main loop | `main.c`: `main`, `statusEngine` | screen, lives, timer, pending change, switches, times | eight stages in a fixed order, for ever | `GameLoop`, `GameFlow` |
| objects | `main.c`: physics, spawning, slicing and disintegration engines | ten slots: state, place, speed; score, combo | move, throw, cut, crumble, score | `VeggieFlight` (all of it), `GameLoop` (life cycle only) |
| frame exchange | `main.c`: `FPGAcommunicator`; `Hardware_Software_Comm.sv` | ports, signal, acknowledgement, latches | clear, three phases of ten writes and a busy-wait, release; latches follow | `HwSwLink` |
| memory map and packing | `main.c:20-43, 692-724, 765-791`; `system.h`, `linker.h`, `altera_avalon_pio_regs.h` | ports, pins | store, load, pack and unpack | `PortMap` |
| clock | `System_Clock.sv` | divider, 20-bit count of 1/100 s | count, restart after 1000001 | `LoopClock` (with the gates of `main`) |
| VGA timing | `VGA_controller.sv` | pixel and line counters, sync | count, reset | `VgaTiming` |
| displayer | `Frame_Displayer.sv`, `Frame_Buffer.v` | addresses, colour table and words registered for the beam | choose a picture, compute its address, fetch its word, look up a colour | `FrameDisplayer` |
| console | `altera_avalon_jtag_uart_*.c` | two rings, enable bits, silence of the host | `read`, `write`, `close`, `ioctl`, interrupt routine, alarm | `JtagUart` |
| interrupts | `alt_irq_handler.c`, `alt_legacy_irq.h`, `alt_irq.h`, `alt_exception_entry.S`, `alt_instruction_exception_entry.c` | status, enable bits, masks, table of handlers | dispatch, nest, mask, switch, register, fault | `Interrupts` |
| files and devices | `alt_main.c`, `alt_io_redirect.c`, `alt_open.c`, `alt_close.c`, `alt_ioctl.c`, `alt_fd_lock.c` and their neighbours | pool of descriptors, devices, file systems, locks | start-up, every call on a descriptor, exit | `Descriptors` |
| alarms | `alt_tick.c`, `alt_alarm_start.c`, `alt_llist.h` | tick counter, ring of alarms | start, stop, tick, callbacks | `Alarms` |
| time | `alt_settod.c`, `alt_gettod.c`, `alt_times.c`, `alt_busy_sleep.c` | offset to the tick counter | set, ask, sleep | `TimeOfDay` |
| profiler | `alt_gmon.c`, `alt_mcount.S`, `alt_sbrk.c` | tables of functions and arcs, histogram, heap | count a call, record one, sample | `Profiler` |
| texts | `alt_log_printf.c`, `alt_log_printf.h`, `alt_printf.c` | messages half printed, room in the FIFO | interpret a format, poll and write, log from handlers | `ConsoleText` |
| earlier swords | `MPU_unit2`, `MPU_unit3`, `MPU_unit4`, `MPU_unitblargh`, `PLS_unit` | sensor's queue, package | trips of their `loop()` | `EarlierSketches` |
| top level, pictures, processor | `VeggieVik.sv`, `nios_system*`, `.mif` | | wiring, generated code, data | not modelled |

What the parts share, and what is hard about it:

* **Sword to receiver**: packages over a radio that loses them.  Nothing is
  acknowledged to the program; only the last package matters.
* **Receiver to game**: x and y share ten pins that change one at a time and are
  told apart by an edge; streak and button are separate pins.  Receiver,
  registers and game run unsynchronised, so a coordinate, or a pair, could be
  put together from different packages.
* **Within the game**: one thread, but a state change decided by the status
  engine is *delayed* by a second, in which all engines go on working on the
  same slots.  Lives, timer, switches and the pending change can meet in any
  order the player and the clock bring about.
* **Game to display**: thirty port writes, one acknowledgement per phase, into
  latches that are transparent meanwhile and are read by the beam at any
  moment; KEY[0] resets the processor and not the latches.
* **Display**: registers of different depth stand between the beam and a
  colour, so address, table and cursor of one pixel belong to different
  moments; the latches above them change at any pixel.
* **Clock**: every pace in the game is a difference of two readings of a
  counter that restarts.

* **Processor**: the game itself uses no interrupts and prints nothing (its
  `printf`s are commented out), but it is linked with a board support package
  that does: the console's driver shares two rings with its interrupt routine
  without a lock, the dispatcher runs handlers within handlers, callbacks change
  the ring of alarms that is being walked, the profiler is called by handlers in
  the middle of itself.
* **Earlier swords**: the sensor goes on queueing while a packet is worked on;
  what it has queued before the button holds the loop is cleared after that in
  `MPU_unitblargh` only.

Properties that make each part correct: the cursor arrives and does not leap
(sword); coordinates are whole, the streak does not precede the place, the last
package gets through (receiver); verdicts are earned and shown, lives and bombs
follow the mode, rounds end in time, end screens are at rest (loop); flights
end, stay on the screen, are cut and scored once (objects); the display has
exactly the last frame between two exchanges and bounded damage within one, and
no busy-wait is for ever (exchange); a pixel is made of one line of one frame, of
a word that belongs to its picture (display); no character is lost, doubled or
reordered and nothing but the host holds a call (console); handlers nest by
urgency, and no line waits for ever unless a more urgent device asks without end
(interrupts); a locked device is not opened,
alarms are punctual, time is what was set and what has passed, no call is counted
twice, what is printed is what the format means, every pointer has its port
(board support).  `PROJECT.json` lists the hazards at their
lines, with the property that covers each or the reason there is none.

## 2. The modules

### GameLoop, GameFlow

`GameLoop` is `main()` as the sequential program it is: `pc` names the engine
about to be called, in the order of `main.c:175-264`, and every action is one
call with all its effects.  `gstate`, `lives` and `timer` are
`veggieObject[0]`'s `objectState`, `objectType` and `yPosition`; `ostate` is the
`objectState` of the other slots; `changeAge` and `roundAge` are the differences
`elapsedTime - changeTimer` and `elapsedTime - roundStart`, the only uses the
control makes of the clock.  `ReadClock` advances the clock by 0 to MAXSTEP
ticks.  What is under the sword, and what leaves the screen, is any set of
slots; whether physics, spawning or disintegration is due is open.

`GameFlow` is the abstract game: a screen, a pending verdict and the lives, with
no loop and no objects.  `GameLoop` implements it under the mapping `Flow`,
including its fairness: time runs out and verdicts are shown.

### VeggieFlight

The same engines with places, speeds, score and combo, for the objects of one
round: projectile motion with `main.c`'s integer steps, the throws of
`spawningEngine`, the hitbox of `slicingEngine` with its *unsigned* comparisons,
crumbling, and the score clamped by `port2Unpackager`.  The trip has the order
of `main()`.  Modes, lives and verdicts are left to `GameLoop`; the two modules
are views of the same functions, one for the control and one for the numbers.

### HwSwLink

`FPGAcommunicator()` one bus access per step, and the latches of
`hardware_software_comm` as functions of ports and signal.  `Follow` lets the
latches settle and the processor's next access waits for it; a beam may read
at any state, that is, before and after every single write.  `Reset` clears
processor and ports and leaves the latches.  `delivered` and `atStart` are
history.  `Pack` stands for `messagePackager` with its two conversions, as their
composition: 10 bits of x and y, state and type together.

### CursorPath

`Arrive` is the radio (external): packages come in order, any may be missing.
`ReadRadio` is the receiver's `while` loop; `StartTransmission`, `WritePin`
(ten times), `WriteXyPin`, `WriteStreak` and `WriteButton` are the rest of its
`loop()`, one `digitalWrite` per step.  `Capture` is the edge-triggered module.
`ReadPort2`, `ReadX` and `ReadY` are the three bus reads of `port2Unpackager`.
`read`, and the ages of pins, registers and values seen, are history: they say
which package a value comes from.  Two comments of `Arduino_FPGA_Comm.sv` (lines
15 and 20) have the edges the wrong way round; code and receiver agree, and the
model follows the code.

### SwordFilter

A trip of the sword's `loop()` up to the sending of the package is `Sense`; the
button is looked at afterwards (`NotPressed`, `Pressed`, `Restart`).  `quiet` is
`currentMillis - streakMillis`, which matters up to 50.  Yaw and pitch are whole
quarters of a degree, one pixel each; the code's floats are truncated to the
same integers.  The branch `main.c` calls sensor fusion (`MPU_unit.ino:250`)
cannot be reached, as a `long` is either positive or not.  `last`, `steady` and
`calm` are history.

### LoopClock

`Count` and `Restart` are the counter of `system_clock`, whose divider is the
tick; `Trip` is one trip of `main()` as far as time decides it: the reading, the
four gates and the timer of the round, with the readings they keep.  The
subtractions are unsigned (`Minus`).  Of the game there is the menu, a round
that is not lost, and its end, since only they turn gates on and off.  `age`,
`stale` and `thrown` are history: the ticks since a reading was taken, and
whether the counter has restarted since.  `Starts` is what the counter may show
when the program starts; its reset is a net nobody drives (`VeggieVik.sv:123`),
and loading the program takes as long as it takes.  `DifferencesTrue` (proved) is what
entitles `GameLoop` to a clock that only advances.  `NotEarly` bounds every gate
from below, that of the throws by the wait drawn at the last one, and `GatesOpen`
from above; the first throw is bounded by neither, as its reading and its wait
are times of day (`ThrowsSoon`).

### VgaTiming, FrameDisplayer

`VgaTiming` is the beam: `Count` is a cycle of the pixel clock, `ResetBeam` is
KEY[0].  `FrameDisplayer` extends it with what the beam drives.  On every pixel
clock `Draw` registers the address of the pixel and the table to colour it by
(or `Blank`, outside the picture), `Fetch` moves the addresses registered before
through the memory, and `Pixel` says which word is on the screen and by which
table, after the cursor.  `Order` is the priority of the layers in each screen,
`Box` their places, `Topmost` the chain of `else if` (`Frame_Displayer.sv:253-546`)
written as a choice.  A word is told by its address; the only thing known of its
value is whether it is transparent (`Clear`).  `Latch` lets the frame change
between any two pixels.  `steady` is history: the pixels since it last did.

### JtagUart

The program is in one call at a time (`call.at` is its place), the interrupt
routine (`isr.at`) may stop it between any two accesses to what they share, and
runs to its end.  `ReadLook`, `ReadCopy`, `ReadPublish` are the three accesses of
a trip round the loop of `altera_avalon_jtag_uart_read`, `ReadSpin` its wait;
the writer has the same.  `IsrReceive` and `IsrTransmit` move one character.
`Type` and `Take` are the host at the other end of the cable.  Characters are
told by their number, so that "the k-th heard is k" says that none was lost,
doubled or reordered.  `timeout = INT_MAX` is the build of this repository:
there is no system clock, `alt_alarm_start` fails, and a silent host is never
found out; the other value is the driver with its alarm.

### Interrupts

A step is what the processor does between two moments at which it can be
interrupted.  The program's calls are lists of such steps (`todo`), written as
`alt_irq.h` and `alt_iic.c` nest them; `contexts` is what the nested
`alt_irq_disable_all()` have returned.  The innermost handler is the head of
`stack`.  A handler may let more urgent lines in (`alt_irq_interruptible`), or
switch lines as long as nobody has interrupted it: `alt_irq_enable` there would
forget the mask, which the code does not guard against, and the model leaves to
its users as the code does.

### Descriptors, Alarms, TimeOfDay, Profiler, ConsoleText

`Descriptors` goes from `alt_main()` to `_exit()`: registration of devices,
redirection of the standard streams, constructors, every call on a descriptor,
and the way out.  What a driver answers is open.  `alt_file_locked` and `Shared`
are the two searches of the pool, which differ in their upper end.
`Alarms` has the ring with its two pointers; `alarm` is where the walk of
`alt_tick()` is, and callbacks change the ring meanwhile.  `left` is history.
`TimeOfDay` keeps the two products of different width of `alt_settod.c` and
`alt_gettod.c`, and the two loops of `alt_busy_sleep`.
`Profiler` has the accesses of `mcount()` one by one, so that a handler, itself
profiled, comes in between; an entry is its place in the order of making.
`ConsoleText` runs the state machine of `alt_log_private_printf` over a format,
character by character, and puts what comes out into the FIFO in the two steps
of `alt_log_txchar` (`PollFifo`, `WriteFifo`).  A conversion goes as the code's:
`DigitCount` divides until nothing is left, `NumberyParts` prints from the largest
place down, a negative number as its distance from the power above.  `alt_printf`
says a character or a whole conversion at a step (`Words`), since nothing that
matters comes in between.  `Meaning` is the reference they are checked against,
written from what the letters mean, place by place and with no recursion.
`frames` are the messages being printed, a handler's before the one it fell into;
`printed`, `messages` and `intrusions` are history.

### PortMap

The addresses of `main.c:20-43` against the ranges of `system.h`: a store goes
to the register its address falls into, whatever it was meant for, and leaves
the bits that fit; a load takes the sign of a `char`.  `messagePackager` and
`port2Unpackager` go through the decimal numbers as the code does
(`convertDecimalToBinary`, `convertBinaryToDecimal`).  `HwSwLink` has the same
packing as one step.

### EarlierSketches

`MPU_unit2` to `MPU_unitblargh` are what the sword was built up with.  `fifo` is
the sensor's queue; `cleared` tells what had been made when it was last emptied,
so that the age of a reading is known: what is worked on was queued after the
clearing before the last (`SketchesSound`).  In `MPU_unitblargh` one of the
clearings is after the button's wait; `MPU_unit4` keeps its queue across the wait
and may work on a packet from before it.  A packet is queued, taken and cleared
whole.  `PLS_unit` is the relay of `MPU_unit3`.

### Parts that share a run

`MCProcessor`, `MCBoardSupport` and `MCCursor` run several components that share
nothing: `part` chooses one for the whole behaviour and the others stand still in
one of their first states.  The state graph is the union of theirs, and a
property of one says nothing of the behaviours of another.  (`MCInterrupts` has
`Interrupts` alone, for what the lines are owed.)  `MCCursor` has the
sword, its earlier sketches and the way from the radio to the game.  A component
whose names the composition shares without a prefix has its initial states,
steps and specification named for it (`FlightInit`, `FlightNext`, `FlightSpec`;
`TextInit`, `TextNext`, `TextSpec`).

## 3. The runs

| run | instance | what it shows |
|---|---|---|
| `loop_rules` | 4 veggie slots and the bomb, a second of 2 ticks, a round of 1 s, delay 2, steps up to 2, 1 and 2 lives | lives, verdicts, ages and end screens, refinement of `GameFlow` with its liveness, and `RoundEnds` |
| `loop_game_over` | *violation* | a loss in the last second of a round is shown as a win |
| `flight_real` | one veggie and the bomb with the numbers of the code, 480 lines, upward speeds 24 and 30, two places and sideways speeds | height and length of a flight, hitbox, cuts, score |
| `link_frames` | objects 0 to 2, three frames, resets anywhere | frames delivered, tearing bounded, every wait ends |
| `clock_pace` | a counter of 22 values, starts at 0, 1, 7 and 20, trips of up to two ticks | no gate early: objects move, are thrown and crumble, rounds are won and screens change after their time, but for readings never taken or from before a restart; and no gate shut |
| `clock_round` | *violation* | a round over a restart of the counter is not ended by its timer |
| `clock_spawn` | *violation* | a first round in which nothing is thrown in time |
| `sword_to_cursor` | five readings, the numbers of the code; three readings and three packets for the sketches; two pins, packages that differ in every bit, radio of 2, three packages | the filter neither locks the cursor out nor lets it leap; sketches work on nothing from before the last clearing but one; coordinates whole, streak not ahead, last package arrives |
| `display_lines` | four frames, one of each kind of screen, changed at any pixel of 17 lines | which word a pixel shows, wrong colours only at edges |
| `console_interrupts` | rings of 3, FIFOs of 1, calls of up to 2, 3 characters each way, with and without the alarm; three lines that ask as often as they like, sections nested once | characters in order, calls held by the host only, handlers nest by urgency |
| `interrupt_service` | three lines that ask as often as they like, sections nested once | the most urgent line never waits for ever; another only while a more urgent device is served and asks anew without end |
| `hal_services` | six descriptors, three alarms over a counter of 4, a day of seconds of 6 microseconds, 3 calls over 2 levels of handlers, 2 accesses to the ports, one message and one interrupt in numbers of 8 bits | locks, alarms, time, profile, ports, packing, texts |

Why the bounds are enough.  *Loop*: slots 1 to 4 and the bomb have all the roles
a slot can have (menu, Continue, thrown, bomb); steps of two ticks let the
clock jump over a second's boundary, and `RoundBounded` is tight there.  Rounds
follow one another without bound.  *Flight*: nothing is
scaled.  A fruit of the menu, a thrown one and the bomb, with two throws in all,
meet in every phase of their flights; of the throws one leaves over the edge,
and some are cut where the hitbox wraps.  More slots add nothing to a flight,
since objects do not affect each other's motion, and score and combo see them
one cut at a time.
`UINT` is 2^30 in place of 2^32,
as TLC's integers have 32 bits; all that matters is that it exceeds every
coordinate by far.  MAXTHROWS bounds a behaviour; COMBO is the combo brought
into the round.  *Link*: three objects are enough for the next word, the word
before and the status word; the frames contain an object that appears, stays,
goes and comes, a score beyond ten bits and a timer of -1.  *Cursor*: two pins
are enough to tear a number; three packages make two transmissions of which
either half may be old.  MAXREAD bounds packages, not time.  *Clock*: one round of
the counter is long enough for a round of the game, the delay and both ends of
it, the starts are its ends, a moment early enough to come by again and one that
the first trip may already be past; ages are kept up to OLD, beyond every wait.  `UINT` need only exceed three rounds of the
counter.  *Sword*: one
reading of each kind the code distinguishes, and 25 trips, 64 and 48 pixels as
in the code.  *Display*: screen, memory and pictures have the numbers of the
code.  The lines are those on which a picture, a text, the screen, the memory or
a pulse begins or ends, each followed whole; a line is entered in the state in
which every line is entered, since nothing but the table is carried from one to
the next.  Lines followed without a bound would be one behaviour of 420,000
steps; the proofs are for all lines and all frames.
*Console*: a ring of 3 holds two characters, so that full, empty, and both
sides of its wrap meet with a FIFO that is full or empty; three characters go
round it.  *Interrupts*: of three lines the middle one
interrupts and is interrupted, so that handlers are three deep.  Requests are not
bounded: a bound would end every wait by itself.  Nor are the exceptions of
instructions, which stop in the debugger or come back from their handler.
*Board support*: six descriptors are the three streams and three more, so that
one can be below, above and beside a lock; a counter of 4 ticks starts again
within every wait of 0 to 3 ticks; seconds of 6 microseconds and 3 ticks have a
fraction that borrows, the naps lie on either side of one part and of whole
parts, and words of 5 bits are narrow enough for the products to wrap; two nested
calls of the profiler are the one that interrupts and the one interrupted; two
slots of the FIFO are the one found free and the one lost.  Ports and addresses
are those of the code.

**Fairness.**  `GameLoop`: the loop goes on (WF of Next) and the clock does
advance again and again (SF of a reading that moves it): it is a counter that
runs by itself, and the loop reads it every trip.  `HwSwLink`: the latches
follow (WF of Follow: they are wires) and the processor executes (WF of
Software), no fairness of Reset.  `CursorPath`: receiver and game loop (WF each);
`Arrive` is not fair: the sword and the radio owe nothing, and
`CursorCatchesUp` speaks of the time after the last arrival.  `GameFlow` asks
only that time runs out and verdicts be shown; the player is never fair.
`JtagUart`: the interrupt routine is taken and runs, and a call goes on (WF each);
nothing is owed by the host, by the alarm, or by the program between two calls.
`Interrupts`: the processor takes an interrupt that it can take again and again
(SF: hardware does not wait for a better moment), goes on with calls and handlers
(WF), and the program does not stay within its outermost section for ever (SF of
its end); a handler need not switch lines, or let others in.  No device is fair or
modest: it may ask again as soon as it is served.  `alt_irq_handler.c:128-159`
takes the most urgent line anew on every pass, so such a device starves all that
are less urgent, and `Served` names just this exception.

**Deadlock** is checked in every run but three.  A sword whose sensor was not found
returns from `loop()` for ever, which is a step (`NotReady`).  `console_interrupts`,
`interrupt_service` and `hal_services` really may stop: the console when everything that may be
typed and written has been, with a call that waits for the host (which is what
`HeldOnlyByHost` is about), the processor in the debugger after a fault nobody handles, and the
others when their bounds are used up.

## 4. What the runs found

* `GameOverStands` (`main.c:278`): when the last life is lost less than a second
  before the end, the timer reaches zero while the change to *lost* is pending,
  the pending change is overwritten, and the player has won.
* `RoundEndsInTime` (`main.c:274`): the counter restarts every 2 h 47 min; a round
  in progress then gets a timer near -42949612, which never comes to zero.
* `ThrowsSoon` (`main.c:147`): `nextSpawnTime` and `lastSpawned` start as absolute
  times, so a first round begun when `elapsedTime` has come to that value throws
  nothing until twice it.

Seen while modelling and of less weight, without a run of their own: what
`setup()` puts into `prevGrav` is overwritten before its first use
(`MPU_unit.ino:212`), so an upright sword is taken for one upside down until the
filter is first switched off; the timer is recomputed while the change to *won* is pending and can be sent as -1
(`main.c:274`); side speeds chosen "to make sure we aren't throwing them out the
edges" (`main.c:429`) do, as from x = 249 with a speed of 11; "send done signal!"
(`Hardware_Software_Comm.sv:94`) is said of an acknowledgement that rises with
the signal, before a port of the phase is written (`FrameDelivered` and
`PhasesInOrder` hold in spite of it, because a latch is quicker than a bus
access); the vertical pulse is on lines 489 and 490, not on "490-491"
(`VGA_controller.sv:98`); the word that `Frame_Displayer.sv:20` calls "last clock
cycle's data" is two pixels old, and the table one, so that pictures stand two
pixels to the right of the cursor's coordinates and their first column is a word
of the background in the colours of the pictures (`WrongColourAtEdges` says that
it is no worse); 'Continue' is 27 lines high and the memory holds 14 of them
(`BeyondContinue` in `PartsKeptApart`); the offset of the cut carrot
(`Frame_Displayer.sv:88`) is 44992 = 703 * 64, its comment says 730 * 64, where the
picture is, so that a carrot just cut is drawn as the lower third of a cut potato
above the upper third of itself.

In the board support package, likewise:

* `alt_fd_lock.c:61` searches below the highest descriptor (`i < alt_max_fd`),
  `alt_open.c` up to it: a lock is granted although the highest descriptor has the
  device open too (`LockOfTwo` says that it can be no more than that one).
  `alt_close` gives a descriptor back even if the driver's close says that it would
  block; `stat` of a name that does not exist sets EBADFD.
* `alt_settod.c:83` multiplies in 32 bits what `alt_gettod.c` multiplies in 64: a
  time set more than 2^32 microseconds after the start is off (`TimeTold` is
  about the times before).  `alt_busy_sleep.c:104` counts down from zero when a nap
  is a whole number of parts, 2^32 trips more.
* A callback that stops the alarm after its own makes the walk of `alt_tick.c` go
  round on the spot; an `alt_alarm_start` for 2^32 - 1 ticks is for none; starting
  an alarm that is in the ring corrupts the ring.  The model keeps to the uses
  that do none of these.
* The histogram of `alt_gmon.c` (226, 265) is a bucket short unless the text is a
  multiple of 32 bytes; a failed `sbrk` is used as an address (139); an interrupt
  between search and entry doubles functions as well as arcs, and one between
  reading and writing a count loses calls (`ProfileSound` bounds both).
* `alt_irq_handler.c:128` takes for granted that a line is pending, and looks for
  the most urgent one anew on every pass: a device that always asks again keeps
  all less urgent ones, and the program, waiting.  `alt_irq_enable`
  in a handler that lets others in forgets the mask.
* A `write` of the console gives up after a second's silence even if the ring
  has just been emptied, and waits for ever for an absent host if there is no
  alarm, as in this build.  `alt_log_txchar` asks for room and
  writes later: the driver's routine may have filled the FIFO (`TextExact` counts
  those losses).  `alt_log_system_clock` prints every INTERVAL + 1 ticks, so that
  its seconds lag; the echo of the "first 15 characters" shows 14.
* Sketches: `PLS_unit` radios a package of its own that nobody fills in;
  `MPU_unitblargh` shows a streak for the first 100 ms, and its button programs
  the sensor anew without asking whether that worked, so that the loop may then
  wait for the queue for ever.
* Of the game, without a property: the ends of `to_hw_sig`'s two bits and the pins
  of `GPIO` are sampled without a synchroniser (`Hardware_Software_Comm.sv:20`,
  `Arduino_FPGA_Comm.sv:20`); a veggie that was cut and falls out before it has
  crumbled costs three points (`main.c:347`); the combo has no ceiling (`main.c:549`).

## 5. What is proved

Each `...Proofs` module proves, for every value of the constants that satisfies
the named assumptions of its module, that an invariant is inductive
(`InitInv`, one lemma per action, `NextInv`), and from it the theorems of the
properties.  `ObjectProofs` has two components, objects and displayer, that share
no variable; `BoardSupportProofs` rests on `ConsoleTextProofs` for the texts.
A property alone is seldom inductive; what the invariants add:

* `LoopInvariant`: that the bomb is no longer whole when the lives are gone and
  that spawning is off before the spawning engine is reached (else the lives
  could go negative), and how old a round can be when its verdict is pending
  (`AgesBounded`), which gives `RoundBounded`.  Needs MAXSTEP <= SECOND, a trip
  of at most a second: the code tests the timer for *equality* with zero.
* `FlightInvariant`: the energy `2y + v(v+1)`, which a move does not change,
  bounds the height by HEIGHT and the fall by FALL; `moves + v` bounds the length
  of a flight; cuts are counted against the state of the object.
* `LinkInvariant`: the signal belongs to the phase, ports before `next` hold the
  new words and the others those of the phase before, and a phase is only left
  with settled latches.
* `CursorInvariant`, the way from the radio: which pins are written, that from the first rising edge every
  transmission moves `xyPin` (`EdgeDue`), and that therefore one coordinate is
  as new as the streak (`StreakFollows`, `StreakRead`).
* `CursorInvariant`, the sword: while the cursor is not where the sword points, the glitch
  counter has counted every trip of the present reading (`Waiting`), and it never
  runs ahead of the trips since the last leap (`CalmCounted`).  The earlier
  sketches: every packet in the queue is younger than the last time it was
  emptied, and the one that is worked on younger than the time before that
  (`QueueFresh`); the sketch that draws streaks remembers when the sword was last
  fast, or zero (`StreakKept`).
* `ClockInvariant`: a reading that is not stale is what the counter showed `age`
  ticks ago (`ReadingsTrue`), and the wait for the next throw is one that was
  drawn once the last throw is such a reading (`WaitDrawn`); two differences to the same start then differ by
  the ticks between them, in whatever range they wrap (`SameStart`).
* `PaceInvariant`, restarts of the counter included: an engine never sees less
  time than has passed, unless its gate is open already and stays so until the
  next trip has come by (`Waits`, `Far`).  A round may besides wait on an older
  reading that has come up again (`WaitsInRound`), and what crumbles, on the
  program's start (`CrumblesInTime`).  Needs `PaceAssumption`: a trip plus any
  wait is short beside the counter, and the differences' range holds more than
  three rounds of it.
* `DisplayInvariant`: when the frame has been still for a pixel, the addresses and
  the table are those of the pixel before (`Addressed`), and after two, the words
  are those of the pixel before that (`Fetched`).  The pulses are never in the
  picture, but for the first pixel after a reset (`SyncOutsidePicture`).
* `UartInvariant`: what lies in a ring is what the counts of its two ends differ
  by, in order (`RxRing`, `TxRing`); a call copies in one piece, between its look
  at an index and its own publication, slots the interrupt routine does not reach
  (`Called` and the last parts of the rings); and the routine never sends more
  than the FIFO had room for when it looked (`TxRoom`), so nothing is dropped.
* `IrqInvariant`: whoever is interrupted allows it, is less urgent than what has
  come, and has kept the mask it will put back (`StackSound`, `MaskSound`); the
  saved statuses are those of nested sections, the outermost alone set
  (`StatusSound`); and what is left of a call always ends in the switch and the
  restores that its sections still need (`CallSound`), so that a line without a
  handler is wanted only within the section that switches it off
  (`ActiveSound`).  The number of lines, of handlers on one another and of
  sections in one another is any.
* `BoardInvariant` has six parts.  *Descriptors*: a descriptor other than the
  standard ones is in use only up to the mark `alt_max_fd` and only once the
  program runs (`PoolSound`), where the standard streams lead at every stage of
  the redirection (`StreamsShared`), and whoever shares a locked device has a
  higher number than the lock's holder and is alone (`LockAlone`).  *Alarms*: the
  two links of the ring agree and it goes through its head (`RingSound`); there is
  a set of alarms that the walk has still to look at, closed along the ring; those
  may be due, the others wait, and each one's flag and time say how long
  (`WalkSound`).  *Time of day*: the time that has passed is the offset, borrowed
  fraction and all, and the ticks since (`Counted`); its proof needs what division
  does with products that the constants bound.  *Profiler*: what a call in progress
  has found is still the newest of its kind, and whoever interrupts it finds the
  same and makes no entry of that kind (`FramesSound`); every call in progress but
  the first has taken an interrupt, and the calls that a stale count takes back
  when it is written (`MissesPaid`), or the entry made a second time since its
  search (`DoublesPaid`), are paid by one each.  *Ports*: what each port shows is
  what fits of the last word stored through the pointer of its name (`PortInv`),
  for which twenty-three addresses are compared with twenty-eight ranges.
  *Texts* (`TextInv`): of every message being printed some items are out, one may
  be in conversion, and the rest of the format and of the arguments is that of
  the items to come (`Reached`); what has been read of a conversion agrees with
  what is left of it, so that nothing of one conversion is in the next (`Rests`);
  and what is out, what is about to be put out and the meaning of what is to come
  are together the meaning of the message.  Every loss, and the one to come when
  a look at the FIFO is no longer true (`Owes`), is paid for by an intrusion of
  its own.

`KeepsToGameFlow` is the safety part of the refinement: the loop starts as
`GameFlow` does, and each of its steps is a step of `GameFlow` or none.  The proof
takes the actions of the loop one by one, and needs of the invariant only what a
verdict rests on.

Proved from the invariants: for the loop `LivesNeverNegative`, `BombOnlyInHard`,
`VerdictEarned`, `EndScreenAtRest`, `RoundBounded`, `NothingThrownAfterVerdict`
and `RoundsEndByVerdict`; for the objects `BelowTheTop`, `FlightEnds`,
`ScoreSentNotNegative`, `CutOnce`, `EmptyAtRest` and `CutFromHeight`; for the link
`FrameDelivered`, `PhasesInOrder`, `TearingBounded`, `EmptyStaysInvisible` and
`AckFresh`; for the cursor `CoordinatesWhole` and `StreakNotAhead`; for the sword
`CursorArrives` and `LeapsRare`, for its earlier sketches `SketchesSound`; for the clock `DifferencesTrue`, `NotEarly` and
`GatesOpen`;
for the display `PictureTwoLate`, `WrongColourAtEdges` and `PartsKeptApart`; for the
console `InOrder`, for rings and FIFOs of every size; for the interrupts
`InterruptDiscipline`; for the board support package `LockOfTwo`,
`LockRespected`, `Punctual`, `TimeTold`, `ProfileSound`, `PortsReached`,
`PackingExact` and `TextExact`.  Each
type invariant is a conjunct of the inductive invariant.  The invariants
themselves, and `BombOnlyInHard`, `PhasesInOrder`, `DifferencesTrue`, `EmptyAtRest`
and `PartsKeptApart`, are proved for all values and no longer checked by the runs;
the properties that follow from them are.  The assumptions on constants
are the named ones of each module.

Theorems about components that share a run are theorems of the composition
(`ProcessorInvariant`, `CursorInvariant`, `BoardInvariant`): each part keeps its
invariant by its own steps and stands still in those of the others.

The conversions of `main.c` that the packing goes through are recursive
functions.  That the recursion defines one at all, and that conversion there and
back gives any number again (`ThereAndBack`), is induction over numbers; the
library's induction theorems take an operator and cannot be used, but its
`WFMin` does not: a set of numbers has a least (`LeastOf`), and the least
counterexample is contradicted by the recursion's next value.  `TakenApart` builds
the function from its finite beginnings, `DecimalToBinary` and `BinaryToDecimal`
read the code's recursion off it, `PackedWord` and `DigitsAreBits` are what the
invariant uses.  What the profiler has counted is such a function too: `Total` of
a sequence of counts, of which `TotalIs` and its neighbours say what one more
count, or a longer sequence, does to it.  The copies of an arc are counted by an
injection into the entries of its function (`CopiesCounted`).

The texts need the same three times over.  `FlattenSeq`, by which a format, its
arguments, its meaning and what is put out of a message are all gathered, is a
recursive function of the library; the count of digits and the printing of
places are recursions of the code, one along division, the other along two
numbers at once.  `Recursion` says for any set with a rank that a rule which
looks at one element of lower rank (`Falls`) defines a function that obeys it,
and the three are read off it (`FlatIs`, `CountsByDividing`, `PartsByDividing`).
From these: what is gathered of a sequence and one more is what was gathered and
one more (`FlatAppend`); the digits that are counted are the places of the
reference, in which there is only one number of places that fits; and what is
printed of the remainders is the reference's digit at every place.
`alt_printf`'s nibbles are its hexadecimal digits.  All of it holds for every
number of a long, whatever the width of one, a multiple of four bits.

**Only model-checked:** liveness (`RoundEnds`, `FramesArrive`, `CursorCatchesUp`,
`HeldOnlyByHost`, `Served`) and the fairness part of the refinement
`ImplementsGameFlow`, all out of the prover's reach.  Every safety invariant and
every action property the runs check is proved.

## 6. Assumptions and limits

* The 100 Hz counter does not restart during a run of `GameLoop` (what a restart
  does is `LoopClock`'s), and a trip round the loop takes at most a second.
* The latches settle between two bus accesses, the two bits of `to_hw_sig`
  switch together, and a capture or a bus read is a single step: hazards below a
  clock cycle are outside the models.
* In `VeggieFlight` the round never ends and lives are not counted.  Score and
  combo have no width; the ten bits of the score are `HwSwLink`'s.
* The radio keeps the order of what it delivers, and the sensor's queue is cut
  between packets only.
* The pixel clock is the step of the display.  The memory, on a clock of twice its
  rate, is late by one pixel because of its two registers.
* The compiler reads the ports each time `main.c` does, although the pointers are
  not all `volatile`: the project is built with -O0 for a core without a data
  cache.
* The console's device drops what a full FIFO is given and keeps its order; an
  access to it is a step.  Interrupts come between steps, a step being an access
  to something shared.
* A call on a descriptor is one step, as the build has one thread; `Descriptors`
  uses no descriptor it has not been given, but may pass on the -1 of a failed
  `open`.
* An alarm that is in the ring is not started again, and no callback stops the
  alarm after its own.

The board support package is modelled as it is built (`system.h`, `public.mk`):
one thread, the internal interrupt controller, the interrupt driven driver of
the console, no system clock.  Alarms, profiler and logging are code of the
package that this build links or could link, and do not run in it.

**Not modelled:** the contents of the picture memory and the two tables of 256
colours, 3000 lines of constants; `VeggieVik.sv`, which is wiring, except for what
other modules take from it; the processor, its bus and intrinsics, generated by
the vendor's tool, of which the modules use what the programs rely on; the
emulation of multiplication and division in `alt_exception_muldiv.S`, pure
arithmetic on 32-bit registers with no state of its own; the branches of the
board support package that other builds select (operating systems, external
interrupt controllers, the small console driver, caches, stack checks); and
sources the game does not contain (`ball.sv`, `Color_Mapper.sv`, `HexDriver.sv`,
a test bench), which are course material.

## 7. Order of the modules and plan

Written, the most important first: `GameLoop` and `GameFlow` (rules),
`HwSwLink` (exchange), `VeggieFlight` (objects), `CursorPath` and `SwordFilter`
(input), `LoopClock` (time), `VgaTiming` and `FrameDisplayer` (screen), `PortMap`
(addresses and packing), `JtagUart` and `Interrupts` (processor), `Descriptors`,
`Alarms`, `TimeOfDay`, `Profiler`, `ConsoleText` (board support),
`EarlierSketches`.  What would add most next are

* compositions: `SwordFilter`'s packages through `CursorPath` into the slicing
   of `VeggieFlight`; `HwSwLink` under `FrameDisplayer`, what a torn frame looks
   like; the hitbox of the program against the box on the screen.
