------------------------------ MODULE PortMap ------------------------------
(***************************************************************************)
(* The addresses through which the program and the hardware meet.  The     *)
(* program has its own (the pointers at the head of main.c); the bus sends *)
(* an access to the slave whose range it falls in (system.h), and each     *)
(* parallel port keeps as many bits as it has.  What the program sends is  *)
(* packed with decimal arithmetic on binary digits, and what it reads is   *)
(* taken apart likewise.                                                   *)
(***************************************************************************)
EXTENDS Integers, FiniteSets

CONSTANTS Values,       \* bound: words stored or shown on pins
          MAXACCESS     \* bound: accesses and changes of pins

(* What is taken for granted of the constants.                               *)
Bounds ==
  /\ Values \subseteq Nat /\ MAXACCESS \in Nat

-----------------------------------------------------------------------------
(* The slaves (system.h).  DATA_WIDTH 32 holds every value of the model.   *)

Slave(base, span) == [base |-> base, span |-> span, bits |-> 32, out |-> FALSE]
Pio(base, bits, out) == [base |-> base, span |-> 16, bits |-> bits, out |-> out]
In == FALSE
Out == TRUE

jtag_uart_0      == Slave(\h1b0, 8)
onchip_memory2_0 == Slave(\h0, 16)
sdram            == Slave(\h10000000, 134217728)
sdram_pll        == Slave(\h190, 16)
sysid_qsys_0     == Slave(\h1a8, 8)

TO_HW_PORT0  == Pio(\h100, 32, Out)
TO_HW_PORT1  == Pio(\hf0, 32, Out)
TO_HW_PORT10 == Pio(\h40, 32, Out)
TO_HW_PORT11 == Pio(\h30, 32, Out)
TO_HW_PORT12 == Pio(\h20, 32, Out)
TO_HW_PORT13 == Pio(\h160, 32, Out)
TO_HW_PORT14 == Pio(\h150, 32, Out)
TO_HW_PORT15 == Pio(\h140, 32, Out)
TO_HW_PORT2  == Pio(\he0, 32, Out)
TO_HW_PORT3  == Pio(\hd0, 32, Out)
TO_HW_PORT4  == Pio(\hc0, 32, Out)
TO_HW_PORT5  == Pio(\hb0, 32, Out)
TO_HW_PORT6  == Pio(\ha0, 32, Out)
TO_HW_PORT7  == Pio(\h60, 32, Out)
TO_HW_PORT8  == Pio(\h90, 32, Out)
TO_HW_PORT9  == Pio(\h80, 32, Out)
\* Mutant: the signals where port 7 is.
TO_HW_SIGMoved == Pio(\h60, 2, Out)

TO_HW_SIG    == Pio(\h70, 2, Out)
TO_SW_PORT0  == Pio(\h130, 32, In)
TO_SW_PORT1  == Pio(\h120, 32, In)
TO_SW_PORT2  == Pio(\h110, 8, In)
TO_SW_PORT3  == Pio(\h180, 16, In)
TO_SW_PORT4  == Pio(\h170, 16, In)
TO_SW_SIG    == Pio(\h50, 2, In)

slave ==
  [jtag_uart_0 |-> jtag_uart_0, onchip_memory2_0 |-> onchip_memory2_0, sdram |-> sdram,
   sdram_pll |-> sdram_pll, sysid_qsys_0 |-> sysid_qsys_0,
   to_hw_port0 |-> TO_HW_PORT0, to_hw_port1 |-> TO_HW_PORT1, to_hw_port2 |-> TO_HW_PORT2,
   to_hw_port3 |-> TO_HW_PORT3, to_hw_port4 |-> TO_HW_PORT4, to_hw_port5 |-> TO_HW_PORT5,
   to_hw_port6 |-> TO_HW_PORT6, to_hw_port7 |-> TO_HW_PORT7, to_hw_port8 |-> TO_HW_PORT8,
   to_hw_port9 |-> TO_HW_PORT9, to_hw_port10 |-> TO_HW_PORT10, to_hw_port11 |-> TO_HW_PORT11,
   to_hw_port12 |-> TO_HW_PORT12, to_hw_port13 |-> TO_HW_PORT13, to_hw_port14 |-> TO_HW_PORT14,
   to_hw_port15 |-> TO_HW_PORT15, to_hw_sig |-> TO_HW_SIG,
   to_sw_port0 |-> TO_SW_PORT0, to_sw_port1 |-> TO_SW_PORT1, to_sw_port2 |-> TO_SW_PORT2,
   to_sw_port3 |-> TO_SW_PORT3, to_sw_port4 |-> TO_SW_PORT4, to_sw_sig |-> TO_SW_SIG]

(* The program's pointers (main.c).                                        *)
pointer ==
  [to_hw_port0 |-> \h100, to_hw_port1 |-> \hf0, to_hw_port2 |-> \he0, to_hw_port3 |-> \hd0,
   to_hw_port4 |-> \hc0, to_hw_port5 |-> \hb0, to_hw_port6 |-> \ha0, to_hw_port7 |-> \h60,
   to_hw_port8 |-> \h90, to_hw_port9 |-> \h80, to_hw_port10 |-> \h40, to_hw_port11 |-> \h30,
   to_hw_port12 |-> \h20, to_hw_port13 |-> \h160, to_hw_port14 |-> \h150,
   to_hw_port15 |-> \h140, to_hw_sig |-> \h70,
   to_sw_port0 |-> \h130, to_sw_port1 |-> \h120, to_sw_port2 |-> \h110,
   to_sw_port3 |-> \h180, to_sw_port4 |-> \h170, to_sw_sig |-> \h50]

Names == DOMAIN pointer
Outs  == {n \in Names : slave[n].out}
Ins   == Names \ Outs
Chars == {"to_sw_port2", "to_hw_sig", "to_sw_sig"}     \* pointers to char

(* Where the linker puts the program (linker.h).                           *)
RESET_REGION == Slave(\h10000000, 32)
SDRAM_REGION == Slave(\h10000020, 134217696)
ALT_CPU_RESET_ADDR     == \h10000000
ALT_CPU_EXCEPTION_ADDR == \h10000020

VARIABLES register,     \* what each output port shows to the hardware
          pins,         \* what the hardware shows to each input port
          loaded,       \* the last word loaded, through which pointer, and
                        \* history: what the pins were
          unpackaged,   \* to_sw_port2 taken apart, and history: its pins
          last,         \* history: the last word stored through each pointer
          sent,         \* history: type and state packed into that word
          accesses

vars == <<register, pins, loaded, unpackaged, last, sent, accesses>>

Nothing == [name |-> "none", word |-> 0, pins |-> 0]
NotSent == <<>>

Init ==
  /\ register = [n \in Outs |-> 0]      \* RESET_VALUE
  /\ pins = [n \in Ins |-> 0]
  /\ loaded = Nothing /\ unpackaged = [digits |-> [i \in 0 .. 4 |-> 0], pins |-> 0]
  /\ last = [n \in Outs |-> 0] /\ sent = NotSent
  /\ accesses = 0

Access == accesses < MAXACCESS /\ accesses' = accesses + 1

-----------------------------------------------------------------------------
(* The bus                                                                 *)

Bits(word, low, n) == (word \div 2 ^ low) % 2 ^ n
Fit(word, bits) == IF bits = 32 THEN word ELSE Bits(word, 0, bits)

Within(addr, s) == s.base <= addr /\ addr < s.base + s.span

(* IOADDR_ALTERA_AVALON_PIO_DATA: the first of a port's registers; the     *)
(* others do nothing, for want of a direction, an interrupt or an edge.    *)
Selected(addr) == {n \in DOMAIN slave : Within(addr, slave[n])}
DATA(addr) == {n \in Selected(addr) : (addr - slave[n].base) \div 4 = 0}

Stored(name, word) ==
  /\ LET hit == DATA(pointer[name])
     IN  register' = [n \in Outs |-> IF n \in hit THEN Fit(word, slave[n].bits)
                                     ELSE register[n]]
  /\ last' = [last EXCEPT ![name] = word]

Store(name, word) ==
  /\ Access /\ Stored(name, word)
  /\ sent' = IF name = "to_hw_port0" THEN NotSent ELSE sent
  /\ UNCHANGED <<pins, loaded, unpackaged>>

(* A load through a pointer to char takes one byte, and its sign.          *)
Signed(byte) == IF byte < 128 THEN byte ELSE byte - 256
Loaded(name) ==
  LET hit  == DATA(pointer[name]) \cap Ins
      word == IF hit = {} THEN 0 ELSE pins[CHOOSE n \in hit : TRUE]
  IN  IF name \in Chars THEN Signed(Fit(word, 8)) ELSE word

Load(name) ==
  /\ Access
  /\ loaded' = [name |-> name, word |-> Loaded(name), pins |-> pins[name]]
  /\ UNCHANGED <<register, pins, unpackaged, last, sent>>

(* The hardware                                                            *)
Drive(name, word) ==
  /\ Access /\ word # pins[name]
  /\ pins' = [pins EXCEPT ![name] = word]
  /\ UNCHANGED <<register, loaded, unpackaged, last, sent>>

-----------------------------------------------------------------------------
(* Packing (main.c)                                                        *)

(* The number whose decimal digits are the binary ones of n, and back.     *)
convertDecimalToBinary[n \in Nat] ==
  IF n = 0 THEN 0 ELSE (n % 2) + 10 * convertDecimalToBinary[n \div 2]

convertBinaryToDecimal[n \in Nat] ==
  IF n = 0 THEN 0 ELSE (IF n % 10 = 1 THEN 1 ELSE 0) + 2 * convertBinaryToDecimal[n \div 10]

\* Mutant: the type two digits up, not three.
PackagerNarrow(type, state) ==
  convertBinaryToDecimal[convertDecimalToBinary[state] + convertDecimalToBinary[type] * 100]

messagePackager(type, state) ==
  convertBinaryToDecimal[convertDecimalToBinary[state] + convertDecimalToBinary[type] * 1000]

(* The third phase of FPGAcommunicator(), its first port.                  *)
SendState(type, state) ==
  /\ Access /\ Stored("to_hw_port0", messagePackager(type, state))
  /\ sent' = <<type, state>>
  /\ UNCHANGED <<pins, loaded, unpackaged>>

(* The slices of Hardware_Software_Comm.sv.                                *)
state0 == Bits(register["to_hw_port0"], 0, 3)
type0  == Bits(register["to_hw_port0"], 3, 3)

(* The digits one by one, the last first; three keys and two of the cursor.*)
Digit(n, i) == (convertDecimalToBinary[n] \div 10 ^ i) % 10

port2Unpackager ==
  /\ Access
  /\ unpackaged' = [digits |-> [i \in 0 .. 4 |-> Digit(Loaded("to_sw_port2"), i)],
                    pins |-> pins["to_sw_port2"]]
  /\ UNCHANGED <<register, pins, loaded, last, sent>>

(* Types and states have three bits; of to_sw_port2 five pins are driven,   *)
(* so that its byte has no sign.                                           *)
Next ==
  \/ \E n \in Outs, word \in Values : Store(n, word)
  \/ \E n \in Ins : Load(n)
  \/ \E n \in Ins \ {"to_sw_port2"}, word \in Values : Drive(n, Fit(word, slave[n].bits))
  \/ \E type, state \in 0 .. 7 : SendState(type, state)
  \/ \E keys \in 0 .. 31 : Drive("to_sw_port2", keys)
  \/ port2Unpackager

Spec == Init /\ [][Next]_vars
-----------------------------------------------------------------------------
(* Each pointer is served by one slave, and the program by the SDRAM alone,*)
(* its reset code and its exception code where the processor looks.        *)
OneSlaveEach ==
  /\ \A n \in Names : Cardinality(Selected(pointer[n])) = 1
  /\ \A r \in {RESET_REGION, SDRAM_REGION} :
       \A addr \in {r.base, r.base + r.span - 1} : Selected(addr) = {"sdram"}
  /\ Within(ALT_CPU_RESET_ADDR, RESET_REGION) /\ Within(ALT_CPU_EXCEPTION_ADDR, SDRAM_REGION)
  /\ RESET_REGION.base + RESET_REGION.span = SDRAM_REGION.base

(* Every pointer of the program is a register of its own: each port shows  *)
(* the last word stored through the pointer of its name, whatever was      *)
(* stored through the others, and a load finds what is on the pins of its  *)
(* name.                                                                   *)
PortsReached ==
  /\ OneSlaveEach
  /\ \A n \in Outs : register[n] = Fit(last[n], slave[n].bits)
  /\ loaded # Nothing => Fit(loaded.word, slave[loaded.name].bits) = loaded.pins

(* What is packed digit by digit arrives bit by bit: the hardware's slices *)
(* of the word are the type and the state that were sent, and the keys and *)
(* the cursor's signals are the pins.                                      *)
PackingExact ==
  /\ sent # NotSent => <<type0, state0>> = sent
  /\ \A i \in 0 .. 4 : unpackaged.digits[i] = Bits(unpackaged.pins, i, 1)
-----------------------------------------------------------------------------
(* What PortsReached rests on: the histories say what they are to say, and *)
(* of what the pins show nothing is lost; of to_sw_port2 five are driven.  *)
PortInv ==
  /\ register = [n \in Outs |-> Fit(last[n], slave[n].bits)]
  /\ last = [n \in Outs |-> last[n]]
  /\ pins \in [Ins -> Nat] /\ pins["to_sw_port2"] < 32
  /\ \A n \in Ins : Fit(pins[n], slave[n].bits) = pins[n]
  /\ loaded # Nothing => Fit(loaded.word, slave[loaded.name].bits) = loaded.pins
=============================================================================
