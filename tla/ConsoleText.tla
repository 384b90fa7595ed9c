---------------------------- MODULE ConsoleText ----------------------------
(***************************************************************************)
(* The texts of the board support package: alt_printf(), and the logging   *)
(* of alt_log_printf.c with its own printf, which puts its characters      *)
(* straight into the FIFO of the console, beside the driver.  A message of *)
(* an interrupt handler falls into the one that is being printed, and the  *)
(* room a character has waited for may be gone when it is written.         *)
(*                                                                         *)
(* Characters are strings of one.  A message is a list of items: a         *)
(* conversion with its argument, or a character as it is; headers and      *)
(* wording are left out.                                                   *)
(***************************************************************************)
EXTENDS Integers, Sequences, FiniteSets, SequencesExt

CONSTANTS BITS,         \* of a long (32), a multiple of four
          ECHO_LEN,     \* ALT_LOG_WRITE_ECHO_LEN (15)
          INTERVAL,     \* ALT_LOG_SYS_CLK_INTERVAL, ticks
          DEPTH,        \* of the FIFO (64)
          Characters,   \* there are
          Numbers,      \* bound: what is printed
          Widths,       \* bound: of a field, 0 for none, one digit
          Writes,       \* bound: what is given to write()
          MAXMESSAGES,  \* bound: messages of the program
          MAXINTERRUPTS \* bound: interrupts, with a message or without

Power(b, n) == LET power[k \in Nat] == IF k = 0 THEN 1 ELSE b * power[k - 1] IN power[n]
LONG == Power(2, BITS)

NUL  == "0x00"
EOT  == "0x04"       \* Ctrl-D
CR   == "0x0d"
LF   == "0x0a"
Own  == {"0", "1", "2", "3", "4", "5", "6", "7", "8", "9", "a", "b", "c", "d", "e", "f",
         "A", "B", "C", "D", "E", "F", "i", "l", "o", "q", "s", "u", "x", "X",
         " ", "%", "-", ".", NUL, CR, LF}

(* What is taken for granted of the constants.                               *)
TextBounds ==
  /\ Own \subseteq Characters /\ Writes \subseteq Seq(Characters)
  /\ BITS \in Nat \ {0} /\ BITS % 4 = 0 /\ Numbers \subseteq 0 .. LONG - 1
  /\ ECHO_LEN \in Nat \ {0} /\ DEPTH \in 1 .. LONG - 1 /\ INTERVAL \in Nat
  /\ Widths \subseteq 0 .. 9
  /\ MAXMESSAGES \in Nat /\ MAXINTERRUPTS \in Nat
ASSUME TextAssumption == TextBounds

VARIABLES ALT_LOG_FLAGS,
          alt_log_sys_clk_count, alt_system_clock_in_sec,
          space,        \* the FIFO's room
          frames,       \* messages being printed, the innermost first
          printed,      \* characters put out, or lost, and whose they are
          ids,          \* messages begun
          messages,     \* history: the items of each message
          interrupts, intrusions    \* history: of the latter, between the
                                    \* look at the FIFO and the writing

counters == <<alt_log_sys_clk_count, alt_system_clock_in_sec>>
history  == <<ids, messages, interrupts, intrusions>>
textVars == <<ALT_LOG_FLAGS, counters, space, frames, printed, history>>

Digits == <<"0","1","2","3","4","5","6","7","8","9">>
Lower  == Digits \o <<"a","b","c","d","e","f">>
Upper  == Digits \o <<"A","B","C","D","E","F">>
IsDigit(char) == char \in ToSet(Digits)
DigitOf(char) == (CHOOSE i \in 1 .. 10 : Digits[i] = char) - 1
Alphabet(upper) == IF upper THEN Upper ELSE Lower

TwosComplement(n) == IF n >= LONG \div 2 THEN n - LONG ELSE n
Upto(s)   == SubSeq(s, 1, SelectInSeq(Append(s, NUL), LAMBDA char : char = NUL) - 1)

-----------------------------------------------------------------------------
(* Messages: [letter, zero, width, extra, n, s], or a character.           *)

Plain(c) == [letter |-> "plain", zero |-> FALSE, width |-> 0, extra |-> <<>>, n |-> 0, s |-> <<c>>]
Conversion(letter, zero, width, n, s) ==
  [letter |-> letter, zero |-> zero, width |-> width, extra |-> <<>>, n |-> n, s |-> s]
Number(letter, n) == Conversion(letter, FALSE, 0, n, <<>>)

Zero(item)  == IF item.zero THEN <<"0">> ELSE <<>>
Width(item) == IF item.width > 0 THEN <<Digits[item.width + 1]>> ELSE <<>>
Ending(item)  == item.extra \o <<item.letter>>
Format(item) == IF item.letter = "plain" THEN item.s
                ELSE <<"%">> \o (Zero(item) \o (Width(item) \o Ending(item)))

Argument(item) == IF item.letter \in {"plain", "%"} THEN <<>> ELSE <<item>>

(* What an item is to look like, from the meaning of its letter.           *)
Base(letter) == CASE letter = "o" -> 8 [] letter \in {"x", "X"} -> 16 [] OTHER -> 10
Places(n, base) ==
  CHOOSE k \in 1 .. BITS : n < Power(base, k) /\ (k > 1 => n >= Power(base, k - 1))
Numeral(n, base, upper) ==
  [i \in 1 .. Places(n, base) |->
     Alphabet(upper)[((n \div Power(base, Places(n, base) - i)) % base) + 1]]
Padding(item, char, length) == [i \in 1 .. item.width - length |-> char]
Sign(negative) == IF negative THEN <<"-">> ELSE <<>>
Numbery(item) ==
  LET negative == item.letter \in {"d", "i"} /\ TwosComplement(item.n) < 0
      sign     == Sign(negative)
      digits   == Numeral(IF negative THEN -TwosComplement(item.n) ELSE item.n,
                          Base(item.letter), item.letter = "X")
      size     == Len(sign) + Len(digits)
  IN  IF item.zero THEN sign \o (Padding(item, "0", size) \o digits)
      ELSE Padding(item, " ", size) \o (sign \o digits)
Meaning(item) ==
  CASE item.letter = "plain" -> item.s
    [] item.letter = "%" -> <<"%">>
    [] item.letter \in {"c", "s"} -> Padding(item, " ", Len(Upto(item.s))) \o Upto(item.s)
    [] OTHER -> Numbery(item)

FormatOf(items)  == FlattenSeq([i \in DOMAIN items |-> Format(items[i])])
ArgsOf(items)    == FlattenSeq([i \in DOMAIN items |-> Argument(items[i])])
MeaningOf(items) == FlattenSeq([i \in DOMAIN items |-> Meaning(items[i])])

-----------------------------------------------------------------------------
(* ALT_LOG_FLAGS turns on kinds of messages.                               *)
flag ==
  [boot         |-> ALT_LOG_FLAGS # -1,
   sys_clk      |-> ALT_LOG_FLAGS \in {1, 2, 3},
   write        |-> ALT_LOG_FLAGS \in {2, 3},
   uart_alarm   |-> ALT_LOG_FLAGS \in {2, 3},
   startup_info |-> ALT_LOG_FLAGS \in {1, 2, 3},
   isr          |-> ALT_LOG_FLAGS = 3]

TextInit ==
  /\ ALT_LOG_FLAGS \in {-1, 0, 1, 2, 3}
  /\ alt_log_sys_clk_count = 0 /\ alt_system_clock_in_sec = 0
  /\ space = DEPTH /\ frames = <<>> /\ printed = <<>>
  /\ ids = 0 /\ messages = <<>> /\ interrupts = 0 /\ intrusions = 0

(* A call of alt_log_printf_proc(), or of alt_printf().                    *)
Message(items, by) ==
  /\ frames' = <<[by |-> by, id |-> ids + 1, at |-> "format", state |-> "chars",
                  fmt |-> FormatOf(items), args |-> ArgsOf(items), pending |-> <<>>,
                  zero |-> FALSE, before |-> -1, after |-> -1]>> \o frames
  /\ ids' = ids + 1
  /\ messages' = Append(messages, items)

Top   == Head(frames)
At(at) == frames # <<>> /\ Top.at = at
Put(frame) == frames' = <<frame>> \o Tail(frames)
Eaten(f) == [f EXCEPT !.fmt = Tail(@)]

-----------------------------------------------------------------------------
(* alt_log_private_printf(), one character of the format at a time.        *)

\* Mutant: counts down past zero.
RepeatOnceMore(char, r) == [i \in 1 .. r + 1 |-> char]

Repeat(char, r) == [i \in 1 .. r |-> char]

(* The number of digits is counted by dividing, and they come out from the *)
(* largest place down.                                                     *)
DigitCount(v, base) ==
  LET count[shrink \in Nat] == IF shrink < base THEN 1 ELSE 1 + count[shrink \div base]
  IN  count[v]

NumberyParts(v, p, base, upper) ==
  LET print[vp \in Nat \X Nat] ==
        IF vp[2] = 0 THEN <<>>
        ELSE <<Alphabet(upper)[vp[1] \div vp[2] + 1]>>
               \o print[<<vp[1] % vp[2], vp[2] \div base>>]
  IN  print[<<v, p>>]

Integer(letter, f, n) ==
  LET base    == Base(letter)
      sign    == letter \in {"d", "i"} /\ n >= LONG \div 2
      v       == IF sign THEN LONG - n ELSE n
      digits  == DigitCount(v, base)
      before  == f.before - digits - (IF sign THEN 1 ELSE 0)
      minus   == Sign(sign)
      numbery == NumberyParts(v, Power(base, digits - 1), base, letter = "X")
  IN  IF f.zero THEN minus \o (Repeat("0", before) \o numbery)
      ELSE Repeat(" ", before) \o (minus \o numbery)

Converted(letter, f) ==
  LET arg == Head(f.args)
  IN  CASE letter \in {"d", "i", "u", "o", "x", "X"} -> Integer(letter, f, arg.n)
        [] letter = "c" -> Repeat(" ", f.before - 1) \o arg.s
        [] letter = "s" -> Repeat(" ", f.before - Len(Upto(arg.s))) \o Upto(arg.s)
        [] OTHER -> <<>>

otherFmtChar(f) ==
  LET c == Head(f.fmt)
  IN  CASE c = "."    -> [Eaten(f) EXCEPT !.after = 0, !.state = "otherFmtChar"]
        [] IsDigit(c) -> IF f.after < 0
                           THEN [Eaten(f) EXCEPT !.before = (IF @ < 0 THEN 0 ELSE @ * 10) + DigitOf(c),
                                                 !.state = "otherFmtChar"]
                           ELSE [Eaten(f) EXCEPT !.after = @ * 10 + DigitOf(c)]
        [] c = "l"    -> [Eaten(f) EXCEPT !.state = "otherFmtChar"]
        [] OTHER      -> [Eaten(f) EXCEPT !.pending = Converted(c, f), !.args = Tail(@),
                                          !.state = "chars"]

Interpreted(f) ==
  LET c == Head(f.fmt)
  IN  CASE f.state = "chars" /\ c = "%" ->
             [Eaten(f) EXCEPT !.zero = FALSE, !.before = -1, !.after = -1, !.state = "firstFmtChar"]
        [] f.state = "chars" /\ c # "%" -> [Eaten(f) EXCEPT !.pending = <<c>>]
        [] f.state = "firstFmtChar" /\ c = "0" ->
             [Eaten(f) EXCEPT !.zero = TRUE, !.state = "otherFmtChar"]
        [] f.state = "firstFmtChar" /\ c = "%" ->
             [Eaten(f) EXCEPT !.pending = <<c>>, !.state = "chars"]
        [] OTHER -> otherFmtChar(f)

alt_log_private_printf ==
  /\ At("format") /\ Top.by = "log" /\ Top.pending = <<>>
  /\ IF Top.fmt = <<>> THEN frames' = Tail(frames) ELSE Put(Interpreted(Top))
  /\ UNCHANGED <<ALT_LOG_FLAGS, counters, space, printed, history>>

(* alt_log_txchar(): it waits for room, and then writes; a full FIFO drops *)
(* what it is given.                                                       *)
PollFifo ==
  /\ At("format") /\ Top.by = "log" /\ Top.pending # <<>> /\ space > 0
  /\ Put([Top EXCEPT !.at = "write"])
  /\ UNCHANGED <<ALT_LOG_FLAGS, counters, space, printed, history>>

WriteFifo ==
  /\ At("write")
  /\ printed' = Append(printed, [id |-> Top.id, char |-> Head(Top.pending), lost |-> space = 0])
  /\ space' = IF space = 0 THEN 0 ELSE space - 1
  /\ Put([Top EXCEPT !.at = "format", !.pending = Tail(@)])
  /\ UNCHANGED <<ALT_LOG_FLAGS, counters, history>>

HostTakes == /\ frames # <<>> /\ space < DEPTH /\ space' = DEPTH
             /\ UNCHANGED <<ALT_LOG_FLAGS, counters, frames, printed, history>>

-----------------------------------------------------------------------------
(* alt_printf(), the same way: it knows %%, %c, %x and %s, and gives its   *)
(* characters to the file.                                                 *)

Hex(n) ==
  LET nibble(shift) == (n \div Power(2, shift)) % 16
      top == Max({i \in 0 .. BITS \div 4 - 1 : nibble(4 * i) # 0})
  IN  IF n = 0 THEN <<"0">>
      ELSE [i \in 1 .. top + 1 |-> Lower[nibble(4 * (top + 1 - i)) + 1]]

\* What it says at once, and what it has left.
Words(f) ==
  LET c == Head(f.fmt)
      letter == IF Len(f.fmt) > 1 THEN f.fmt[2] ELSE NUL
  IN  CASE c # "%" -> <<c>>
        [] c = "%" /\ letter = "%" -> <<"%">>
        [] c = "%" /\ letter = "x" -> Hex(Head(f.args).n)
        [] c = "%" /\ letter \in {"c", "s"} -> Upto(Head(f.args).s)
        [] OTHER -> <<>>
Spoken(f) ==
  LET conversion == Head(f.fmt) = "%"
      taken == IF conversion /\ Len(f.fmt) > 1 THEN 2 ELSE 1
      used  == IF conversion /\ Len(f.fmt) > 1 /\ f.fmt[2] \in {"x", "c", "s"} THEN 1 ELSE 0
  IN  [f EXCEPT !.fmt = SubSeq(@, taken + 1, Len(@)), !.args = SubSeq(@, used + 1, Len(@))]

alt_printf ==
  /\ At("format") /\ Top.by = "alt_printf"
  /\ IF Top.fmt = <<>> THEN frames' = Tail(frames) /\ UNCHANGED printed
     ELSE /\ printed' = printed \o [i \in DOMAIN Words(Top) |->
                              [id |-> Top.id, char |-> Words(Top)[i], lost |-> FALSE]]
          /\ Put(Spoken(Top))
  /\ UNCHANGED <<ALT_LOG_FLAGS, counters, space, history>>

-----------------------------------------------------------------------------
(* Who prints                                                              *)

MayPrint == frames = <<>> /\ ids < MAXMESSAGES
Quiet    == UNCHANGED <<ALT_LOG_FLAGS, counters, space, printed, interrupts, intrusions>>

(* What the drivers and the program say in their own words; a second item  *)
(* of the message shows what the first has left behind.                    *)
Closing == [Number("d", 7) EXCEPT !.extra = <<".", "2", "l">>]
ALT_LOG_PRINTF ==
  /\ MayPrint /\ flag.boot
  /\ \/ \E letter \in {"d", "i", "u", "o", "x", "X"}, zero \in BOOLEAN, width \in Widths,
           n \in Numbers : Message(<<Conversion(letter, zero, width, n, <<>>), Closing>>, "log")
     \/ \E letter \in {"c", "s"}, width \in Widths :
          Message(<<Conversion(letter, FALSE, width, 0, <<"q">>), Plain("b"), Closing>>, "log")
     \/ Message(<<Number("%", 0), Closing>>, "log")
  /\ Quiet

CallAltPrintf ==
  /\ MayPrint
  /\ \/ \E n \in Numbers : Message(<<Number("x", n), Number("x", 7)>>, "alt_printf")
     \/ \E letter \in {"c", "s"} :
          Message(<<Conversion(letter, FALSE, 0, 0, <<"q">>), Number("%", 0), Plain("b")>>,
                "alt_printf")
  /\ Quiet

(* alt_log_write(): as many characters as the buffer takes, the last of    *)
(* them made the end of a line.                                            *)
Echo(text) ==
  LET length == IF ECHO_LEN > Len(text) THEN Len(text) ELSE ECHO_LEN
      copied == [i \in 1 .. length |-> IF i > Len(Upto(text)) THEN NUL ELSE text[i]]
      ended  == [copied EXCEPT ![length] = LF]
  IN  [i \in 1 .. length |-> IF ended[i] = EOT THEN "D" ELSE ended[i]] \o <<CR>>

alt_log_write ==
  /\ MayPrint /\ flag.write
  /\ \E text \in Writes :
       /\ Len(text) >= 2 /\ ECHO_LEN >= 2
       /\ Message(<<Conversion("s", FALSE, 0, 0, Echo(text))>>, "log")
  /\ Quiet

(* alt_log_jtag_uart_print_control_reg(): the fields of the register.      *)
Field(control, place, size) == (control \div place) % size
Report(control) ==
  LET shown == <<Field(control, 65536, 65536), Field(control, 1024, 2), Field(control, 512, 2),
                 Field(control, 256, 2), Field(control, 2, 2), Field(control, 1, 2)>>
  IN  [i \in DOMAIN shown |-> Number("d", shown[i])]
CONTROL == space * 65536 + 1024 + 512 + 2             \* as it is while one writes

StartupInfo == /\ MayPrint /\ flag.startup_info /\ ids = 0
               /\ Message(Report(CONTROL), "log")
               /\ Quiet

(* A handler: the driver's, which fills the FIFO and may log first, the    *)
(* driver's alarm, or the system clock's.                                  *)
Handler ==
  /\ interrupts < MAXINTERRUPTS /\ frames # <<>> /\ Len(frames) = 1
  /\ interrupts' = interrupts + 1
  /\ intrusions' = intrusions + (IF Top.at = "write" THEN 1 ELSE 0)
  /\ UNCHANGED <<ALT_LOG_FLAGS, printed>>

Unprinted == UNCHANGED <<frames, ids, messages>>

UartIsr ==
  /\ Handler
  /\ \/ flag.isr /\ Message(Report(CONTROL), "log") /\ UNCHANGED space
     \/ ~flag.isr /\ space' \in 0 .. space /\ Unprinted
  /\ UNCHANGED counters

altera_avalon_jtag_uart_report_log ==
  /\ Handler /\ flag.uart_alarm
  /\ Message(Report(CONTROL), "log")
  /\ UNCHANGED <<counters, space>>

(* One tick more than the interval goes by between two messages.           *)
alt_log_system_clock ==
  /\ Handler /\ flag.sys_clk
  /\ IF alt_log_sys_clk_count + 1 > INTERVAL
       THEN /\ alt_log_sys_clk_count' = 0
            /\ alt_system_clock_in_sec' = (alt_system_clock_in_sec + 1) % LONG
            /\ Message(<<Number("u", alt_system_clock_in_sec)>>, "log")
       ELSE /\ alt_log_sys_clk_count' = alt_log_sys_clk_count + 1
            /\ UNCHANGED alt_system_clock_in_sec /\ Unprinted
  /\ UNCHANGED space

TextNext == \/ alt_log_private_printf \/ PollFifo \/ WriteFifo \/ HostTakes \/ alt_printf
        \/ ALT_LOG_PRINTF \/ CallAltPrintf \/ alt_log_write \/ StartupInfo
        \/ UartIsr \/ altera_avalon_jtag_uart_report_log \/ alt_log_system_clock

TextSpec == TextInit /\ [][TextNext]_textVars
-----------------------------------------------------------------------------
TextOf(id)   == FlattenSeq([i \in DOMAIN printed |->
                              IF printed[i].id = id THEN <<printed[i].char>> ELSE <<>>])
Printing(id) == \E k \in DOMAIN frames : frames[k].id = id
Lost         == Cardinality({i \in DOMAIN printed : printed[i].lost})

(* Every message comes out as its conversions mean, also around a message  *)
(* of a handler that fell into it: the number, the width, the sign, no     *)
(* zero too many, and nothing of one conversion in the next.  A character  *)
(* is dropped only if a handler came between the look at the FIFO and the  *)
(* writing, one for each.  No Ctrl-D reaches the terminal from a write().  *)
TextExact ==
  /\ \A id \in 1 .. ids : ~Printing(id) => TextOf(id) = MeaningOf(messages[id])
  /\ \A id \in 1 .. ids : IsPrefix(TextOf(id), MeaningOf(messages[id]))
  /\ Lost <= intrusions
  /\ \A i \in DOMAIN printed : printed[i].char # EOT
-----------------------------------------------------------------------------
(* What TextExact rests on.                                                *)

Char    == Characters \ {EOT}
Numeric == {"d", "i", "u", "o", "x", "X"}

(* What is asked of an item: what the letter does not use is not there,    *)
(* and a character as it is does not look like a conversion.               *)
Proper(item) ==
  /\ item.letter \notin Numeric => ~item.zero /\ item.extra = <<>>
  /\ item.letter \in {"plain", "%"} => item.width = 0
  /\ item.letter \in {"plain", "c"} => Len(item.s) = 1 /\ item.s[1] \notin {"%", NUL}
Item == {item \in [letter : Numeric \cup {"plain", "%", "c", "s"}, zero : BOOLEAN, width : 0 .. 9,
                   extra : {<<>>, <<".", "2", "l">>}, n : 0 .. LONG - 1, s : Seq(Char)] : Proper(item)}

Frame == [by : {"log", "alt_printf"}, id : Nat, at : {"format", "write"},
          state : {"chars", "firstFmtChar", "otherFmtChar"}, fmt : Seq(Characters), args : Seq(Item),
          pending : Seq(Char), zero : BOOLEAN, before : Int, after : Int]
Written == [id : Nat, char : Char, lost : BOOLEAN]

TypeOK ==
  /\ ids \in Nat /\ messages \in Seq(Seq(Item)) /\ Len(messages) = ids
  /\ frames \in Seq(Frame) /\ \A k \in DOMAIN frames : frames[k].id \in 1 .. ids
  /\ printed \in Seq(Written) /\ \A i \in DOMAIN printed : printed[i].id \in 1 .. ids
  /\ space \in 0 .. DEPTH /\ alt_system_clock_in_sec \in 0 .. LONG - 1
  /\ interrupts \in Nat /\ intrusions \in Nat

(* The rest of a conversion whose beginning has been read.                 *)
Rests(f, item) ==
  IF f.state = "firstFmtChar"
    THEN IF ~f.zero /\ f.before = -1 /\ f.after = -1
           THEN {Zero(item) \o (Width(item) \o Ending(item))} ELSE {}
    ELSE UNION {IF f.before = -1 /\ f.after = -1 THEN {Width(item) \o Ending(item)} ELSE {},
                IF f.before = (IF item.width > 0 THEN item.width ELSE -1)
                  THEN IF f.after < 0 THEN {Ending(item)}
                       ELSE {<<"2", "l", item.letter>>, <<"l", item.letter>>, <<item.letter>>}
                  ELSE {}}

(* How far a message is: some items are out, one may be in conversion, and *)
(* the others are as they were.                                            *)
Reached(f, k, message, said) ==
  LET later == SubSeq(message, k + 1, Len(message))
  IN  IF f.state = "chars"
        THEN /\ f.fmt = FormatOf(later) /\ f.args = ArgsOf(later)
             /\ said \o (f.pending \o MeaningOf(later)) = MeaningOf(message)
        ELSE LET item == message[k] IN
             /\ k > 0 /\ f.by = "log" /\ item.letter # "plain" /\ f.pending = <<>>
             /\ f.state = "otherFmtChar" => item.letter # "%" /\ f.zero = item.zero
             /\ f.after >= 0 => item.extra # <<>>
             /\ \E rest \in Rests(f, item) : f.fmt = rest \o FormatOf(later)
             /\ f.args = Argument(item) \o ArgsOf(later)
             /\ said \o (Meaning(item) \o MeaningOf(later)) = MeaningOf(message)

(* alt_printf() knows no fields, and no other letters.                     *)
Simple(item) == /\ item.letter \in {"plain", "%", "c", "s", "x"} /\ ~item.zero
                /\ item.width = 0 /\ item.extra = <<>>

Underway(f, message, said) ==
  /\ \E k \in 0 .. Len(message) : Reached(f, k, message, said)
  /\ f.at = "write" => f.pending # <<>>
  /\ f.by = "alt_printf" => /\ f.at = "format" /\ f.state = "chars" /\ f.pending = <<>>
                            /\ \A k \in DOMAIN message : Simple(message[k])

(* What is to come of a look at the FIFO that is no longer true is paid    *)
(* for; the innermost message's is true until a handler comes.             *)
Owes == LET f == frames[Len(frames)]
        IN  IF frames # <<>> /\ f.at = "write" /\ (Len(frames) = 2 \/ space = 0) THEN 1 ELSE 0

TextInv ==
  /\ TypeOK
  /\ Len(frames) <= 2 /\ (Len(frames) = 2 => frames[1].id # frames[2].id)
  /\ \A id \in 1 .. ids : ~Printing(id) => TextOf(id) = MeaningOf(messages[id])
  /\ \A k \in DOMAIN frames :
       Underway(frames[k], messages[frames[k].id], TextOf(frames[k].id))
  /\ Len(frames) = 2 /\ frames[1].at = "write" => space > 0
  /\ Lost + Owes <= intrusions
=============================================================================
