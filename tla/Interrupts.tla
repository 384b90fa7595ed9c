----------------------------- MODULE Interrupts -----------------------------
(***************************************************************************)
(* The processor's interrupts as the board support package uses them: the  *)
(* dispatcher (alt_irq_handler.c), sections without interrupts (alt_irq.h),*)
(* enabling, masking and registering (alt_legacy_irq.h, alt_iic*.c), and   *)
(* the exceptions of instructions (alt_instruction_exception_entry.c).     *)
(*                                                                         *)
(* A step is what the processor does between two moments at which it can   *)
(* be interrupted.  The program's calls are lists of such steps (todo),    *)
(* the handlers that run are a stack, the innermost first.  A device keeps *)
(* its line asserted until its handler has served it.                      *)
(***************************************************************************)
EXTENDS Integers, Sequences, FiniteSetsExt

CONSTANTS ALT_NIRQ,     \* lines of the internal controller (32)
          MAXSECTION    \* bound: sections without interrupts in one another

(* What is taken for granted of the constants.                               *)
Bounds ==
  /\ ALT_NIRQ \in Nat \ {0}
  /\ MAXSECTION \in Nat

VARIABLES
  pie,                  \* status.PIE
  ienable,              \* the lines the controller lets through
  alt_irq_active,       \* ... as the software wants them
  alt_priority_mask,    \* lines that may interrupt the handler that runs
  alt_irq,              \* lines with a handler in the table
  exception_handler,    \* alt_instruction_exception_handler is set
  lines,                \* lines that are asserted
  stack,                \* exceptions in progress
  todo,                 \* the rest of the program's call
  contexts              \* what alt_irq_disable_all() has returned to it

control == <<ienable, alt_irq_active, alt_priority_mask>>
tables  == <<alt_irq, exception_handler>>
program == <<todo, contexts>>
vars    == <<pie, control, tables, stack, program, lines>>

Irqs     == 0 .. ALT_NIRQ - 1       \* the lower, the more urgent
Below(i) == 0 .. i - 1
Pending  == lines \cap ienable      \* register ipending

(* The steps a call is made of.                                            *)
Save      == <<"save">>
Off       == <<"off">>
Restore   == <<"restore">>
alt_irq_disable_all    == <<Save, Off>>
alt_irq_enable_all     == <<Restore>>
alt_irq_enable(i)      == alt_irq_disable_all \o <<<<"enable", i>>>> \o alt_irq_enable_all
alt_irq_disable(i)     == alt_irq_disable_all \o <<<<"disable", i>>>> \o alt_irq_enable_all
alt_iic_isr_register(i, isr) ==
  alt_irq_disable_all \o <<<<"table", i, isr>>>>
    \o (IF isr THEN alt_irq_enable(i) ELSE alt_irq_disable(i)) \o alt_irq_enable_all
alt_irq_init == <<<<"clear">>, <<"on">>>>

Init ==
  /\ pie = FALSE /\ ienable = {} /\ alt_irq_active = {} /\ alt_priority_mask = Irqs
  /\ alt_irq = {} /\ exception_handler = FALSE
  /\ lines = {}
  /\ stack = <<>>
  /\ todo = alt_irq_init /\ contexts = <<>>

-----------------------------------------------------------------------------
(* The devices and the processor                                           *)

(* A device asks as often as it likes.                                     *)
Raise ==
  /\ \E i \in Irqs \ lines : lines' = lines \cup {i}
  /\ UNCHANGED <<pie, control, tables, stack, program>>

(* Registers are saved, interrupts are off.                                *)
Enter ==
  /\ stack' = <<[at |-> "entry", irq |-> ALT_NIRQ, estatus |-> pie, old |-> {}]>> \o stack
  /\ pie' = FALSE
  /\ UNCHANGED <<control, tables, program>>

Interrupt == pie /\ Pending # {} /\ Enter /\ UNCHANGED lines

(* An instruction of the program that raises an exception.                 *)
Fault == stack = <<>> /\ todo = <<>> /\ Enter /\ UNCHANGED lines

Top    == Head(stack)
In(at) == stack # <<>> /\ Top.at = at
Move(at) == stack' = [stack EXCEPT ![1].at = at]
\* Mutant: the status is not restored.
LeaveMasked == stack' = Tail(stack) /\ pie' = FALSE

Leave  == stack' = Tail(stack) /\ pie' = Top.estatus

(* "Test to see if the exception was a software exception or caused by an  *)
(* external interrupt".                                                    *)
IrqTest ==
  /\ In("entry")
  /\ Move(IF Top.estatus /\ Pending # {} THEN "first" ELSE "unknown")
  /\ UNCHANGED <<pie, control, tables, program, lines>>

-----------------------------------------------------------------------------
(* alt_irq_handler(): the most urgent of the lines pending now, again and  *)
(* again until there is none.  It takes for granted that there is a first. *)
Dispatch ==
  /\ In("first") \/ In("pending")
  /\ Pending # {}
  /\ stack' = [stack EXCEPT ![1].at = "isr", ![1].irq = Min(Pending)]
  /\ UNCHANGED <<pie, control, tables, program, lines>>

Return ==
  /\ In("pending") /\ Pending = {}
  /\ Leave
  /\ UNCHANGED <<control, tables, program, lines>>

(* A handler clears the condition, before or after it has allowed more     *)
(* urgent lines to interrupt it, or without.                               *)
Serve ==
  /\ In("isr") \/ In("open")
  /\ lines' = lines \ {Top.irq}
  /\ Move(IF Top.at = "isr" THEN "pending" ELSE "closing")
  /\ UNCHANGED <<pie, control, tables, program>>

alt_irq_interruptible ==
  /\ In("isr")
  /\ stack' = [stack EXCEPT ![1].at = "open", ![1].old = alt_priority_mask]
  /\ alt_priority_mask' = Below(Top.irq)
  /\ ienable' = alt_irq_active \cap Below(Top.irq)
  /\ pie' = TRUE
  /\ UNCHANGED <<alt_irq_active, tables, program, lines>>

\* Mutant: lines that are switched off come back with the mask.
NonInterruptibleAll ==
  /\ In("closing")
  /\ Move("pending")
  /\ pie' = FALSE
  /\ alt_priority_mask' = Top.old
  /\ ienable' = Top.old
  /\ UNCHANGED <<alt_irq_active, tables, program, lines>>

alt_irq_non_interruptible ==
  /\ In("closing")
  /\ Move("pending")
  /\ pie' = FALSE
  /\ alt_priority_mask' = Top.old
  /\ ienable' = Top.old \cap alt_irq_active
  /\ UNCHANGED <<alt_irq_active, tables, program, lines>>

SetActive(active) == alt_irq_active' = active /\ ienable' = active

(* A handler that nobody has interrupted, and that interrupts nobody, may  *)
(* enable or disable a line.  Elsewhere the calls would forget the mask.   *)
IsrSwitches ==
  /\ In("isr") /\ Len(stack) = 1
  /\ \E i \in alt_irq : \/ SetActive(alt_irq_active \cup {i})
                        \/ SetActive(alt_irq_active \ {i})
  /\ UNCHANGED <<pie, alt_priority_mask, tables, stack, program, lines>>

-----------------------------------------------------------------------------
(* alt_instruction_exception_entry(): the registered handler, after which  *)
(* the instruction is skipped or issued again, or the debugger.            *)
Unknown ==
  /\ In("unknown")
  /\ IF exception_handler THEN Leave
     ELSE Move("break") /\ UNCHANGED pie
  /\ UNCHANGED <<control, tables, program, lines>>

Handlers == \/ IrqTest \/ Dispatch \/ Return \/ Serve \/ alt_irq_interruptible
            \/ alt_irq_non_interruptible \/ IsrSwitches \/ Unknown

-----------------------------------------------------------------------------
(* The program                                                             *)

Running == stack = <<>>
Idle    == Running /\ todo = <<>>

Step(op) == Running /\ todo # <<>> /\ Head(todo)[1] = op /\ todo' = Tail(todo)

SaveContext == Step("save") /\ contexts' = <<pie>> \o contexts
               /\ UNCHANGED <<pie, control, tables, stack, lines>>

TurnOff == Step("off") /\ pie' = FALSE
           /\ UNCHANGED <<control, tables, stack, contexts, lines>>

RestoreContext == Step("restore") /\ pie' = Head(contexts) /\ contexts' = Tail(contexts)
                  /\ UNCHANGED <<control, tables, stack, lines>>

SwitchLine ==
  /\ \/ Step("enable")  /\ SetActive(alt_irq_active \cup {Head(todo)[2]})
     \/ Step("disable") /\ SetActive(alt_irq_active \ {Head(todo)[2]})
  /\ UNCHANGED <<pie, alt_priority_mask, tables, stack, contexts, lines>>

SetTable ==
  /\ Step("table")
  /\ alt_irq' = IF Head(todo)[3] THEN alt_irq \cup {Head(todo)[2]} ELSE alt_irq \ {Head(todo)[2]}
  /\ UNCHANGED <<pie, control, exception_handler, stack, contexts, lines>>

InitIrq ==
  /\ \/ Step("clear") /\ ienable' = {} /\ UNCHANGED pie
     \/ Step("on") /\ pie' = TRUE /\ UNCHANGED ienable
  /\ UNCHANGED <<alt_irq_active, alt_priority_mask, tables, stack, contexts, lines>>

Program == SaveContext \/ TurnOff \/ RestoreContext \/ SwitchLine \/ SetTable \/ InitIrq

(* Its next call; a line is switched only while it has a handler.          *)
CallIrq ==
  /\ Idle
  /\ \/ \E i \in alt_irq : todo' = alt_irq_enable(i) \/ todo' = alt_irq_disable(i)
     \/ \E i \in Irqs, isr \in BOOLEAN : todo' = alt_iic_isr_register(i, isr)
     \/ Len(contexts) < MAXSECTION /\ todo' = alt_irq_disable_all
  /\ UNCHANGED <<pie, control, tables, stack, contexts, lines>>

EndSection ==
  /\ Idle /\ contexts # <<>> /\ todo' = alt_irq_enable_all
  /\ UNCHANGED <<pie, control, tables, stack, contexts, lines>>

alt_instruction_exception_register ==
  /\ Idle /\ exception_handler' \in BOOLEAN
  /\ UNCHANGED <<pie, control, alt_irq, stack, program, lines>>

Next == \/ Raise \/ Interrupt \/ Fault \/ Handlers \/ Program
        \/ CallIrq \/ EndSection \/ alt_instruction_exception_register

Spec == Init /\ [][Next]_vars

(* The processor goes on and takes an interrupt whenever it can again and  *)
(* again (hardware does not wait for a better moment); the program does    *)
(* not stay within sections for ever, nor a handler in switching lines.    *)
Fairness == /\ SF_vars(Interrupt) /\ WF_vars(Program) /\ SF_vars(EndSection /\ Len(contexts) = 1)
            /\ WF_vars(IrqTest \/ Dispatch \/ Return \/ Serve \/ alt_irq_non_interruptible \/ Unknown)
FairSpec == Spec /\ Fairness
-----------------------------------------------------------------------------
(* The program is within alt_irq_disable_all() ... alt_irq_enable_all().   *)
Within == LET opening == IF todo # <<>> /\ Head(todo) = Off THEN 1 ELSE 0
          IN  Len(contexts) > opening

(* A handler is interrupted only by a more urgent one, and whoever is gone *)
(* back to finds the lines let through that were before: all that are      *)
(* wanted for the program, the more urgent ones for a handler.  No handler *)
(* runs within a section, however sections and calls with sections of      *)
(* their own are nested, and none runs that is not registered.             *)
InterruptDiscipline ==
  /\ \A k \in 1 .. Len(stack) - 1 :
       stack[k].at \in {"isr", "open", "closing"} => stack[k].irq < stack[k + 1].irq
  /\ ienable = alt_irq_active \cap alt_priority_mask
  /\ In("open") => alt_priority_mask = Below(Top.irq)
  /\ stack = <<>> => alt_priority_mask = Irqs
  /\ Within => ~pie /\ \A k \in 1 .. Len(stack) : stack[k].at \in {"entry", "unknown", "break"}
  /\ \A k \in 1 .. Len(stack) : stack[k].at = "isr" => stack[k].irq \in alt_irq

(* A device waits while it asks on a line that is switched on and the      *)
(* processor has not stopped at an exception nobody handles.               *)
Waits(i) == i \in lines /\ i \in alt_irq_active /\ ~In("break")

(* It asks and is served, and asks anew, without end.                      *)
AsksWithoutEnd(i) == []<>(i \in lines) /\ []<>(i \notin lines)

(* No line waits for ever, however often masks, sections and switched      *)
(* lines come between, with the one exception that is alt_irq_handler()'s  *)
(* own: as it looks for the most urgent line anew on every pass, a more    *)
(* urgent device that is served and asks anew without end keeps all less   *)
(* urgent ones waiting.  The most urgent line has no such exception.       *)
Served ==
  \A i \in Irqs : \/ Waits(i) ~> ~Waits(i)
                  \/ \E j \in Below(i) : AsksWithoutEnd(j)
-----------------------------------------------------------------------------
(* What InterruptDiscipline rests on.                                      *)

Allowing == {"open", "closing"}                     \* may be interrupted
Serving  == {"isr"} \cup Allowing                   \* runs the handler of irq
Handling == {"first", "pending"} \cup Serving       \* within alt_irq_handler()
Starting == todo # <<>> /\ Head(todo)[1] \in {"clear", "on"}

Frames ==
  [at : {"entry", "unknown", "break"} \cup Handling, irq : 0 .. ALT_NIRQ,
   estatus : BOOLEAN, old : SUBSET Irqs]

TypeOK ==
  /\ pie \in BOOLEAN
  /\ ienable \subseteq Irqs /\ alt_irq_active \subseteq Irqs /\ alt_priority_mask \subseteq Irqs
  /\ alt_irq \subseteq Irqs /\ exception_handler \in BOOLEAN
  /\ lines \subseteq Irqs
  /\ stack \in Seq(Frames) /\ contexts \in Seq(BOOLEAN)

(* What may interrupt those beneath the handler k: each that is interrupted *)
(* allows the lines more urgent than its own, the program all.             *)
Mask(k) == IF k > Len(stack) THEN Irqs ELSE Below(stack[k].irq)

(* Whoever is interrupted allows it, and has itself come in an interrupt.  *)
StackSound ==
  \A k \in 1 .. Len(stack) :
    /\ k > 1 => stack[k].at \in Allowing
    /\ k < Len(stack) \/ stack[k].at \in Handling => stack[k].estatus
    /\ stack[k].at \in Serving => stack[k].irq \in Mask(k + 1)
    /\ stack[k].at \in Allowing => stack[k].old = Mask(k + 1)
    /\ stack[k].at = "isr" => stack[k].irq \in alt_irq

MaskSound ==
  /\ alt_priority_mask = Mask(IF stack # <<>> /\ Top.at \in Allowing THEN 1 ELSE 2)
  /\ ienable = alt_irq_active \cap alt_priority_mask

(* PIE as the program has left it.                                         *)
Status == IF stack = <<>> THEN pie ELSE stack[Len(stack)].estatus

StatusSound ==
  /\ stack # <<>> => (pie <=> Top.at \in Allowing)
  /\ Status <=> ~Within /\ ~Starting
  /\ \A k \in 1 .. Len(contexts) : contexts[k] <=> k = Len(contexts)

(* What is left of the program's call, and the sections it is in.          *)
Switch(i, on) == IF on THEN <<"enable", i>> ELSE <<"disable", i>>
Table(i, on)  == <<"table", i, on>>

RestOfSwitch(i, on) ==
  LET switch == Switch(i, on)
  IN  \/ todo = <<Save, Off, switch, Restore>>
      \/ Len(contexts) >= 1 /\ todo \in {<<Off, switch, Restore>>, <<switch, Restore>>}
      \/ Len(contexts) >= 1 /\ todo = <<Save, Off, switch, Restore, Restore>>
      \/ Len(contexts) >= 2 /\ todo \in {<<Off, switch, Restore, Restore>>, <<switch, Restore, Restore>>}

RestOfRegister(i, on) ==
  LET table  == Table(i, on)
      switch == Switch(i, on)
  IN  \/ todo = <<Save, Off, table, Save, Off, switch, Restore, Restore>>
      \/ /\ Len(contexts) >= 1
         /\ todo \in {<<Off, table, Save, Off, switch, Restore, Restore>>,
                      <<table, Save, Off, switch, Restore, Restore>>}

CallSound ==
  \/ todo \in {<<>>, alt_irq_disable_all}
  \/ Len(contexts) >= 1 /\ todo \in {<<Off>>, <<Restore>>}
  \/ Len(contexts) >= 2 /\ todo = <<Restore, Restore>>
  \/ todo \in {alt_irq_init, Tail(alt_irq_init)} /\ contexts = <<>> /\ stack = <<>> /\ alt_irq_active = {}
  \/ \E i \in Irqs, on \in BOOLEAN : \/ RestOfSwitch(i, on) /\ (on => i \in alt_irq)
                                     \/ RestOfRegister(i, on)

(* A line without a handler is only wanted in the section in which it is   *)
(* about to be switched off.                                               *)
ActiveSound ==
  \A i \in alt_irq_active \ alt_irq : Within /\ RestOfSwitch(i, FALSE)

IrqInv == TypeOK /\ StackSound /\ MaskSound /\ StatusSound /\ CallSound /\ ActiveSound
=============================================================================
