---------------------------- MODULE MCProcessor ----------------------------
(* The processor's interrupts (Interrupts) and the driver that lives on    *)
(* them (JtagUart), one of the two from start to end: they share nothing,  *)
(* the driver's routine being any handler to the dispatcher.               *)
EXTENDS JtagUart, Sequences

CONSTANTS ALT_NIRQ, MAXSECTION

VARIABLES
  part,
  pie, ienable, alt_irq_active, alt_priority_mask, alt_irq, exception_handler,
  lines, stack, todo, contexts

Irq == INSTANCE Interrupts

ASSUME IrqAssumption == Irq!Bounds

uart == <<rx_in, rx_out, rx_buf, tx_in, tx_out, tx_buf, irq_enable, host_inactive, timeout,
          typed, taken, sent, drained, wire, ac, isr, call, got, heard, put>>
interrupts == <<pie, ienable, alt_irq_active, alt_priority_mask, alt_irq, exception_handler,
                lines, stack, todo, contexts>>
both == <<part, uart, interrupts>>

(* The part that does not run stands still, in one of its first states.    *)
BothInit ==
  /\ part \in {"uart", "interrupts"}
  /\ Init /\ Irq!Init
  /\ part # "uart" => timeout = INT_MAX /\ typed = 0 /\ ~ac

(* A step of the part that runs.                                           *)
InUart(Step) == part = "uart" /\ Step /\ UNCHANGED <<part, interrupts>>
InIrq(Step)  == part = "interrupts" /\ Step /\ UNCHANGED <<part, uart>>

BothNext == InUart(Next) \/ InIrq(Irq!Next)

(* With the driver's fairness.  (What is owed to the lines is checked of   *)
(* Interrupts alone, see MCInterrupts.)                                    *)
BothSpec ==
  /\ BothInit /\ [][BothNext]_both
  /\ WF_both(InUart(Interrupt \/ Isr))
  /\ WF_both(InUart(Reading \/ Writing \/ CloseEnd))

(* A handler is interrupted by a more urgent one only, the lines let       *)
(* through are those wanted and allowed, and no handler runs within a      *)
(* section without interrupts (Interrupts).                                *)
InterruptDiscipline == Irq!InterruptDiscipline
=============================================================================
