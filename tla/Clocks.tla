------------------------------- MODULE Clocks -------------------------------
(***************************************************************************)
(* The two clocks of the firmware on one processor.  SYSTIMER counts ticks *)
(* of SysTick; main.c counts milliseconds, in TimeStampIRQ, of a hardware  *)
(* timer whose counter gives the microseconds.  Both interrupts have       *)
(* priority 63 and wait while another interrupt of that priority runs:     *)
(* the Ethernet interrupt, which may erase flash memory.  An interrupt     *)
(* that is already pending when it comes again is counted once.            *)
(*                                                                         *)
(* ADC1_DRDY_INT and TCIRQ (62 and 61) take time stamps at any time,       *)
(* ADC0_DRDY_INT (63) when no other such interrupt runs.  A stamp is two   *)
(* readings, millisec and then the counter, and time passes in between.    *)
(*                                                                         *)
(* Time is relative: behind is the number of milliseconds that have passed *)
(* and that millisec does not show.  The unit is the tick of SysTick.      *)
(***************************************************************************)
EXTENDS SysTimer

CONSTANTS
  PERIOD,      \* ticks in a millisecond: 100 in the code
  MaxBehind    \* bound: milliseconds told apart

ASSUME ClocksAssumption == PERIOD \in Nat \ {0} /\ MaxBehind \in Nat \ {0}

VARIABLES
  us,          \* the counter of TIMER_TIMESTAMP
  ts_pend,     \* TimeStampIRQ is pending
  ts_run,      \* TimeStampIRQ is running and has not counted yet
  tick_pend,   \* SysTick is pending
  behind,      \* milliseconds passed, less millisec
  late,        \* history: a millisecond passed before the one before was counted
  eth,         \* the Ethernet interrupt is running
  stamping,    \* a time stamp is being taken, by a handler of this priority, or 0
  early        \* milliseconds by which that stamp would be early

clockVars == <<us, ts_pend, ts_run, tick_pend, behind, late, eth, stamping, early>>
vars      == <<timerVars, clockVars>>

Stampers == {61, 62, 63}    \* TCIRQ, ADC1_DRDY_INT, ADC0_DRDY_INT

Init ==
  /\ TimerInit
  /\ us = 0 /\ ts_pend = FALSE /\ ts_run = FALSE /\ tick_pend = FALSE
  /\ behind = 0 /\ late = FALSE
  /\ eth = FALSE /\ stamping = 0 /\ early = 0

\* No handler of priority 63 or higher is running.
Free == ~eth /\ ~ts_run /\ ~handling /\ stamping = 0

-----------------------------------------------------------------------------
(* A tick passes, and perhaps a millisecond.                               *)
Elapse ==
  /\ us' = (us + 1) % PERIOD
  /\ tick_pend' = TRUE
  /\ IF us' = 0
       THEN /\ behind < MaxBehind
            /\ behind' = behind + 1
            /\ late' = (late \/ ts_pend \/ ts_run)
            /\ ts_pend' = TRUE
            /\ early' = IF stamping # 0 THEN early + 1 ELSE 0
       ELSE UNCHANGED <<behind, late, ts_pend, early>>
  /\ UNCHANGED <<timerVars, ts_run, eth, stamping>>

\* The interrupt is entered and its event cleared ...
TimeStampIRQ ==
  /\ ts_pend /\ Free
  /\ ts_pend' = FALSE /\ ts_run' = TRUE
  /\ UNCHANGED <<timerVars, us, tick_pend, behind, late, eth, stamping, early>>

\* Mutant of Count: the event is not cleared, and the interrupt comes again.
CountMutant ==
  /\ ts_run /\ stamping = 0
  /\ ts_run' = FALSE /\ ts_pend' = TRUE
  /\ behind' = behind - 1
  /\ UNCHANGED <<timerVars, us, tick_pend, late, eth, stamping, early>>

\* ... and millisec++, with the handlers of higher priority in between.
Count ==
  /\ ts_run /\ stamping = 0
  /\ ts_run' = FALSE
  /\ behind' = behind - 1
  /\ UNCHANGED <<timerVars, us, ts_pend, tick_pend, late, eth, stamping, early>>

\* A data-ready or thermocouple handler of priority q reads millisec ...
StampMs(q) ==
  /\ stamping = 0 /\ (q = 63 => Free)
  /\ stamping' = q
  /\ early' = behind
  /\ UNCHANGED <<timerVars, us, ts_pend, ts_run, tick_pend, behind, late, eth>>

\* ... and then the counter.
StampUs ==
  /\ stamping # 0
  /\ stamping' = 0 /\ early' = 0
  /\ UNCHANGED <<timerVars, us, ts_pend, ts_run, tick_pend, behind, late, eth>>

EthEnter == Free /\ eth' = TRUE
              /\ UNCHANGED <<timerVars, us, ts_pend, ts_run, tick_pend, behind, late, stamping, early>>

EthExit == eth /\ stamping = 0 /\ eth' = FALSE
              /\ UNCHANGED <<timerVars, us, ts_pend, ts_run, tick_pend, behind, late, stamping, early>>

SysTickEnter ==
  /\ tick_pend /\ Free
  /\ SysTick
  /\ tick_pend' = FALSE
  /\ UNCHANGED <<us, ts_pend, ts_run, behind, late, eth, stamping, early>>

\* The rest of the SysTick handler, with its callbacks, and main's calls.
SysTickHandler == stamping = 0 /\ Handler /\ UNCHANGED clockVars

Call == (Free \/ (handling /\ stamping = 0)) /\ Api /\ UNCHANGED clockVars

Next ==
  \/ Elapse \/ TimeStampIRQ \/ Count
  \/ \E q \in Stampers : StampMs(q)
  \/ StampUs
  \/ EthEnter \/ EthExit
  \/ SysTickEnter \/ SysTickHandler \/ Call

Spec == Init /\ [][Next]_vars

\* A handler that runs goes on; the handlers that interrupt SysTick are short
\* and rare, so that it gets the processor back again and again.
FairSpec == Spec /\ WF_vars(StampUs) /\ SF_vars(SysTickHandler)

-----------------------------------------------------------------------------
(* Properties.                                                             *)

\* A time stamp is two readings, the milliseconds are counted by an interrupt
\* that may be late, and handlers of higher priority take stamps inside that
\* interrupt.  Still a stamp is never ahead of the time; and unless another
\* interrupt ever kept TimeStampIRQ waiting for a whole millisecond, it is
\* early by at most one.
StampWithinMillisecond == early >= 0 /\ (~late => early <= 1)

\* SYSTIMER_lTimerHandler, which goes round as long as the first timer of the
\* list has no ticks left, always ends, whatever the callbacks start, stop,
\* restart and delete: it never meets an expired timer it cannot serve, nor one
\* that is due again at once, and the other interrupts get their turn.
HandlerEnds == handling ~> ~handling
=============================================================================
