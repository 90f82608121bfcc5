---------------------------- MODULE ClocksProofs ----------------------------
(***************************************************************************)
(* Proofs that time stamps are right to a millisecond, and that SYSTIMER   *)
(* keeps its promise under the interrupts of this firmware, for every      *)
(* length of the millisecond, every number of software timers and every    *)
(* period.                                                                 *)
(***************************************************************************)
EXTENDS Clocks, SysTimerProofs

\* millisec is short of the milliseconds that TimeStampIRQ is still to count,
\* and of others only after it was late; a stamp being taken is early by as
\* much, since nothing is counted meanwhile.
StampInv ==
  /\ ts_pend \in BOOLEAN /\ ts_run \in BOOLEAN /\ late \in BOOLEAN /\ behind \in Int
  /\ behind >= 0
  /\ ts_pend \/ ts_run => behind >= 1
  /\ ts_pend /\ ts_run => behind >= 2
  /\ ~late => /\ behind <= 1 /\ ~(ts_pend /\ ts_run)
              /\ ts_pend \/ ts_run \/ behind = 0
  /\ early = IF stamping # 0 THEN behind ELSE 0

\* Every step of the two clocks keeps that.
LEMMA StampInvNext == StampInv /\ [Next]_vars => StampInv'
<1> SUFFICES ASSUME StampInv, [Next]_vars PROVE StampInv'
  OBVIOUS
<1>1. CASE Elapse
  <2>1. CASE us' = 0
    <3>1. /\ behind' = behind + 1 /\ late' = (late \/ ts_pend \/ ts_run) /\ ts_pend' = TRUE
          /\ early' = (IF stamping # 0 THEN early + 1 ELSE 0)
          /\ UNCHANGED <<ts_run, stamping>>
      BY <1>1, <2>1 DEF Elapse
    <3> QED BY <3>1 DEF StampInv
  <2>2. CASE us' # 0
    <3>1. UNCHANGED <<behind, late, ts_pend, early, ts_run, stamping>>
      BY <1>1, <2>2 DEF Elapse
    <3> QED BY <3>1 DEF StampInv
  <2> QED BY <2>1, <2>2
<1>2. CASE TimeStampIRQ
  <2>1. /\ ts_pend = TRUE /\ ts_run = FALSE /\ ts_pend' = FALSE /\ ts_run' = TRUE
        /\ UNCHANGED <<behind, late, stamping, early>>
    BY <1>2 DEF TimeStampIRQ, Free, StampInv
  <2> QED BY <2>1 DEF StampInv
<1>3. CASE Count
  <2>1. /\ ts_run = TRUE /\ ts_run' = FALSE /\ behind' = behind - 1 /\ stamping = 0
        /\ UNCHANGED <<ts_pend, late, stamping, early>>
    BY <1>3 DEF Count, StampInv
  <2>2. ts_pend' \in BOOLEAN /\ ts_run' \in BOOLEAN /\ late' \in BOOLEAN
    BY <2>1 DEF StampInv
  <2>3. behind' \in Int /\ behind' >= 0 /\ (ts_pend => behind' >= 1)
    BY <2>1 DEF StampInv
  <2>4. ~late => behind' = 0 /\ ~ts_pend
    BY <2>1 DEF StampInv
  <2> QED BY <2>1, <2>2, <2>3, <2>4 DEF StampInv
<1>4. CASE \E q \in Stampers : StampMs(q)
  BY <1>4 DEF StampMs, Stampers, StampInv
<1>5. CASE StampUs
  BY <1>5 DEF StampUs, StampInv
<1>6. CASE EthEnter \/ EthExit \/ SysTickEnter
  BY <1>6 DEF EthEnter, EthExit, SysTickEnter, StampInv
<1>7. CASE SysTickHandler \/ Call \/ UNCHANGED vars
  BY <1>7 DEF SysTickHandler, Call, vars, clockVars, StampInv
<1> QED BY <1>1, <1>2, <1>3, <1>4, <1>5, <1>6, <1>7 DEF Next

\* A stamp is never ahead of the time, and early by at most one millisecond
\* unless TimeStampIRQ was once a whole millisecond late.
THEOREM StampWithinMillisecondHolds == Spec => []StampWithinMillisecond
<1>1. Init => StampInv
  <2> SUFFICES ASSUME Init PROVE StampInv
    OBVIOUS
  <2>1. /\ ts_pend = FALSE /\ ts_run = FALSE /\ late = FALSE
        /\ behind = 0 /\ stamping = 0 /\ early = 0
    BY DEF Init
  <2>2. ts_pend \in BOOLEAN /\ ts_run \in BOOLEAN /\ late \in BOOLEAN
    BY <2>1
  <2>3. behind \in Int /\ behind >= 0 /\ behind <= 1
    BY <2>1
  <2> QED BY <2>1, <2>2, <2>3 DEF StampInv
<1>2. StampInv => StampWithinMillisecond
  BY DEF StampInv, StampWithinMillisecond
<1> QED BY <1>1, <1>2, StampInvNext, PTL DEF Spec

\* With the other interrupts, and with calls from callbacks and from main, the
\* timers behave as SYSTIMER alone does: they implement TimerService.
THEOREM ImplementsServiceHolds == Spec => ImplementsService
<1>1. Init => TimerInit
  BY DEF Init
<1>2. [Next]_vars => [SysTick \/ Handler \/ Api]_timerVars
  BY DEF Next, vars, Elapse, TimeStampIRQ, Count, StampMs, StampUs, EthEnter, EthExit,
     SysTickEnter, SysTickHandler, Call
<1>3. Spec => TimerSpec
  BY <1>1, <1>2, PTL DEF Spec, TimerSpec
<1> QED BY <1>3, Refinement
=============================================================================
