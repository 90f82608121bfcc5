------------------------------ MODULE SysTimer ------------------------------
(***************************************************************************)
(* SYSTIMER (systimer.c): software timers on the SysTick interrupt.  The   *)
(* running timers form a list in the order they expire; a timer's count is *)
(* the ticks it expires after the timer before it, so that a tick          *)
(* decrements the first count only.                                        *)
(*                                                                         *)
(* The doubly linked list is a sequence of timers.  Nothing protects the   *)
(* functions of the API from the interrupt, so each is one step only where *)
(* no tick can fall into it: in a callback, which runs inside SysTick, or  *)
(* while the list is empty, when a tick touches nothing.  main.c calls     *)
(* them while the list is empty.                                           *)
(***************************************************************************)
EXTENDS Integers, Sequences, SequencesExt

CONSTANTS
  MAX_TMR,   \* SYSTIMER_CFG_MAX_TMR: 1 in this firmware
  Periods    \* periods in ticks

ASSUME SysTimerAssumption == MAX_TMR \in Nat \ {0} /\ Periods \subseteq Nat \ {0}

Timer == 0..(MAX_TMR - 1)
None  == -1

VARIABLES
  g_timer_list,
  count, reload, mode, state, delete_swtmr,  \* the fields of g_timer_tbl
  handling,      \* inside SYSTIMER_lTimerHandler
  called         \* the timer whose callback was the last thing that ran

tblVars   == <<reload, mode, delete_swtmr>>
timerVars == <<g_timer_list, count, state, tblVars, handling, called>>

TimerInit ==
  /\ g_timer_list = <<>>
  /\ count = [t \in Timer |-> 0] /\ reload = [t \in Timer |-> 0]
  /\ mode = [t \in Timer |-> "oneshot"]
  /\ state = [t \in Timer |-> "free"]
  /\ delete_swtmr = [t \in Timer |-> FALSE]
  /\ handling = FALSE /\ called = None

\* Ticks until the i-th timer of list l expires.
Until(l, c, i) ==
  LET sum[k \in 0..Len(l)] == IF k = 0 THEN 0 ELSE sum[k - 1] + c[l[k]]
  IN  sum[i]

\* SYSTIMER_lInsertTimerList: t, to expire after n ticks, goes before the first
\* timer of list l that expires no earlier.
Inserted(t, n, l, c) ==
  LET after == {i \in 1..Len(l) : Until(l, c, i) >= n}
      k     == IF after = {} THEN Len(l) + 1 ELSE CHOOSE i \in after : \A j \in after : i <= j
      mine  == n - Until(l, c, k - 1)
  IN  [list  |-> InsertAt(l, k, t),
       count |-> [u \in Timer |-> IF u = t THEN mine
                                  ELSE IF k <= Len(l) /\ u = l[k] THEN c[u] - mine
                                  ELSE c[u]]]

\* SYSTIMER_lRemoveTimerList: the timer behind t gets t's ticks.
Removed(t, l, c) ==
  LET k == CHOOSE i \in 1..Len(l) : l[i] = t
  IN  [list  |-> RemoveAt(l, k),
       count |-> IF k < Len(l) THEN [c EXCEPT ![l[k + 1]] = @ + c[t]] ELSE c]

SetList(r) == g_timer_list' = r.list /\ count' = r.count

-----------------------------------------------------------------------------
(* The interrupt.                                                          *)

\* SysTick_Handler
SysTick ==
  /\ ~handling
  /\ IF g_timer_list = <<>>
       THEN UNCHANGED <<count, handling>>
       ELSE LET t == Head(g_timer_list)
            IN  /\ count' = [count EXCEPT ![t] = IF @ > 1 THEN @ - 1 ELSE 0]
                /\ handling' = (count'[t] = 0)
  /\ called' = None
  /\ UNCHANGED <<g_timer_list, state, tblVars>>

\* SYSTIMER_lTimerHandler looks at the first timer while it has no ticks left.
Expired(t) == handling /\ g_timer_list # <<>> /\ t = Head(g_timer_list) /\ count[t] = 0

HandleDelete(t) ==
  /\ Expired(t) /\ delete_swtmr[t]
  /\ SetList(Removed(t, g_timer_list, count))
  /\ state' = [state EXCEPT ![t] = "free"]
  /\ called' = None
  /\ UNCHANGED <<tblVars, handling>>

\* Mutant of HandleOneShot: the timer is stopped and stays in the list.
HandleOneShotMutant(t) ==
  /\ Expired(t) /\ ~delete_swtmr[t] /\ mode[t] = "oneshot" /\ state[t] = "running"
  /\ state' = [state EXCEPT ![t] = "stopped"]
  /\ called' = t
  /\ UNCHANGED <<g_timer_list, count, tblVars, handling>>

\* The loop has no other way on from a timer that is not running: it would
\* look at the same timer for ever.
HandleOneShot(t) ==
  /\ Expired(t) /\ ~delete_swtmr[t] /\ mode[t] = "oneshot" /\ state[t] = "running"
  /\ SetList(Removed(t, g_timer_list, count))
  /\ state' = [state EXCEPT ![t] = "stopped"]
  /\ called' = t
  /\ UNCHANGED <<tblVars, handling>>

HandlePeriodic(t) ==
  /\ Expired(t) /\ ~delete_swtmr[t] /\ mode[t] = "periodic" /\ state[t] = "running"
  /\ LET r == Removed(t, g_timer_list, count)
     IN  SetList(Inserted(t, reload[t], r.list, r.count))
  /\ called' = t
  /\ UNCHANGED <<state, tblVars, handling>>

\* Mutant of HandleEnd: the handler serves one timer per tick.
HandleEndMutant ==
  /\ handling /\ \/ called # None
                 \/ \A t \in Timer : ~Expired(t)
  /\ handling' = FALSE /\ called' = None
  /\ UNCHANGED <<g_timer_list, count, state, tblVars>>

HandleEnd ==
  /\ handling /\ \A t \in Timer : ~Expired(t)
  /\ handling' = FALSE /\ called' = None
  /\ UNCHANGED <<g_timer_list, count, state, tblVars>>

Handler ==
  \/ \E t \in Timer : HandleDelete(t) \/ HandleOneShot(t) \/ HandlePeriodic(t)
  \/ HandleEnd

-----------------------------------------------------------------------------
(* The API.                                                                *)

\* Where a call cannot be interrupted by a tick that touches the list.
FromMain     == ~handling /\ g_timer_list = <<>>
FromCallback == handling /\ called # None
MayCall      == FromMain \/ FromCallback

\* The first free entry of the table.  delete_swtmr is not reset.  Timers are
\* not created in an interrupt (systimer.h:261).
CreateTimer(n, m) ==
  /\ FromMain
  /\ \E t \in Timer :
       /\ state[t] = "free" /\ \A u \in Timer : u < t => state[u] # "free"
       /\ state' = [state EXCEPT ![t] = "stopped"]
       /\ count' = [count EXCEPT ![t] = n + 1]
       /\ reload' = [reload EXCEPT ![t] = n]
       /\ mode' = [mode EXCEPT ![t] = m]
  /\ UNCHANGED <<g_timer_list, delete_swtmr, handling, called>>

StartTimer(t) ==
  /\ MayCall /\ state[t] = "stopped"
  /\ state' = [state EXCEPT ![t] = "running"]
  /\ SetList(Inserted(t, reload[t] + 1, g_timer_list, count))
  /\ UNCHANGED <<tblVars, handling, called>>

StopTimer(t) ==
  /\ MayCall /\ state[t] = "running"
  /\ state' = [state EXCEPT ![t] = "stopped"]
  /\ SetList(Removed(t, g_timer_list, count))
  /\ UNCHANGED <<tblVars, handling, called>>

\* RestartTimer stops a running timer and starts it with a new period.
RestartTimer(t, n) ==
  /\ MayCall /\ state[t] # "free"
  /\ LET r == IF state[t] = "running" THEN Removed(t, g_timer_list, count)
              ELSE [list |-> g_timer_list, count |-> count]
     IN  SetList(Inserted(t, n + 1, r.list, r.count))
  /\ state' = [state EXCEPT ![t] = "running"]
  /\ reload' = [reload EXCEPT ![t] = n]
  /\ UNCHANGED <<mode, delete_swtmr, handling, called>>

DeleteTimer(t) ==
  /\ MayCall
  /\ \/ /\ state[t] = "stopped"
        /\ state' = [state EXCEPT ![t] = "free"]
        /\ UNCHANGED delete_swtmr
     \/ /\ state[t] = "running"
        /\ delete_swtmr' = [delete_swtmr EXCEPT ![t] = TRUE]
        /\ UNCHANGED state
  /\ UNCHANGED <<g_timer_list, count, reload, mode, handling, called>>

\* An entry whose timer was deleted while it ran keeps delete_swtmr: callers
\* are taken to create no timer after such a deletion.  main.c deletes none.
NoneDeleted == \A t \in Timer : ~delete_swtmr[t]

Api ==
  \/ \E n \in Periods, m \in {"oneshot", "periodic"} : NoneDeleted /\ CreateTimer(n, m)
  \/ \E t \in Timer : StartTimer(t) \/ StopTimer(t) \/ DeleteTimer(t)
  \/ \E t \in Timer, n \in Periods : RestartTimer(t, n)

TimerSpec == TimerInit /\ [][SysTick \/ Handler \/ Api]_timerVars

-----------------------------------------------------------------------------
(* Properties.                                                             *)

\* Ticks until timer t expires: the counts up to t in the list.
Remaining(t) ==
  IF state[t] # "running" THEN 0
  ELSE Until(g_timer_list, count, CHOOSE i \in 1..Len(g_timer_list) : g_timer_list[i] = t)

Service == INSTANCE TimerService WITH
  status <- state, left <- [t \in Timer |-> Remaining(t)], period <- reload,
  doomed <- delete_swtmr

\* The delta list keeps the promise of TimerService: whatever callbacks start,
\* stop, restart and delete, themselves or each other, and whatever is started
\* when none is left, every timer expires at the very tick it is due, once.
ImplementsService == Service!Spec
=============================================================================
