---------------------------- MODULE TimerService ----------------------------
(***************************************************************************)
(* What SYSTIMER promises: every running timer has a number of ticks left, *)
(* each tick takes one from all of them, and a timer that has none left is *)
(* served before the next tick.                                            *)
(***************************************************************************)
EXTENDS Naturals

CONSTANTS Timer, Periods, None

VARIABLES
  status,     \* "free", "stopped" or "running"
  left,       \* ticks until a running timer expires
  period, mode,
  doomed,     \* DeleteTimer was called while it was running
  called      \* the timer whose callback was the last thing that ran

vars == <<status, left, period, mode, doomed, called>>

Modes == {"oneshot", "periodic"}

Running == {t \in Timer : status[t] = "running"}
Due     == {t \in Running : left[t] = 0}

Init ==
  /\ status = [t \in Timer |-> "free"]
  /\ left = [t \in Timer |-> 0]
  /\ period = [t \in Timer |-> 0]
  /\ mode = [t \in Timer |-> "oneshot"]
  /\ doomed = [t \in Timer |-> FALSE]
  /\ called = None

\* Users call from outside the tick's service, or from a callback.
MayCall == Due = {} \/ called # None

Create(t, n, m) ==
  /\ MayCall /\ status[t] = "free"
  /\ status' = [status EXCEPT ![t] = "stopped"]
  /\ period' = [period EXCEPT ![t] = n]
  /\ mode' = [mode EXCEPT ![t] = m]
  /\ doomed' = [doomed EXCEPT ![t] = FALSE]
  /\ UNCHANGED <<left, called>>

\* A timer is started for its period and one more tick, as the current tick
\* has already begun.
Start(t, n) ==
  /\ MayCall /\ status[t] # "free"
  /\ status' = [status EXCEPT ![t] = "running"]
  /\ period' = [period EXCEPT ![t] = n]
  /\ left' = [left EXCEPT ![t] = n + 1]
  /\ UNCHANGED <<mode, doomed, called>>

Stop(t) ==
  /\ MayCall /\ status[t] = "running"
  /\ status' = [status EXCEPT ![t] = "stopped"]
  /\ left' = [left EXCEPT ![t] = 0]
  /\ UNCHANGED <<period, mode, doomed, called>>

\* A running timer goes at its next expiry.
Delete(t) ==
  /\ MayCall
  /\ \/ /\ status[t] = "stopped"
        /\ status' = [status EXCEPT ![t] = "free"]
        /\ UNCHANGED doomed
     \/ /\ status[t] = "running"
        /\ doomed' = [doomed EXCEPT ![t] = TRUE]
        /\ UNCHANGED status
  /\ UNCHANGED <<left, period, mode, called>>

Tick ==
  /\ Due = {}
  /\ left' = [t \in Timer |-> IF t \in Running THEN left[t] - 1 ELSE 0]
  /\ called' = None
  /\ UNCHANGED <<status, period, mode, doomed>>

Expire(t) ==
  /\ t \in Due
  /\ status' = [status EXCEPT ![t] = IF doomed[t] THEN "free"
                                     ELSE IF mode[t] = "oneshot" THEN "stopped" ELSE @]
  /\ left' = [left EXCEPT ![t] = IF doomed[t] \/ mode[t] = "oneshot" THEN 0 ELSE period[t]]
  /\ called' = IF doomed[t] THEN None ELSE t
  /\ UNCHANGED <<period, mode, doomed>>

Served == Due = {} /\ called' = None /\ UNCHANGED <<status, left, period, mode, doomed>>

Next ==
  \/ Tick \/ Served
  \/ \E t \in Timer :
       \/ Expire(t) \/ Stop(t) \/ Delete(t)
       \/ \E n \in Periods : Start(t, n) \/ \E m \in Modes : Create(t, n, m)

Spec == Init /\ [][Next]_vars
=============================================================================
