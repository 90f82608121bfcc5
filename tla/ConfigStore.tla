---------------------------- MODULE ConfigStore -----------------------------
(***************************************************************************)
(* What the flash-emulated EEPROM promises the rest of the firmware: one   *)
(* durable configuration and, while the firmware is up, a RAM copy of it.  *)
(* The firmware comes up by loading the durable configuration, and nothing *)
(* but that configuration.  A write goes to the RAM copy; committing makes *)
(* the RAM copy durable in one indivisible step; losing power loses the    *)
(* RAM copy only.                                                          *)
(***************************************************************************)
CONSTANTS Data,    \* configurations
          Blank    \* no configuration: erased flash, or RAM before loading

VARIABLES stored, \* the durable configuration
          ram,    \* the RAM copy, Blank while the firmware is not up
          up      \* the firmware has loaded the configuration and runs

vars == <<stored, ram, up>>

Init == stored = Blank /\ ram = Blank /\ up = FALSE

Load == ~up /\ up' = TRUE /\ ram' = stored /\ stored' = stored

Write(c) == up /\ ram' = c /\ UNCHANGED <<stored, up>>

Commit == up /\ stored' = ram /\ UNCHANGED <<ram, up>>

PowerLoss == up /\ up' = FALSE /\ ram' = Blank /\ stored' = stored

Next == Load \/ (\E c \in Data : Write(c)) \/ Commit \/ PowerLoss

Spec == Init /\ [][Next]_vars
=============================================================================
