------------------------------ MODULE MCEeprom ------------------------------
(* Instances of Eeprom for TLC: two or three sectors of two blocks, two    *)
(* configurations.                                                         *)
EXTENDS Eeprom

CONSTANTS c1, c2, blank

MCData == {c1, c2}

\* One kind of fault at a time, or none.
Either    == {{"erase"}, {"blank"}}
NoneOfThem == {{}}
=============================================================================
