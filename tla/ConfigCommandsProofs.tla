------------------------ MODULE ConfigCommandsProofs ------------------------
(***************************************************************************)
(* Facts about ConfigCommands that the proofs about the parser and about   *)
(* the TFTP server use.                                                    *)
(***************************************************************************)
EXTENDS ConfigCommands, TLAPS

\* Every line is some command, with a parameter and a value, whatever pieces it
\* is made of.
LEMMA LineCommandType ==
  ASSUME NEW file \in Seq(Cell), NEW n \in 1..Len(file)
  PROVE  LineCommand(file, n) \in Command
<1> DEFINE heads == {s \in 1..(n - 1) : PortHead(file, n, s)}
           h == CHOOSE s \in heads : TRUE
<1>1. ASSUME NEW s \in 1..Len(file) PROVE file[s].cmd \in Command
  <2>1. file[s] \in Cell
    OBVIOUS
  <2> QED BY <2>1 DEF Cell
<1>2. [file[n].cmd EXCEPT !.kind = "bad"] \in Command /\ file[n].cmd \in Command
  BY <1>1 DEF Command
<1>3. CASE heads # {}
  <2>1. h \in 1..Len(file)
    BY <1>3
  <2>2. file[h].cmd \in Command
    BY <1>1, <2>1
  <2> HIDE DEF h
  <2>3. [file[h].cmd EXCEPT !.val = Cut[@]] \in Command
    BY <2>2, ParamsAssumption DEF Command
  <2>4. LineCommand(file, n) \in {file[n].cmd, [file[h].cmd EXCEPT !.val = Cut[@]]}
    BY <1>3 DEF LineCommand, h
  <2> QED BY <1>2, <2>3, <2>4
<1>4. CASE heads = {}
  BY <1>2, <1>4 DEF LineCommand
<1> QED BY <1>3, <1>4

\* Executing a file's commands on a configuration yields a configuration.
LEMMA ApplyType ==
  ASSUME NEW file \in Seq(Cell), NEW cfg \in Config
  PROVE  Apply(file, cfg) \in Config
<1>1. ASSUME NEW i \in 1..Len(file)
      PROVE  LineCommand(file, i).val \in Values
  BY LineCommandType DEF Command
<1>2. ASSUME NEW p \in Params
      PROVE  Apply(file, cfg)[p] \in Values
  <2>1. CASE \E i \in 1..Len(file) : LastSetter(file, p, i)
    <3> DEFINE i == CHOOSE j \in 1..Len(file) : LastSetter(file, p, j)
    <3>1. i \in 1..Len(file)
      BY <2>1
    <3>2. Apply(file, cfg)[p] = LineCommand(file, i).val
      BY <2>1 DEF Apply
    <3> QED BY <3>1, <3>2, <1>1
  <2>2. CASE ~\E i \in 1..Len(file) : LastSetter(file, p, i)
    BY <2>2 DEF Apply, Config
  <2> QED BY <2>1, <2>2
<1> QED BY <1>2 DEF Apply, Config
=============================================================================
