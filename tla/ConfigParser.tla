---------------------------- MODULE ConfigParser ----------------------------
(***************************************************************************)
(* The loop of parse_config_commands, one line of the buffer at a time,    *)
(* against the definitions of ConfigCommands that say what it computes.    *)
(***************************************************************************)
EXTENDS ConfigCommands

CONSTANTS
  Files,    \* the contents tftp_buff may have
  Start     \* the configuration before

ASSUME FilesAssumption == Files \subseteq Seq(Cell) /\ Start \in Config

VARIABLES
  file,     \* tftp_buff up to tftp_buff_index
  index,    \* the cell the next line starts with
  flash,    \* the configuration in RAM
  ret,      \* no error so far
  reset     \* a reset command was executed

vars == <<file, index, flash, ret, reset>>

Init ==
  /\ file \in Files
  /\ index = 1
  /\ flash = Start
  /\ ret = TRUE
  /\ reset = FALSE

Running == ret /\ index <= Len(file)

\* Cell n ends the line that starts at index.
LineEnd(n) ==
  /\ n \in index..Len(file)
  /\ EndsLine(file, n)
  /\ \A m \in index..(n - 1) : ~EndsLine(file, m)

\* The line is the text of a command: in one piece or in the two it was cut in.
IsCommand(n) ==
  \/ n = index /\ file[n].part = "whole"
  \/ /\ n = index + 1
     /\ file[n].part = "tail"
     /\ file[index].cmd = file[n].cmd

\* What the code finds between index and the newline: a command, a port whose
\* number is followed by something else, or nothing it knows.
Parsed(n) ==
  IF IsCommand(n) THEN file[n].cmd
  ELSE IF n > index /\ file[index].cmd.kind = "set" /\ file[index].cmd.param \in Ports
    THEN [file[index].cmd EXCEPT !.val = Cut[@]]
  ELSE [file[n].cmd EXCEPT !.kind = "bad"]

NotTerminated ==
  /\ Running
  /\ \A n \in index..Len(file) : ~EndsLine(file, n)
  /\ ret' = FALSE
  /\ UNCHANGED <<file, index, flash, reset>>

BadLine ==
  /\ Running
  /\ \E n \in index..Len(file) : LineEnd(n) /\ Parsed(n).kind = "bad"
  /\ ret' = FALSE
  /\ UNCHANGED <<file, index, flash, reset>>

\* Mutant of SetLine: the first assignment to a parameter wins.
SetLineMutant ==
  /\ Running
  /\ \E n \in index..Len(file) :
       /\ LineEnd(n) /\ Parsed(n).kind = "set"
       /\ flash' = IF flash[Parsed(n).param] # Start[Parsed(n).param] THEN flash
                   ELSE [flash EXCEPT ![Parsed(n).param] = Parsed(n).val]
       /\ index' = n + 1
  /\ UNCHANGED <<file, ret, reset>>

SetLine ==
  /\ Running
  /\ \E n \in index..Len(file) :
       /\ LineEnd(n) /\ Parsed(n).kind = "set"
       /\ flash' = [flash EXCEPT ![Parsed(n).param] = Parsed(n).val]
       /\ index' = n + 1
  /\ UNCHANGED <<file, ret, reset>>

ResetLine ==
  /\ Running
  /\ \E n \in index..Len(file) :
       /\ LineEnd(n) /\ Parsed(n).kind = "reset"
       /\ index' = n + 1
  /\ reset' = TRUE
  /\ UNCHANGED <<file, flash, ret>>

Next == NotTerminated \/ BadLine \/ SetLine \/ ResetLine

Spec == Init /\ [][Next]_vars

\* When the loop ends it has computed what TftpServer's model of the whole
\* call says: success if every line is a command, the last value given for
\* each parameter up to the first bad line, and whether a reset was asked.
ComputesCommands ==
  ~Running =>
    /\ ret = AllExecuted(file)
    /\ flash = Apply(file, Start)
    /\ reset = ResetAsked(file)
=============================================================================
