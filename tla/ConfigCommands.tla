--------------------------- MODULE ConfigCommands ---------------------------
(***************************************************************************)
(* The command files the TFTP server accepts, and what                     *)
(* parse_config_commands (main.c) does with one.                           *)
(*                                                                         *)
(* A file is a sequence of cells.  A cell stands for some bytes of the     *)
(* file: a whole newline-terminated command, the head of a command that is *)
(* not newline-terminated yet, or the tail that completes a head.  Heads   *)
(* and tails are there because a command may straddle two TFTP blocks, or  *)
(* lose one of its halves when blocks of different files are mixed.        *)
(*                                                                         *)
(* A command sets a parameter, asks for a reset, or is one that            *)
(* parse_config_commands refuses (an unknown name, an address that does    *)
(* not parse, a rate that is neither 'fast' nor 'slow').  A parameter      *)
(* given without '=' makes the code read through a null pointer; what it   *)
(* finds there either parses or not, so such a line is one of the "set" or *)
(* "bad" commands.                                                         *)
(*                                                                         *)
(* A line of pieces that do not belong together is refused, but for one    *)
(* case: a port number is read with atoi, which stops at the first         *)
(* character that is not a digit and accepts whatever follows.  A head of  *)
(* such a command (cut after its '=') therefore sets the port to what      *)
(* there is of the number.                                                 *)
(***************************************************************************)
EXTENDS Integers, Sequences

CONSTANTS
  Params,   \* the configuration parameters: ip.src, udp.adc0, rate.adc0, ...
  Values,   \* the values a parameter can take
  Ports,    \* the parameters whose value atoi reads: udp.src, udp.adc0, ...
  Cut       \* the number atoi finds where the end of this one is missing

ASSUME ParamsAssumption ==
  Params # {} /\ Values # {} /\ Ports \subseteq Params /\ Cut \in [Values -> Values]

\* config_t: one value for each parameter.
Config == [Params -> Values]

Command == [kind : {"set", "reset", "bad"}, param : Params, val : Values]

Cell == [part : {"whole", "head", "tail"}, cmd : Command]

-----------------------------------------------------------------------------
(* The lines of a file: main.c splits the buffer at each newline.          *)

\* A newline ends the bytes of cell i.
EndsLine(file, i) == file[i].part # "head"

\* Cell i is the first of its line.
StartsLine(file, i) == i = 1 \/ EndsLine(file, i - 1)

\* The line that cell i ends is a command the code knows: a whole command
\* alone on its line, or a tail right after the head it belongs to.
WellFormed(file, i) ==
  \/ file[i].part = "whole" /\ StartsLine(file, i)
  \/ /\ file[i].part = "tail"
     /\ ~StartsLine(file, i)
     /\ StartsLine(file, i - 1)
     /\ file[i - 1].cmd = file[i].cmd

\* The line that cell i ends starts with cell s, the head of a port number.
PortHead(file, i, s) ==
  /\ StartsLine(file, s)
  /\ \A j \in s..(i - 1) : ~EndsLine(file, j)
  /\ file[s].cmd.kind = "set" /\ file[s].cmd.param \in Ports

\* What the line that cell i ends is to the code.
LineCommand(file, i) ==
  LET heads == {s \in 1..(i - 1) : PortHead(file, i, s)}
      refused == [file[i].cmd EXCEPT !.kind = "bad"]
      port == file[CHOOSE s \in heads : TRUE].cmd
  IN  IF WellFormed(file, i) THEN file[i].cmd
      ELSE IF heads # {} THEN [port EXCEPT !.val = Cut[@]]
      ELSE refused

\* The line that cell i ends makes parse_config_commands stop with an error.
Refused(file, i) == EndsLine(file, i) /\ LineCommand(file, i).kind = "bad"

\* The line that cell i ends is executed: no line up to it is refused.
Executed(file, i) ==
  EndsLine(file, i) /\ \A j \in 1..i : ~Refused(file, j)

\* parse_config_commands reaches the end of the buffer without an error.  The
\* last line must be newline-terminated; an empty file has no line at all.
AllExecuted(file) == \A i \in 1..Len(file) : i = Len(file) \/ EndsLine(file, i)
                                               => Executed(file, i)

\* Cell i ends the last executed line that sets parameter p.
LastSetter(file, p, i) ==
  LET Sets(j) == /\ Executed(file, j)
                 /\ LineCommand(file, j).kind = "set"
                 /\ LineCommand(file, j).param = p
  IN  Sets(i) /\ \A j \in (i + 1)..Len(file) : ~Sets(j)

\* The configuration in RAM after the loop.  Lines executed before a refused
\* one have already been assigned to 'flash' when the loop breaks.
Apply(file, cfg) ==
  [p \in Params |->
     IF \E i \in 1..Len(file) : LastSetter(file, p, i)
       THEN LineCommand(file, CHOOSE i \in 1..Len(file) : LastSetter(file, p, i)).val
       ELSE cfg[p]]

\* A 'reset' line was executed.
ResetAsked(file) ==
  \E i \in 1..Len(file) : Executed(file, i) /\ LineCommand(file, i).kind = "reset"
=============================================================================
