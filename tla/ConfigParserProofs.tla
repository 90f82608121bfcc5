------------------------- MODULE ConfigParserProofs -------------------------
(***************************************************************************)
(* The loop of parse_config_commands computes what ConfigCommands says,    *)
(* for files of any length over any commands.                              *)
(***************************************************************************)
EXTENDS ConfigParser, ConfigCommandsProofs, TLAPS

\* Cell j ends a line that sets parameter q.
Sets(j, q) == EndsLine(file, j) /\ LineCommand(file, j).kind = "set" /\ LineCommand(file, j).param = q

Types ==
  /\ file \in Seq(Cell) /\ index \in 1..(Len(file) + 1)
  /\ flash \in Config /\ ret \in BOOLEAN /\ reset \in BOOLEAN

\* The loop stands at the start of a line and has refused nothing before it.
AtLine ==
  /\ StartsLine(file, index)
  /\ \A j \in 1..(index - 1) : ~Refused(file, j)

\* flash holds the last value given before index, and reset whether a reset
\* line was among those.
Assigned ==
  /\ \A q \in Params :
       \/ /\ flash[q] = Start[q]
          /\ \A j \in 1..(index - 1) : ~Sets(j, q)
       \/ \E i \in 1..(index - 1) :
            /\ Sets(i, q) /\ flash[q] = LineCommand(file, i).val
            /\ \A j \in (i + 1)..(index - 1) : ~Sets(j, q)
  /\ reset <=> \E i \in 1..(index - 1) : EndsLine(file, i) /\ LineCommand(file, i).kind = "reset"

\* What made the loop stop: a line without end, or a refused one.
Stopped ==
  /\ index <= Len(file)
  /\ \/ \A m \in index..Len(file) : ~EndsLine(file, m)
     \/ \E n \in index..Len(file) : LineEnd(n) /\ Refused(file, n)

ParserInv == Types /\ AtLine /\ Assigned /\ (~ret => Stopped)

\* Where a line ends, the loop and ConfigCommands agree on whether it is a
\* command in one piece or in two that belong together.
LEMMA SameCommands ==
  ASSUME Types, AtLine, NEW n \in index..Len(file), LineEnd(n)
  PROVE  IsCommand(n) <=> WellFormed(file, n)
<1>1. index \in Nat /\ n \in Nat /\ index >= 1 /\ n >= index
  BY DEF Types
<1>2. file[n] \in Cell /\ EndsLine(file, n) /\ \A m \in index..(n - 1) : ~EndsLine(file, m)
  BY <1>1 DEF LineEnd, Types
<1>3. CASE n = index
  BY <1>1, <1>2, <1>3 DEF AtLine, IsCommand, WellFormed
<1>4. CASE n = index + 1
  <2>1. ~StartsLine(file, n)
    BY <1>1, <1>2, <1>4 DEF StartsLine
  <2>2. StartsLine(file, n - 1) /\ n - 1 = index
    BY <1>1, <1>4 DEF AtLine
  <2> QED BY <1>1, <1>2, <1>4, <2>1, <2>2 DEF IsCommand, WellFormed
<1>5. CASE n > index + 1
  <2>1. ~StartsLine(file, n) /\ ~StartsLine(file, n - 1)
    BY <1>1, <1>2, <1>5 DEF StartsLine
  <2> QED BY <1>1, <1>5, <2>1 DEF IsCommand, WellFormed
<1> QED BY <1>1, <1>3, <1>4, <1>5

\* And so they agree on what the line is: it can start only at index.
LEMMA SameLines ==
  ASSUME Types, AtLine, NEW n \in index..Len(file), LineEnd(n)
  PROVE  Parsed(n) = LineCommand(file, n)
<1> DEFINE heads == {s \in 1..(n - 1) : PortHead(file, n, s)}
           IsPort == n > index /\ file[index].cmd.kind = "set" /\ file[index].cmd.param \in Ports
<1>1. index \in Nat /\ n \in Nat /\ index >= 1 /\ n >= index
  BY DEF Types
<1>2. \A m \in index..(n - 1) : ~EndsLine(file, m)
  BY DEF LineEnd
<1>3. \A s \in heads : s = index
  <2> SUFFICES ASSUME NEW s \in 1..(n - 1), PortHead(file, n, s) PROVE s = index
    OBVIOUS
  <2>1. CASE s < index
    <3>1. EndsLine(file, index - 1) /\ index - 1 \in s..(n - 1)
      BY <1>1, <2>1 DEF AtLine, StartsLine
    <3> QED BY <3>1 DEF PortHead
  <2>2. CASE s > index
    <3>1. EndsLine(file, s - 1) /\ s - 1 \in index..(n - 1)
      BY <1>1, <2>2 DEF PortHead, StartsLine
    <3> QED BY <3>1, <1>2
  <2> QED BY <1>1, <2>1, <2>2
<1>4. IsPort <=> index \in heads
  BY <1>1, <1>2 DEF AtLine, PortHead
<1>5. heads # {} => index \in heads /\ (CHOOSE s \in heads : TRUE) = index
  BY <1>3
<1> QED BY <1>4, <1>5, SameCommands DEF Parsed, LineCommand

\* Going past an accepted line: it was not refused, and no cell inside it ends
\* a line.
LEMMA PastLine ==
  ASSUME Types, AtLine, NEW n \in index..Len(file), LineEnd(n),
         LineCommand(file, n).kind # "bad", file' = file, index' = n + 1
  PROVE  /\ AtLine' /\ index' \in 1..(Len(file) + 1)
         /\ \A j \in index..(n - 1) : \A q : ~Sets(j, q) /\ ~EndsLine(file, j)
<1>1. index \in Nat /\ n \in Nat /\ index >= 1 /\ n >= index /\ n <= Len(file) /\ Len(file) \in Nat
  BY DEF Types
<1>2. EndsLine(file, n) /\ \A m \in index..(n - 1) : ~EndsLine(file, m)
  BY DEF LineEnd
<1>3. ~Refused(file, n)
  BY DEF Refused
<1>4. \A j \in 1..n : ~Refused(file, j)
  <2> SUFFICES ASSUME NEW j \in 1..n PROVE ~Refused(file, j)
    OBVIOUS
  <2>1. CASE j < index
    BY <1>1, <2>1 DEF AtLine
  <2>2. CASE j >= index /\ j < n
    BY <1>1, <1>2, <2>2 DEF Refused
  <2>3. CASE j = n
    BY <1>3, <2>3
  <2> QED BY <1>1, <2>1, <2>2, <2>3
<1>5. StartsLine(file', index')
  BY <1>1, <1>2 DEF StartsLine, EndsLine
<1>6. \A j \in 1..(index' - 1) : ~Refused(file', j)
  BY <1>1, <1>4
<1> QED BY <1>1, <1>2, <1>5, <1>6 DEF AtLine, Sets

\* A line that sets a parameter.
LEMMA SetLineInv ==
  ASSUME ParserInv, SetLine
  PROVE  ParserInv'
<1>1. PICK n \in index..Len(file) :
        /\ LineEnd(n) /\ LineCommand(file, n).kind = "set"
        /\ flash' = [flash EXCEPT ![LineCommand(file, n).param] = LineCommand(file, n).val]
        /\ index' = n + 1
  BY SameLines DEF SetLine, ParserInv
<1>2. UNCHANGED <<file, ret, reset>> /\ ret
  BY DEF SetLine, Running
<1>3. /\ index \in Nat /\ n \in Nat /\ index >= 1 /\ n >= index /\ n <= Len(file)
      /\ Len(file) \in Nat /\ file[n] \in Cell
  BY DEF ParserInv, Types
<1>4. /\ AtLine' /\ index' \in 1..(Len(file) + 1)
      /\ \A j \in index..(n - 1) : \A q : ~Sets(j, q) /\ ~EndsLine(file, j)
  BY <1>1, <1>2, PastLine DEF ParserInv
<1> DEFINE r == LineCommand(file, n).param
           v == LineCommand(file, n).val
<1>5. r \in Params /\ v \in Values
  BY <1>3, LineCommandType DEF ParserInv, Types, Command
<1>6. flash' \in Config /\ flash'[r] = v /\ \A q \in Params \ {r} : flash'[q] = flash[q]
  BY <1>1, <1>5 DEF ParserInv, Types, Config
<1>7. \A j, q : Sets(j, q)' <=> Sets(j, q)
  BY <1>2 DEF Sets
<1>8. EndsLine(file, n) /\ LineCommand(file, n).kind = "set" /\ \A q : Sets(n, q) <=> q = r
  BY <1>1 DEF LineEnd, Sets
<1> HIDE DEF r, v
<1>9. ASSUME NEW q \in Params
      PROVE  \/ flash'[q] = Start[q] /\ \A j \in 1..n : ~Sets(j, q)
             \/ \E i \in 1..n : /\ Sets(i, q) /\ flash'[q] = LineCommand(file, i).val
                               /\ \A j \in (i + 1)..n : ~Sets(j, q)
  <2>1. CASE q = r
    <3>1. Sets(n, q) /\ flash'[q] = LineCommand(file, n).val
      BY <1>6, <1>8, <2>1 DEF v
    <3>2. n \in 1..n /\ \A j \in (n + 1)..n : ~Sets(j, q)
      BY <1>3
    <3> QED BY <3>1, <3>2
  <2>2. CASE q # r
    <3>1. flash'[q] = flash[q] /\ \A j \in index..n : ~Sets(j, q)
      BY <1>3, <1>4, <1>6, <1>8, <2>2
    <3>2. CASE flash[q] = Start[q] /\ \A j \in 1..(index - 1) : ~Sets(j, q)
      BY <1>3, <3>1, <3>2
    <3>3. CASE \E i \in 1..(index - 1) : /\ Sets(i, q) /\ flash[q] = LineCommand(file, i).val
                                         /\ \A j \in (i + 1)..(index - 1) : ~Sets(j, q)
      <4>1. PICK i \in 1..(index - 1) : /\ Sets(i, q) /\ flash[q] = LineCommand(file, i).val
                                        /\ \A j \in (i + 1)..(index - 1) : ~Sets(j, q)
        BY <3>3
      <4>2. i \in 1..n /\ \A j \in (i + 1)..n : ~Sets(j, q)
        BY <1>3, <3>1, <4>1
      <4> QED BY <3>1, <4>1, <4>2
    <3> QED BY <3>2, <3>3 DEF ParserInv, Assigned
  <2> QED BY <2>1, <2>2
<1>10. index' - 1 = n
  BY <1>1, <1>3
<1>11. reset' <=> \E i \in 1..n : EndsLine(file, i) /\ LineCommand(file, i).kind = "reset"
  <2>1. \A i \in index..n : ~(EndsLine(file, i) /\ LineCommand(file, i).kind = "reset")
    BY <1>3, <1>4, <1>8
  <2>2. reset <=> \E i \in 1..(index - 1) : EndsLine(file, i) /\ LineCommand(file, i).kind = "reset"
    BY DEF ParserInv, Assigned
  <2> QED BY <1>2, <1>3, <2>1, <2>2
<1>12. Assigned'
  BY <1>2, <1>7, <1>9, <1>10, <1>11 DEF Assigned, EndsLine
<1> QED BY <1>2, <1>4, <1>6, <1>12 DEF ParserInv, Types

\* A reset line.
LEMMA ResetLineInv ==
  ASSUME ParserInv, ResetLine
  PROVE  ParserInv'
<1>1. PICK n \in index..Len(file) :
        LineEnd(n) /\ LineCommand(file, n).kind = "reset" /\ index' = n + 1
  BY SameLines DEF ResetLine, ParserInv
<1>2. UNCHANGED <<file, flash, ret>> /\ ret /\ reset'
  BY DEF ResetLine, Running
<1>3. /\ index \in Nat /\ n \in Nat /\ index >= 1 /\ n >= index /\ n <= Len(file)
      /\ Len(file) \in Nat
  BY DEF ParserInv, Types
<1>4. /\ AtLine' /\ index' \in 1..(Len(file) + 1)
      /\ \A j \in index..(n - 1) : \A q : ~Sets(j, q) /\ ~EndsLine(file, j)
  BY <1>1, <1>2, PastLine DEF ParserInv
<1>5. \A j, q : Sets(j, q)' <=> Sets(j, q)
  BY <1>2 DEF Sets
<1>6. EndsLine(file, n) /\ \A q : ~Sets(n, q)
  BY <1>1 DEF LineEnd, Sets
<1>7. index' - 1 = n
  BY <1>1, <1>3
<1>8. ASSUME NEW q \in Params
      PROVE  \/ flash[q] = Start[q] /\ \A j \in 1..n : ~Sets(j, q)
             \/ \E i \in 1..n : /\ Sets(i, q) /\ flash[q] = LineCommand(file, i).val
                               /\ \A j \in (i + 1)..n : ~Sets(j, q)
  <2>1. \A j \in index..n : ~Sets(j, q)
    BY <1>3, <1>4, <1>6
  <2>2. CASE flash[q] = Start[q] /\ \A j \in 1..(index - 1) : ~Sets(j, q)
    BY <1>3, <2>1, <2>2
  <2>3. CASE \E i \in 1..(index - 1) : /\ Sets(i, q) /\ flash[q] = LineCommand(file, i).val
                                       /\ \A j \in (i + 1)..(index - 1) : ~Sets(j, q)
    <3>1. PICK i \in 1..(index - 1) : /\ Sets(i, q) /\ flash[q] = LineCommand(file, i).val
                                      /\ \A j \in (i + 1)..(index - 1) : ~Sets(j, q)
      BY <2>3
    <3>2. i \in 1..n /\ \A j \in (i + 1)..n : ~Sets(j, q)
      BY <1>3, <2>1, <3>1
    <3> QED BY <3>1, <3>2
  <2> QED BY <2>2, <2>3 DEF ParserInv, Assigned
<1>9. n \in 1..n /\ EndsLine(file, n) /\ LineCommand(file, n).kind = "reset"
  BY <1>1, <1>3, <1>6
<1>10. Assigned'
  BY <1>2, <1>5, <1>7, <1>8, <1>9 DEF Assigned, EndsLine
<1> QED BY <1>2, <1>4, <1>10 DEF ParserInv, Types

\* A line that stops the loop.
LEMMA StopInv ==
  ASSUME ParserInv, NotTerminated \/ BadLine
  PROVE  ParserInv'
<1>1. UNCHANGED <<file, index, flash, reset>> /\ ret' = FALSE /\ Running
  BY DEF NotTerminated, BadLine
<1>2. /\ index \in Nat /\ index >= 1 /\ index <= Len(file) /\ Len(file) \in Nat
  BY <1>1 DEF ParserInv, Types, Running
<1>3. Stopped
  <2>1. CASE BadLine
    <3>1. PICK n \in index..Len(file) : LineEnd(n) /\ Parsed(n).kind = "bad"
      BY <2>1 DEF BadLine
    <3>2. Refused(file, n)
      BY <3>1, SameLines DEF ParserInv, Refused, LineEnd
    <3> QED BY <1>2, <3>1, <3>2 DEF Stopped
  <2>2. CASE NotTerminated
    BY <1>2, <2>2 DEF NotTerminated, Stopped
  <2> QED BY <2>1, <2>2
<1>4. Stopped'
  BY <1>1, <1>3 DEF Stopped, LineEnd, EndsLine, Refused, StartsLine
<1>5. AtLine'
  BY <1>1 DEF ParserInv, AtLine, StartsLine, EndsLine, Refused
<1>6. Assigned'
  BY <1>1 DEF ParserInv, Assigned, Sets, EndsLine
<1> QED BY <1>1, <1>4, <1>5, <1>6 DEF ParserInv, Types

\* When the loop has ended, a line was executed if it ends before index.
LEMMA ExecutedBefore ==
  ASSUME ParserInv, ~Running, NEW i \in 1..Len(file)
  PROVE  Executed(file, i) <=> i < index /\ EndsLine(file, i)
<1>1. index \in Nat /\ index >= 1 /\ Len(file) \in Nat /\ i \in Nat /\ index <= Len(file) + 1
  BY DEF ParserInv, Types
<1>2. CASE i < index
  BY <1>1, <1>2 DEF ParserInv, AtLine, Executed
<1>3. CASE i >= index
  <2>1. Stopped
    BY <1>1, <1>3 DEF ParserInv, Types, Running
  <2>2. CASE \A m \in index..Len(file) : ~EndsLine(file, m)
    BY <1>1, <1>3, <2>2 DEF Executed
  <2>3. CASE \E n \in index..Len(file) : LineEnd(n) /\ Refused(file, n)
    <3>1. PICK n \in index..Len(file) : LineEnd(n) /\ Refused(file, n)
      BY <2>3
    <3>2. CASE i < n
      BY <1>1, <1>3, <3>1, <3>2 DEF LineEnd, Executed
    <3>3. CASE i >= n
      BY <1>1, <1>3, <3>1, <3>3 DEF Executed
    <3> QED BY <1>1, <1>3, <3>1, <3>2, <3>3
  <2> QED BY <2>1, <2>2, <2>3 DEF Stopped
<1> QED BY <1>1, <1>2, <1>3

\* The invariant gives the result of each of the three outputs.
LEMMA ResultFollows ==
  ASSUME ParserInv, ~Running
  PROVE  ret = AllExecuted(file) /\ flash = Apply(file, Start) /\ reset = ResetAsked(file)
<1>1. index \in Nat /\ index >= 1 /\ Len(file) \in Nat /\ index <= Len(file) + 1
  BY DEF ParserInv, Types
<1>2. \A i \in 1..Len(file) : Executed(file, i) <=> i < index /\ EndsLine(file, i)
  BY ExecutedBefore
<1>3. ASSUME ret PROVE AllExecuted(file)
  <2>1. index = Len(file) + 1
    BY <1>1, <1>3 DEF Running
  <2>2. Len(file) >= 1 => EndsLine(file, Len(file))
    BY <1>1, <2>1 DEF ParserInv, AtLine, StartsLine
  <2> QED BY <1>1, <1>2, <2>1, <2>2 DEF AllExecuted
<1>4. ASSUME ~ret PROVE ~AllExecuted(file)
  <2>1. Stopped
    BY <1>4 DEF ParserInv
  <2>2. CASE \A m \in index..Len(file) : ~EndsLine(file, m)
    <3>1. Len(file) \in 1..Len(file) /\ ~EndsLine(file, Len(file))
      BY <1>1, <2>1, <2>2 DEF Stopped
    <3> QED BY <1>2, <3>1 DEF AllExecuted
  <2>3. CASE \E n \in index..Len(file) : LineEnd(n) /\ Refused(file, n)
    <3>1. PICK n \in index..Len(file) : LineEnd(n) /\ Refused(file, n)
      BY <2>3
    <3>2. n \in 1..Len(file) /\ EndsLine(file, n) /\ ~(n < index)
      BY <1>1, <3>1 DEF LineEnd
    <3> QED BY <1>2, <3>2 DEF AllExecuted
  <2> QED BY <2>1, <2>2, <2>3 DEF Stopped
<1>5. ret = AllExecuted(file)
  <2>1. ret \in BOOLEAN /\ AllExecuted(file) \in BOOLEAN
    BY DEF ParserInv, Types, AllExecuted
  <2> QED BY <1>3, <1>4, <2>1
<1>6. reset = ResetAsked(file)
  <2>1. reset <=> \E i \in 1..(index - 1) : EndsLine(file, i) /\ LineCommand(file, i).kind = "reset"
    BY DEF ParserInv, Assigned
  <2>2. ResetAsked(file) <=> \E i \in 1..(index - 1) : EndsLine(file, i) /\ LineCommand(file, i).kind = "reset"
    BY <1>1, <1>2 DEF ResetAsked
  <2>3. reset \in BOOLEAN /\ ResetAsked(file) \in BOOLEAN
    BY DEF ParserInv, Types, ResetAsked
  <2> QED BY <2>1, <2>2, <2>3
<1>7. ASSUME NEW q \in Params, NEW i \in 1..Len(file)
      PROVE  LastSetter(file, q, i) <=>
               i < index /\ Sets(i, q) /\ \A j \in (i + 1)..(index - 1) : ~Sets(j, q)
  <2>1. \A j \in 1..Len(file) :
          Executed(file, j) /\ LineCommand(file, j).kind = "set" /\ LineCommand(file, j).param = q
            <=> j < index /\ Sets(j, q)
    BY <1>2 DEF Sets
  <2>2. LastSetter(file, q, i) <=>
          /\ i < index /\ Sets(i, q)
          /\ \A j \in (i + 1)..Len(file) : ~(j < index /\ Sets(j, q))
    BY <1>1, <2>1 DEF LastSetter
  <2> QED BY <1>1, <2>2
<1>8. ASSUME NEW q \in Params PROVE flash[q] = Apply(file, Start)[q]
  <2>1. CASE flash[q] = Start[q] /\ \A j \in 1..(index - 1) : ~Sets(j, q)
    <3>1. ~\E i \in 1..Len(file) : LastSetter(file, q, i)
      BY <1>1, <1>7, <2>1
    <3> QED BY <2>1, <3>1 DEF Apply
  <2>2. CASE \E i \in 1..(index - 1) : /\ Sets(i, q) /\ flash[q] = LineCommand(file, i).val
                                       /\ \A j \in (i + 1)..(index - 1) : ~Sets(j, q)
    <3>1. PICK i \in 1..(index - 1) : /\ Sets(i, q) /\ flash[q] = LineCommand(file, i).val
                                      /\ \A j \in (i + 1)..(index - 1) : ~Sets(j, q)
      BY <2>2
    <3>2. i \in 1..Len(file) /\ LastSetter(file, q, i)
      BY <1>1, <1>7, <3>1
    <3> DEFINE k == CHOOSE j \in 1..Len(file) : LastSetter(file, q, j)
    <3>3. k \in 1..Len(file) /\ LastSetter(file, q, k)
      BY <3>2
    <3>4. Apply(file, Start)[q] = LineCommand(file, k).val
      BY <3>2 DEF Apply
    <3> HIDE DEF k
    <3>5. k = i
      BY <1>1, <1>7, <3>1, <3>2, <3>3
    <3> QED BY <3>1, <3>4, <3>5
  <2> QED BY <2>1, <2>2 DEF ParserInv, Assigned
<1>9. flash = Apply(file, Start)
  BY <1>8 DEF ParserInv, Types, Config, Apply
<1> QED BY <1>5, <1>6, <1>9

\* When parse_config_commands leaves its loop it has executed the lines before
\* the first bad one, in order, and reports success exactly when there was
\* none: for every file, however blocks cut or mixed its commands.
THEOREM ComputesCommandsHolds == Spec => []ComputesCommands
<1>1. Init => ParserInv
  <2> SUFFICES ASSUME Init PROVE ParserInv
    OBVIOUS
  <2>1. file \in Seq(Cell) /\ Len(file) \in Nat
    BY FilesAssumption DEF Init
  <2>2. Types /\ AtLine
    <3>1. ret \in BOOLEAN /\ reset \in BOOLEAN /\ flash \in Config
      BY FilesAssumption DEF Init
    <3>2. index = 1 /\ index \in 1..(Len(file) + 1)
      BY <2>1 DEF Init
    <3>3. AtLine
      BY <3>2 DEF AtLine, StartsLine
    <3> QED BY <2>1, <3>1, <3>2, <3>3 DEF Types
  <2>3. Assigned
    BY DEF Init, Assigned
  <2> QED BY <2>2, <2>3 DEF Init, ParserInv
<1>2. ParserInv /\ [Next]_vars => ParserInv'
  <2> SUFFICES ASSUME ParserInv, [Next]_vars PROVE ParserInv'
    OBVIOUS
  <2>1. CASE UNCHANGED vars
    <3>1. UNCHANGED <<file, index, flash, ret, reset>>
      BY <2>1 DEF vars
    <3>2. AtLine' /\ Types'
      BY <3>1 DEF ParserInv, Types, AtLine, StartsLine, EndsLine, Refused
    <3>3. Assigned'
      BY <3>1 DEF ParserInv, Assigned, Sets, EndsLine
    <3>4. ~ret => Stopped'
      BY <3>1 DEF ParserInv, Stopped, LineEnd, EndsLine, Refused, StartsLine
    <3> QED BY <3>1, <3>2, <3>3, <3>4 DEF ParserInv
  <2> QED BY <2>1, SetLineInv, ResetLineInv, StopInv DEF Next
<1>3. ParserInv => ComputesCommands
  BY ResultFollows DEF ComputesCommands
<1> QED BY <1>1, <1>2, <1>3, PTL DEF Spec

=============================================================================
