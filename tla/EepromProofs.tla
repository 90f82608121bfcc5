---------------------------- MODULE EepromProofs ----------------------------
(***************************************************************************)
(* Proofs about the flash-emulated EEPROM, for every number of sectors, of *)
(* blocks in a sector and of saves.  The plan:                             *)
(*   - arithmetic of blocks and sectors, and the highest block of a set    *)
(*   - TypeOK, whatever fails                                              *)
(*   - EepromInv, inductive, one lemma for each action, and NewestKnown    *)
(*     from it                                                             *)
(*   - the refinement of ConfigStore: a step of the emulation is a step of *)
(*     the store or changes none of its variables.                         *)
(* Power may be lost anywhere, and erasures or programmings may fail; the  *)
(* one thing assumed, and not for the types, is BlankAlone: where a failed *)
(* programming may leave its block erased, erasures succeed and failures   *)
(* do not fill all sectors but one.                                        *)
(***************************************************************************)
EXTENDS Eeprom, WellFoundedInduction, TLAPS

LEMMA NumBlocksNat == NumBlocks \in Nat \ {0}
  <1>1. \A m \in Nat, k \in Nat : m # 0 /\ k # 0 => m * k \in Nat /\ m * k # 0
    OBVIOUS
  <1> QED BY <1>1, EepromAssumption DEF NumBlocks

LEMMA LeastNatural ==
  ASSUME NEW T \in SUBSET Nat, T # {}
  PROVE  \E x \in T : \A y \in T : x <= y
  <1>1. PICK x \in T : \A y \in T : <<y, x>> \notin OpToRel(<, Nat)
    BY NatLessThanWellFounded, WFMin
  <1>2. \A y \in T : ~(y < x)
    BY <1>1 DEF OpToRel
  <1> QED BY <1>2

\* The highest of some blocks exists: it is the least number that is not below
\* any of them.
LEMMA HighestOf ==
  ASSUME NEW S \in SUBSET Block, S # {}
  PROVE  Highest(S) \in S /\ \A c \in S : c <= Highest(S)
  <1> DEFINE T == {n \in Nat : \A b \in S : b <= n}
  <1>0. S \subseteq Nat /\ NumBlocks \in Nat
    BY NumBlocksNat DEF Block
  <1>1. NumBlocks \in T
    BY <1>0, NumBlocksNat DEF Block
  <1>2. PICK n \in T : \A m \in T : n <= m
    <2> HIDE DEF T
    <2>1. T \in SUBSET Nat /\ T # {}
      BY <1>1 DEF T
    <2> QED BY <2>1, LeastNatural
  <1>3. n \in S
    <2> SUFFICES ASSUME n \notin S PROVE FALSE
      OBVIOUS
    <2>1. \A b \in S : b <= n - 1 /\ n - 1 \in Nat
      BY <1>0, <1>2
    <2>2. n - 1 \in T
      BY <2>1
    <2> QED BY <2>2, <1>2
  <1>4. \E b \in S : \A c \in S : c <= b
    BY <1>2, <1>3
  <1> QED BY <1>4 DEF Highest

LEMMA SectorOfBlock == \A b \in Block : SectorOf(b) \in Sector
  <1>1. ASSUME NEW k \in Nat \ {0}, NEW m \in Nat, NEW b \in 0..(m * k - 1)
        PROVE  b \div k \in 0..(m - 1)
    OBVIOUS
  <1> QED BY <1>1, EepromAssumption DEF SectorOf, Sector, Block, NumBlocks

\* The quotient as the one number of sectors that fit below a.
LEMMA Quotient ==
  ASSUME NEW k \in Nat \ {0}, NEW a \in Nat
  PROVE  /\ a \div k \in Nat
         /\ k * (a \div k) <= a
         /\ a < k * (a \div k) + k
  OBVIOUS

\* Numbers that differ by one or more differ by k or more when multiplied by k.
LEMMA Multiples ==
  ASSUME NEW k \in Nat \ {0}, NEW p \in Nat, NEW q \in Nat, p < q
  PROVE  k * p + k <= k * q
  <1>1. PICK d \in Nat : q = p + 1 + d
    <2>1. q - p - 1 \in Nat /\ q = p + 1 + (q - p - 1)
      OBVIOUS
    <2> QED BY <2>1
  <1>2. k * q = k * p + k + k * d /\ k * d \in Nat /\ k * p \in Nat
    BY <1>1
  <1> QED BY <1>2

LEMMA SectorMonotone ==
  \A a \in Nat, b \in Nat : a <= b => SectorOf(a) <= SectorOf(b) /\ SectorOf(a) \in Nat
  <1> SUFFICES ASSUME NEW a \in Nat, NEW b \in Nat, a <= b
               PROVE  a \div BLOCKS <= b \div BLOCKS /\ a \div BLOCKS \in Nat
    BY DEF SectorOf
  <1> DEFINE p == a \div BLOCKS
             q == b \div BLOCKS
  <1>1. /\ BLOCKS \in Nat \ {0} /\ p \in Nat /\ q \in Nat
        /\ BLOCKS * p <= a /\ b < BLOCKS * q + BLOCKS
    BY EepromAssumption, Quotient
  <1>2. BLOCKS * p \in Nat /\ BLOCKS * q \in Nat
    BY <1>1
  <1> HIDE DEF p, q
  <1>3. ~(q < p)
    <2> SUFFICES ASSUME q < p PROVE FALSE
      OBVIOUS
    <2>1. BLOCKS * q + BLOCKS <= BLOCKS * p
      BY <1>1, Multiples
    <2> QED BY <1>1, <1>2, <2>1
  <1>4. p <= q
    BY <1>1, <1>3
  <1> QED BY <1>1, <1>4 DEF p, q

\* No block below the start of a sector is in that sector.
LEMMA SectorStart ==
  \A s \in Sector, b \in Block : b < FirstBlock(s) => SectorOf(b) # SectorOf(FirstBlock(s))
  <1> SUFFICES ASSUME NEW s \in Sector, NEW b \in Block, b < FirstBlock(s),
                      SectorOf(b) = SectorOf(FirstBlock(s))
               PROVE  FALSE
    OBVIOUS
  <1> DEFINE f == FirstBlock(s)
             q == f \div BLOCKS
  <1>1. /\ s \in Nat /\ b \in Nat /\ BLOCKS \in Nat \ {0}
        /\ f = BLOCKS * s /\ f \in Nat
    BY EepromAssumption, NumBlocksNat DEF Sector, Block, FirstBlock
  <1>2. q \in Nat /\ BLOCKS * q <= f /\ f < BLOCKS * q + BLOCKS
    BY <1>1, Quotient
  <1>3. b < f /\ BLOCKS * q <= b
    BY <1>1, Quotient DEF SectorOf
  <1>4. BLOCKS * q \in Nat /\ BLOCKS * s \in Nat
    BY <1>1, <1>2
  <1> HIDE DEF q, f
  <1>5. q < s
    <2>1. ~(s < q)
      <3> SUFFICES ASSUME s < q PROVE FALSE
        OBVIOUS
      <3>1. BLOCKS * s + BLOCKS <= BLOCKS * q
        BY <1>1, <1>2, Multiples
      <3> QED BY <1>1, <1>2, <1>4, <3>1
    <2>2. q # s
      BY <1>1, <1>3, <1>4
    <2> QED BY <2>1, <2>2, <1>1, <1>2
  <1>6. BLOCKS * q + BLOCKS <= BLOCKS * s
    BY <1>1, <1>2, <1>5, Multiples
  <1> QED BY <1>1, <1>2, <1>4, <1>6

-----------------------------------------------------------------------------
(* Types.  They need nothing of the invariant below, and nothing is assumed *)
(* of the faults.                                                          *)

\* A save starts only when there is a cycle count left for it.
TypeInv ==
  /\ TypeOK
  /\ pc = "fullErase" => bcc < MaxBcc

LEMMA ContentsKinds ==
  /\ Torn \in Contents /\ Erased \in Contents
  /\ \A n \in 0..MaxBcc, c \in Data \cup {Blank} : Valid(n, c) \in Contents
  BY EepromAssumption DEF Torn, Erased, Valid, Contents

LEMMA EraseTyped ==
  ASSUME TypeOK, NEW s, HalfErased(s)
  PROVE  flash' \in [Block -> Contents]
  <1>1. CASE UNCHANGED flash
    BY <1>1 DEF TypeOK
  <1>2. ASSUME NEW left \in [BlocksOf(s) -> {Torn, Erased}],
               flash' = [b \in Block |-> IF b \in BlocksOf(s) THEN left[b] ELSE flash[b]]
        PROVE  flash' \in [Block -> Contents]
    <2>1. \A b \in BlocksOf(s) : left[b] \in Contents
      BY ContentsKinds
    <2>2. \A b \in Block : flash[b] \in Contents
      BY DEF TypeOK
    <2> QED BY <1>2, <2>1, <2>2
  <1> QED BY <1>1, <1>2 DEF HalfErased

LEMMA StartSaveTyped ==
  ASSUME TypeInv, pc \in {"load", "idle"}, NEW c \in Data, StartSave(c)
  PROVE  TypeInv'
  <1>1. /\ flash' = flash /\ buf' = c /\ bcc < MaxBcc /\ sector_count' = 0
        /\ UNCHANGED <<next_free, flash_data, status, fails, faults>>
        /\ next_free \in Block /\ bcc \in 0..MaxBcc
    BY DEF StartSave, TypeInv, TypeOK
  <1>2. \/ /\ current_sector' = IF flash_data = None THEN 0 ELSE SectorOf(flash_data)
           /\ erase_state' = Sector /\ pc' = "fullErase" /\ bcc' = bcc
        \/ /\ pc' = "program" /\ bcc' = bcc + 1
           /\ UNCHANGED <<current_sector, erase_state>>
    BY DEF StartSave, UpdateFlashContents
  <1>3. /\ 0 \in Sector /\ 0 \in 0..MAX_SECTORS
        /\ flash_data # None => SectorOf(flash_data) \in Sector
    BY SectorOfBlock, EepromAssumption DEF TypeInv, TypeOK, Sector
  <1>4. bcc' \in 0..MaxBcc /\ current_sector' \in Sector \cup {None} /\ erase_state' \subseteq Sector
    BY <1>1, <1>2, <1>3, EepromAssumption DEF TypeInv, TypeOK
  <1> QED BY <1>1, <1>2, <1>3, <1>4 DEF TypeInv, TypeOK

LEMMA TypeNext ==
  ASSUME TypeInv, [Next]_vars
  PROVE  TypeInv'
  <1> USE EepromAssumption, NumBlocksNat
  <1>0. 0 \in Sector /\ 0 \in 0..MAX_SECTORS /\ 0 \in Block /\ 0 \in 0..NumBlocks
        /\ 0 \in 0..MaxBcc /\ 0 \in 0..MaxFails
    BY DEF Sector, Block
  <1>1. CASE PowerOn \/ ScanDone \/ EraseSkip
    BY <1>0, <1>1 DEF PowerOn, ScanDone, EraseSkip, Erasing, TypeInv, TypeOK, ramVars
  <1>2. CASE ScanSector
    <2> DEFINE inUse == {b \in BlocksOf(sector_count) : flash[b].state # "erased"}
               newer == {b \in inUse : flash[b].state = "valid" /\ flash[b].bcc > bcc}
    <2>1. /\ UNCHANGED <<flash, buf, pc, status, fails, faults>> /\ pc = "scan"
          /\ sector_count \in Sector /\ sector_count' \in 0..MAX_SECTORS
          /\ erase_state' = IF inUse = {} THEN erase_state ELSE erase_state \cup {sector_count}
          /\ \/ UNCHANGED <<next_free, flash_data, current_sector, bcc>>
             \/ /\ newer # {} /\ flash_data' = Highest(newer) /\ bcc' = flash[flash_data'].bcc
                /\ current_sector' = sector_count /\ next_free' = Highest(inUse) + 1
      BY <1>2 DEF ScanSector, ReadSectorInfo, TypeInv, TypeOK, Sector
    <2>2. inUse \in SUBSET Block /\ newer \in SUBSET inUse
      BY DEF BlocksOf
    <2> HIDE DEF inUse, newer
    <2>3. newer # {} => Highest(newer) \in Block /\ Highest(inUse) \in Block
      BY <2>2, HighestOf
    <2>4. \A b \in Block : flash[b].bcc \in 0..MaxBcc /\ b + 1 \in 0..NumBlocks
      BY DEF TypeInv, TypeOK, Contents, Block
    <2> QED BY <2>1, <2>3, <2>4 DEF TypeInv, TypeOK
  <1>3. CASE EraseOk
    <2>1. flash' \in [Block -> Contents] /\ sector_count' \in 0..MAX_SECTORS
      BY <1>3, ContentsKinds DEF EraseOk, Erasing, TypeInv, TypeOK
    <2> QED BY <1>3, <2>1 DEF EraseOk, TypeInv, TypeOK
  <1>4. CASE EraseError
    <2>1. flash' \in [Block -> Contents]
      BY <1>4, EraseTyped DEF EraseError, TypeInv
    <2> QED BY <1>0, <1>4, <2>1 DEF EraseError, Erasing, TypeInv, TypeOK, ramVars
  <1>5. CASE InitEmpty
    BY <1>0, <1>5 DEF InitEmpty, TypeInv, TypeOK
  <1>6. CASE InitFound
    <2>1. flash[flash_data].data \in Data \cup {Blank} /\ flash[flash_data].bcc \in 0..MaxBcc
      BY <1>6 DEF InitFound, TypeInv, TypeOK, Contents
    <2>2. next_free' \in Block /\ next_free' \in 0..NumBlocks
      BY <1>6 DEF InitFound, TypeInv, TypeOK, Block
    <2> QED BY <1>0, <1>6, <2>1, <2>2 DEF InitFound, TypeInv, TypeOK
  <1>7. CASE LoadFlashConfig
    <2>1. CASE StartSave(DefaultConfig)
      BY <1>7, <2>1, StartSaveTyped DEF LoadFlashConfig
    <2>2. CASE pc' = "idle" /\ UNCHANGED <<flash, ramVars, sector_count, status, fails, faults>>
      BY <1>7, <2>2 DEF LoadFlashConfig, TypeInv, TypeOK, ramVars
    <2> QED BY <1>7, <2>1, <2>2 DEF LoadFlashConfig
  <1>8. ASSUME NEW c \in Data, Save(c)
        PROVE  TypeInv'
    BY <1>8, StartSaveTyped DEF Save
  <1>9. CASE FullEraseDone
    BY <1>0, <1>9 DEF FullEraseDone, TypeInv, TypeOK
  <1>10. ASSUME pc = "program"
         PROVE  NextBlock(next_free) \in Block /\ NextBlock(next_free) \in 0..NumBlocks
    BY <1>10 DEF TypeInv, TypeOK, NextBlock, Block
  <1>11. CASE ProgramOk
    <2>1. flash' \in [Block -> Contents]
      BY <1>11, ContentsKinds DEF ProgramOk, TypeInv, TypeOK
    <2>2. next_free \in Block
      BY <1>11 DEF ProgramOk, TypeInv, TypeOK
    <2> QED BY <1>0, <1>10, <1>11, <2>1, <2>2 DEF ProgramOk, TypeInv, TypeOK
  <1>12. CASE ProgramError
    <2>1. flash' \in [Block -> Contents]
      BY <1>12, ContentsKinds DEF ProgramError, TypeInv, TypeOK
    <2>2. fails' \in 0..MaxFails
      BY <1>12 DEF ProgramError, TypeInv, TypeOK
    <2> QED BY <1>10, <1>12, <2>1, <2>2 DEF ProgramError, TypeInv, TypeOK
  <1>13. CASE PowerLoss
    <2>1. flash' \in [Block -> Contents]
      <3>1. CASE UNCHANGED flash
        BY <3>1 DEF TypeInv, TypeOK
      <3>2. CASE HalfErased(sector_count)
        BY <3>2, EraseTyped DEF TypeInv
      <3>3. CASE flash' = [flash EXCEPT ![next_free] = Torn]
        BY <3>3, ContentsKinds DEF TypeInv, TypeOK
      <3> QED BY <1>13, <3>1, <3>2, <3>3 DEF PowerLoss
    <2> QED BY <1>0, <1>13, <2>1 DEF PowerLoss, TypeInv, TypeOK
  <1>14. CASE UNCHANGED vars
    BY <1>14 DEF TypeInv, TypeOK, vars, ramVars
  <1> QED
    BY <1>1, <1>2, <1>3, <1>4, <1>5, <1>6, <1>7, <1>8, <1>9, <1>11, <1>12, <1>13, <1>14 DEF Next

\* For every geometry of the flash, every number of saves and all faults, every
\* field that E_EEPROM_XMC4 keeps stays in its range; above all,
\* next_free_start_addr is an address of the emulated EEPROM whenever a save may
\* use it.
THEOREM TypeCorrect == Spec => []TypeOK
  <1>1. Init => TypeInv
    BY ContentsKinds, EepromAssumption, NumBlocksNat DEF Init, TypeInv, TypeOK, Block
  <1>2. TypeInv /\ [Next]_vars => TypeInv'
    BY TypeNext
  <1>3. TypeInv => TypeOK
    BY DEF TypeInv
  <1> QED BY <1>1, <1>2, <1>3, PTL DEF Spec

-----------------------------------------------------------------------------
(* The inductive invariant.                                                *)

\* Where a programming that fails may leave its block erased, erasing succeeds,
\* and fewer programmings fail in a row than it takes to come back to the sector
\* of the newest block.  Without either, a later save could find such a block
\* below the newest one in the same sector, and the next scan would not see it.
BlankAlone ==
  \A F \in FaultSets : "blank" \in F => "erase" \notin F /\ MaxFails < NumBlocks - BLOCKS

\* E_EEPROM_XMC4_Init has returned with success.
Saving == pc \in {"load", "idle", "fullErase", "program"}

\* Sectors are written from the bottom: what is valid below a valid block of
\* its sector is older.
Ordered ==
  \A a, b \in ValidBlocks :
    a < b /\ SectorOf(a) = SectorOf(b) => flash[a].bcc < flash[b].bcc

\* If failures always spoil their block, nothing is erased below a valid one.
NoGaps ==
  "blank" \notin faults =>
    \A a \in Block, b \in ValidBlocks :
      a < b /\ SectorOf(a) = SectorOf(b) => flash[a].state # "erased"

\* A valid block has a cycle count of its own, and it is not 0.
Counted ==
  /\ \A b \in ValidBlocks : flash[b].bcc > 0
  /\ \A a, b \in ValidBlocks : a # b => flash[a].bcc # flash[b].bcc

\* Before Init has found anything, RAM says so.
OffInv ==
  /\ pc = "off" => flash_data = None /\ bcc = 0 /\ sector_count = 0
  /\ pc \in {"off", "scan", "initErase"} => fails = 0

\* What the scan knows after the sectors below sector_count.
ScanInv ==
  pc = "scan" =>
    IF flash_data = None
      THEN bcc = 0 /\ \A b \in ValidBlocks : SectorOf(b) >= sector_count
      ELSE /\ flash_data \in ValidBlocks
           /\ bcc = flash[flash_data].bcc
           /\ current_sector = SectorOf(flash_data)
           /\ \A c \in ValidBlocks \ {flash_data} :
                SectorOf(c) < sector_count => flash[c].bcc < bcc

\* The erase loop spares the sector of the newest block.
EraseInv ==
  pc \in {"initErase", "fullErase"} /\ flash_data # None =>
    current_sector = SectorOf(flash_data)

\* There is a sector in which the cycle began; between the newest block and the
\* free one lie the blocks that failed.
FreeInv ==
  Saving =>
    /\ current_sector # None
    /\ flash_data # None =>
         next_free = flash_data + 1 + fails \/ next_free + NumBlocks = flash_data + 1 + fails

\* The sector of the free block has been written up to it, and is untouched
\* when all others are about to be erased.
BelowFree ==
  /\ Saving /\ "blank" \notin faults => \A b \in Block :
       b < next_free /\ SectorOf(b) = SectorOf(next_free) => flash[b].state # "erased"
  /\ pc = "fullErase" => \A b \in Block :
       b < next_free => SectorOf(b) # SectorOf(next_free)

\* The block being programmed will be the newest.
ProgramInv ==
  /\ pc = "program" => bcc > 0 /\ \A b \in ValidBlocks : flash[b].bcc < bcc
  /\ pc = "fullErase" => bcc < MaxBcc

\* The scan marks the sectors that hold something valid; the erase loop has
\* left nothing valid behind but in the sector it spares.
Marked ==
  /\ pc = "scan" => \A b \in ValidBlocks :
       SectorOf(b) < sector_count => SectorOf(b) \in erase_state
  /\ pc \in {"initErase", "fullErase"} => \A b \in ValidBlocks :
       \/ SectorOf(b) = current_sector
       \/ SectorOf(b) >= sector_count /\ SectorOf(b) \in erase_state

\* The blocks the current cycle has still to use: from the free one round to
\* the sector in which the cycle began.
Ahead(b) ==
  LET start == FirstBlock(current_sector)
  IN  IF next_free < start THEN next_free <= b /\ b < start
                           ELSE next_free <= b \/ b < start

\* If erasing never fails, none of them is valid, until the cycle is complete.
CleanAhead ==
  /\ "blank" \in faults
  /\ \/ pc \in {"load", "idle"} /\ next_free # FirstBlock(current_sector)
     \/ pc = "program"
  => \A b \in ValidBlocks : ~Ahead(b)

EepromInv ==
  /\ TypeOK
  /\ Ordered /\ NoGaps /\ Counted /\ OffInv /\ ScanInv
  /\ NewestKnown /\ EraseInv /\ FreeInv /\ BelowFree /\ ProgramInv
  /\ Marked /\ CleanAhead

-----------------------------------------------------------------------------
(* Steps that leave flash alone.                                           *)

LEMMA FlashSame ==
  ASSUME Ordered, NoGaps, Counted, flash' = flash, faults' = faults
  PROVE  Ordered' /\ NoGaps' /\ Counted' /\ ValidBlocks' = ValidBlocks
  <1>1. ValidBlocks' = ValidBlocks
    BY DEF ValidBlocks
  <1> QED BY <1>1 DEF Ordered, NoGaps, Counted

LEMMA Constants ==
  /\ NumBlocks \in Nat \ {0}
  /\ MAX_SECTORS \in Nat \ {0, 1}
  /\ BLOCKS \in Nat \ {0}
  /\ MaxBcc \in Nat /\ MaxFails \in Nat /\ MaxFails < NumBlocks - 1
  /\ None = -1
  BY EepromAssumption, NumBlocksNat DEF None

LEMMA PowerOnStep ==
  ASSUME EepromInv, PowerOn
  PROVE  EepromInv'
  <1>1. flash' = flash /\ UNCHANGED <<ramVars, sector_count, status, fails, faults>> /\ pc = "off" /\ pc' = "scan"
    BY DEF PowerOn
  <1>2. Ordered' /\ NoGaps' /\ Counted' /\ ValidBlocks' = ValidBlocks
    BY <1>1, FlashSame DEF EepromInv
  <1>3. TypeOK'
    BY <1>1 DEF EepromInv, TypeOK, ramVars
  <1>4. ScanInv'
    <2>1. \A b \in ValidBlocks : SectorOf(b) >= 0
      BY SectorOfBlock, Constants DEF ValidBlocks, Sector
    <2> QED BY <1>1, <1>2, <2>1 DEF EepromInv, ScanInv, OffInv, ramVars
  <1>5. NewestKnown' /\ EraseInv' /\ FreeInv' /\ BelowFree' /\ ProgramInv' /\ OffInv'
    BY <1>1 DEF EepromInv, NewestKnown, EraseInv, FreeInv, BelowFree, ProgramInv, OffInv, Saving, ramVars
  <1>6. Marked' /\ CleanAhead'
    <2>1. \A b \in ValidBlocks : ~(SectorOf(b) < 0) /\ sector_count = 0
      BY <1>1, SectorOfBlock, Constants DEF ValidBlocks, Sector, EepromInv, OffInv
    <2> QED BY <1>1, <1>2, <2>1 DEF Marked, CleanAhead
  <1> QED BY <1>2, <1>3, <1>4, <1>5, <1>6 DEF EepromInv

LEMMA ScanDoneStep ==
  ASSUME EepromInv, ScanDone
  PROVE  EepromInv'
  <1>1. /\ flash' = flash /\ pc = "scan" /\ pc' = "initErase" /\ sector_count = MAX_SECTORS
        /\ sector_count' = 0 /\ UNCHANGED <<ramVars, status, fails, faults>>
    BY DEF ScanDone
  <1>2. Ordered' /\ NoGaps' /\ Counted' /\ ValidBlocks' = ValidBlocks
    BY <1>1, FlashSame DEF EepromInv
  <1>3. TypeOK'
    BY <1>1, Constants DEF EepromInv, TypeOK, ramVars
  <1>4. \A b \in ValidBlocks : SectorOf(b) < MAX_SECTORS /\ ~(SectorOf(b) >= MAX_SECTORS)
    BY SectorOfBlock, Constants DEF ValidBlocks, Sector
  <1>5. \A b \in ValidBlocks : flash[b].bcc \in Nat
    BY Constants DEF ValidBlocks, EepromInv, TypeOK, Contents
  <1>6. NewestKnown'
    <2>1. CASE flash_data = None
      <3>1. ValidBlocks = {}
        BY <1>1, <1>4, <2>1 DEF EepromInv, ScanInv
      <3> QED BY <1>1, <1>2, <2>1, <3>1 DEF NewestKnown, ramVars
    <2>2. CASE flash_data # None
      <3>1. /\ flash_data \in ValidBlocks /\ bcc = flash[flash_data].bcc
            /\ \A c \in ValidBlocks \ {flash_data} : flash[c].bcc < bcc
        BY <1>1, <1>4, <2>2 DEF EepromInv, ScanInv
      <3>2. \A b \in ValidBlocks : flash[b].bcc <= bcc
        BY <3>1, <1>5
      <3> QED BY <1>1, <1>2, <2>2, <3>1, <3>2 DEF NewestKnown, IsNewest, ramVars
    <2> QED BY <2>1, <2>2
  <1>7. ScanInv' /\ EraseInv' /\ FreeInv' /\ BelowFree' /\ ProgramInv' /\ OffInv'
    BY <1>1 DEF EepromInv, ScanInv, EraseInv, FreeInv, BelowFree, ProgramInv, OffInv, Saving, ramVars
  <1>8. Marked' /\ CleanAhead'
    <2>1. \A b \in ValidBlocks : SectorOf(b) >= 0 /\ SectorOf(b) \in erase_state
      BY <1>1, <1>4, SectorOfBlock, Constants DEF ValidBlocks, Sector, EepromInv, Marked
    <2> QED BY <1>1, <1>2, <2>1 DEF Marked, CleanAhead, ramVars
  <1> QED BY <1>2, <1>3, <1>6, <1>7, <1>8 DEF EepromInv

\* The first block that ends the search in a sector is the sector's newest,
\* because the sector is ordered.
LEMMA ScanSectorStep ==
  ASSUME EepromInv, ScanSector
  PROVE  EepromInv'
  <1> DEFINE inUse == {b \in BlocksOf(sector_count) : flash[b].state # "erased"}
             newer == {b \in inUse : flash[b].state = "valid" /\ flash[b].bcc > bcc}
  <1>1. /\ flash' = flash /\ pc = "scan" /\ pc' = "scan" /\ sector_count \in Sector
        /\ sector_count' = sector_count + 1 /\ UNCHANGED <<buf, status, fails, faults>>
    BY Constants DEF ScanSector, EepromInv, TypeOK, Sector
  <1>2. Ordered' /\ NoGaps' /\ Counted' /\ ValidBlocks' = ValidBlocks
    BY <1>1, FlashSame DEF EepromInv
  <1>3. /\ erase_state' = IF inUse = {} THEN erase_state ELSE erase_state \cup {sector_count}
        /\ \/ newer = {} /\ UNCHANGED <<next_free, flash_data, current_sector, bcc>>
           \/ /\ newer # {}
              /\ flash_data' = Highest(newer)
              /\ bcc' = flash[flash_data'].bcc
              /\ current_sector' = sector_count
              /\ next_free' = Highest(inUse) + 1
    BY DEF ScanSector, ReadSectorInfo
  <1>4. newer \subseteq inUse /\ inUse \subseteq Block /\ newer \subseteq ValidBlocks
        /\ \A b \in inUse : SectorOf(b) = sector_count
    BY DEF BlocksOf, ValidBlocks
  <1>5. ASSUME newer # {}
        PROVE  /\ Highest(newer) \in newer /\ \A c \in newer : c <= Highest(newer)
               /\ Highest(inUse) \in Block
    BY <1>4, <1>5, HighestOf
  <1>6. \A b \in Block : flash[b].bcc \in 0..MaxBcc /\ SectorOf(b) \in Nat /\ b \in Nat
    BY SectorOfBlock, Constants DEF EepromInv, TypeOK, Contents, Sector, Block
  <1>7. /\ newer = {b \in ValidBlocks : SectorOf(b) = sector_count /\ flash[b].bcc > bcc}
        /\ \A b \in ValidBlocks : SectorOf(b) = sector_count => b \in inUse
    BY DEF BlocksOf, ValidBlocks
  <1> HIDE DEF inUse, newer
  <1>8. TypeOK'
    <2>1. next_free' \in 0..NumBlocks /\ flash_data' \in Block \cup {None}
      <3>1. CASE newer = {}
        BY <1>3, <3>1 DEF EepromInv, TypeOK
      <3>2. CASE newer # {}
        <4>1. Highest(newer) \in Block /\ Highest(inUse) \in Block
          BY <1>4, <1>5, <3>2
        <4>2. \A b \in Block : b + 1 \in 0..NumBlocks
          BY Constants DEF Block
        <4> QED BY <1>3, <3>2, <4>1, <4>2
      <3> QED BY <3>1, <3>2
    <2>2. bcc' \in 0..MaxBcc /\ current_sector' \in Sector \cup {None}
      BY <1>1, <1>3, <1>4, <1>5, <1>6 DEF EepromInv, TypeOK
    <2>3. erase_state' \subseteq Sector /\ sector_count' \in 0..MAX_SECTORS
      BY <1>1, <1>3, Constants DEF EepromInv, TypeOK, Sector
    <2> QED BY <1>1, <2>1, <2>2, <2>3 DEF EepromInv, TypeOK
  <1>9. ScanInv'
    <2>1. CASE newer = {}
      <3>1. UNCHANGED <<next_free, flash_data, current_sector, bcc>>
        BY <1>3, <2>1
      <3>2. \A b \in ValidBlocks : SectorOf(b) = sector_count => ~(flash[b].bcc > bcc)
        BY <1>7, <2>1
      <3>3. CASE flash_data = None
        <4>1. \A b \in ValidBlocks : SectorOf(b) >= sector_count + 1
          BY <1>1, <1>6, <3>2, <3>3 DEF EepromInv, ScanInv, Counted, ValidBlocks, Sector
        <4> QED BY <1>1, <1>2, <3>1, <3>3, <4>1 DEF EepromInv, ScanInv
      <3>4. CASE flash_data # None
        <4>1. ASSUME NEW c \in ValidBlocks \ {flash_data}, SectorOf(c) < sector_count + 1
              PROVE  flash[c].bcc < bcc
          <5>1. c \in Block /\ flash_data \in ValidBlocks /\ flash_data \in Block
                /\ bcc = flash[flash_data].bcc /\ flash[c].bcc # bcc
            BY <1>1, <3>4, <4>1 DEF EepromInv, ScanInv, Counted, ValidBlocks
          <5>2. CASE SectorOf(c) < sector_count
            BY <1>1, <3>4, <4>1, <5>2 DEF EepromInv, ScanInv
          <5>3. CASE SectorOf(c) = sector_count
            BY <1>6, <3>2, <5>1, <5>3
          <5> QED BY <1>1, <1>6, <4>1, <5>1, <5>2, <5>3 DEF Sector
        <4> QED BY <1>1, <1>2, <3>1, <3>4, <4>1 DEF EepromInv, ScanInv
      <3> QED BY <3>3, <3>4
    <2>2. CASE newer # {}
      <3> DEFINE n == Highest(newer)
      <3>1. n \in newer /\ flash_data' = n /\ bcc' = flash[n].bcc /\ current_sector' = sector_count
            /\ n # None /\ n \in ValidBlocks /\ SectorOf(n) = sector_count /\ flash[n].bcc > bcc /\ n \in Block
        BY <1>3, <1>4, <1>5, <1>7, <2>2, Constants DEF Block
      <3>2. ASSUME NEW c \in ValidBlocks \ {n}, SectorOf(c) < sector_count + 1
            PROVE  flash[c].bcc < flash[n].bcc
        <4>1. c \in Block /\ flash[c].state = "valid" /\ flash[n].state = "valid" /\ n \in Block
          BY <3>1 DEF ValidBlocks
        <4>2. CASE SectorOf(c) < sector_count
          <5>1. CASE flash_data = None
            BY <1>1, <1>6, <4>1, <4>2, <5>1, <3>2 DEF EepromInv, ScanInv, Sector
          <5>2. CASE flash_data # None
            <6>1. flash[c].bcc <= bcc
              BY <1>1, <1>6, <4>1, <4>2, <5>2, <3>2 DEF EepromInv, ScanInv, TypeOK
            <6> QED BY <6>1, <3>1, <1>6, <4>1 DEF EepromInv, TypeOK
          <5> QED BY <5>1, <5>2
        <4>3. CASE SectorOf(c) = sector_count
          <5>1. CASE c < n
            BY <3>1, <3>2, <4>1, <4>3, <5>1 DEF EepromInv, Ordered
          <5>2. CASE n < c
            <6>1. c \notin newer
              BY <1>5, <1>6, <2>2, <4>1, <5>2, <3>1
            <6>2. ~(flash[c].bcc > bcc)
              BY <6>1, <1>7, <4>3, <3>2
            <6> QED BY <6>2, <3>1, <1>6, <4>1 DEF EepromInv, TypeOK
          <5> QED BY <5>1, <5>2, <1>6, <4>1, <3>2
        <4> QED BY <1>1, <1>6, <3>2, <4>1, <4>2, <4>3 DEF Sector
      <3> QED BY <1>1, <1>2, <3>1, <3>2 DEF ScanInv
    <2> QED BY <2>1, <2>2
  <1>10. NewestKnown' /\ EraseInv' /\ FreeInv' /\ BelowFree' /\ ProgramInv' /\ OffInv'
    BY <1>1 DEF EepromInv, NewestKnown, EraseInv, FreeInv, BelowFree, ProgramInv, OffInv, Saving
  <1>11. Marked' /\ CleanAhead'
    <2>1. ASSUME NEW b \in ValidBlocks, SectorOf(b) < sector_count + 1
          PROVE  SectorOf(b) \in erase_state'
      <3>1. CASE SectorOf(b) < sector_count
        BY <1>1, <1>3, <3>1 DEF EepromInv, Marked
      <3>2. CASE SectorOf(b) = sector_count
        BY <1>3, <1>7, <3>2
      <3>3. SectorOf(b) \in Nat /\ sector_count \in Nat
        BY <1>1, <1>6 DEF ValidBlocks, Sector
      <3> QED BY <2>1, <3>1, <3>2, <3>3
    <2> QED BY <1>1, <1>2, <2>1 DEF Marked, CleanAhead
  <1> QED BY <1>2, <1>8, <1>9, <1>10, <1>11 DEF EepromInv

LEMMA EraseSkipStep ==
  ASSUME EepromInv, EraseSkip
  PROVE  EepromInv'
  <1>1. /\ flash' = flash /\ pc' = pc /\ pc \in {"initErase", "fullErase"} /\ sector_count < MAX_SECTORS
        /\ sector_count' = sector_count + 1 /\ UNCHANGED <<ramVars, status, fails, faults>>
    BY DEF EraseSkip, Erasing
  <1>2. Ordered' /\ NoGaps' /\ Counted' /\ ValidBlocks' = ValidBlocks
    BY <1>1, FlashSame DEF EepromInv
  <1>3. TypeOK'
    BY <1>1, Constants DEF EepromInv, TypeOK, ramVars
  <1>4. NewestKnown'
    BY <1>1, <1>2 DEF EepromInv, NewestKnown, IsNewest, ramVars
  <1>5. EraseInv' /\ FreeInv' /\ BelowFree' /\ ProgramInv' /\ OffInv' /\ ScanInv'
    BY <1>1, <1>2 DEF EepromInv, EraseInv, FreeInv, BelowFree, ProgramInv, OffInv, ScanInv, Saving, ramVars
  <1>6. Marked' /\ CleanAhead'
    <2>1. ASSUME NEW b \in ValidBlocks
          PROVE  \/ SectorOf(b) = current_sector
                 \/ SectorOf(b) >= sector_count + 1 /\ SectorOf(b) \in erase_state
      <3>1. SectorOf(b) \in Nat /\ sector_count \in Nat
        BY SectorOfBlock, Constants DEF ValidBlocks, Sector, EepromInv, TypeOK
      <3>2. SectorOf(b) = current_sector
            \/ (SectorOf(b) >= sector_count /\ SectorOf(b) \in erase_state)
        BY <1>1 DEF EepromInv, Marked
      <3>3. sector_count # current_sector => sector_count \notin erase_state
        BY DEF EraseSkip, MustErase
      <3> QED BY <3>1, <3>2, <3>3
    <2> QED BY <1>1, <1>2, <2>1 DEF Marked, CleanAhead, ramVars
  <1> QED BY <1>2, <1>3, <1>4, <1>5, <1>6 DEF EepromInv

LEMMA InitEmptyStep ==
  ASSUME EepromInv, InitEmpty
  PROVE  EepromInv'
  <1>1. /\ flash' = flash /\ pc = "initErase" /\ pc' = "load" /\ flash_data = None
        /\ current_sector' = 0 /\ next_free' = 0 /\ sector_count' = 0 /\ status' = "OK"
        /\ UNCHANGED <<flash_data, erase_state, bcc, buf, fails, faults>>
    BY DEF InitEmpty
  <1>2. Ordered' /\ NoGaps' /\ Counted' /\ ValidBlocks' = ValidBlocks
    BY <1>1, FlashSame DEF EepromInv
  <1>3. TypeOK'
    BY <1>1, Constants DEF EepromInv, TypeOK, Sector, Block
  <1>4. NewestKnown'
    BY <1>1, <1>2 DEF EepromInv, NewestKnown
  <1>5. \A b \in Block : ~(b < 0)
    BY Constants DEF Block
  <1>6. EraseInv' /\ FreeInv' /\ BelowFree' /\ ProgramInv' /\ OffInv' /\ ScanInv'
    BY <1>1, <1>5, Constants
    DEF EepromInv, EraseInv, FreeInv, BelowFree, ProgramInv, OffInv, ScanInv, Saving
  <1>7. Marked' /\ CleanAhead'
    <2>1. ValidBlocks = {}
      BY <1>1 DEF EepromInv, NewestKnown
    <2> QED BY <1>1, <1>2, <2>1 DEF Marked, CleanAhead
  <1> QED BY <1>2, <1>3, <1>4, <1>6, <1>7 DEF EepromInv

\* After block n of a sector comes the next block of it or the start of another.
LEMMA NextInSector ==
  ASSUME NEW n \in Block, NEW b \in Block, b < n + 1, SectorOf(b) = SectorOf(n + 1)
  PROVE  b = n \/ (b < n /\ SectorOf(b) = SectorOf(n))
  <1>1. n \in Nat /\ b \in Nat /\ n + 1 \in Nat
    BY Constants DEF Block
  <1>2. SectorOf(b) <= SectorOf(n) /\ SectorOf(n) <= SectorOf(n + 1)
        /\ SectorOf(b) \in Nat /\ SectorOf(n) \in Nat
    BY <1>1, SectorMonotone
  <1> QED BY <1>1, <1>2

\* The blocks of a sector are BLOCKS in a row.
LEMMA InSector ==
  ASSUME NEW b \in Block
  PROVE  /\ FirstBlock(SectorOf(b)) \in Nat
         /\ FirstBlock(SectorOf(b)) <= b
         /\ b < FirstBlock(SectorOf(b)) + BLOCKS
  <1>1. b \in Nat /\ BLOCKS \in Nat \ {0}
    BY Constants DEF Block
  <1> DEFINE q == b \div BLOCKS
  <1>2. q \in Nat /\ BLOCKS * q <= b /\ b < BLOCKS * q + BLOCKS
    BY <1>1, Quotient
  <1> HIDE DEF q
  <1>3. q * BLOCKS = BLOCKS * q /\ q * BLOCKS \in Nat
    BY <1>1, <1>2
  <1> QED BY <1>2, <1>3 DEF SectorOf, FirstBlock, q

LEMMA SectorOfFirst ==
  ASSUME NEW s \in Nat
  PROVE  SectorOf(FirstBlock(s)) = s
  <1>1. ASSUME NEW k \in Nat \ {0}
        PROVE  (s * k) \div k = s
    OBVIOUS
  <1> QED BY <1>1, Constants DEF SectorOf, FirstBlock

LEMMA InitFoundStep ==
  ASSUME EepromInv, InitFound
  PROVE  EepromInv'
  <1>1. /\ flash' = flash /\ pc = "initErase" /\ flash_data # None
        /\ buf' = flash[flash_data].data /\ bcc' = flash[flash_data].bcc
        /\ \/ status' = "ERROR_OLD_DATA" /\ pc' = "dead"
           \/ status' = "OK" /\ pc' = "load" /\ next_free - flash_data = 1
        /\ next_free' = IF next_free >= NumBlocks THEN 0 ELSE next_free
        /\ sector_count = MAX_SECTORS /\ sector_count' = 0
        /\ UNCHANGED <<flash_data, current_sector, erase_state, fails, faults>>
    BY DEF InitFound
  <1>2. Ordered' /\ NoGaps' /\ Counted' /\ ValidBlocks' = ValidBlocks
    BY <1>1, FlashSame DEF EepromInv
  <1>3. /\ flash_data \in Block /\ flash[flash_data] \in Contents
        /\ next_free \in 0..NumBlocks /\ fails = 0
        /\ IsNewest(flash_data) /\ flash[flash_data].state = "valid"
    BY <1>1 DEF EepromInv, TypeOK, NewestKnown, OffInv, IsNewest, ValidBlocks
  <1>4. next_free' \in Block
    BY <1>1, <1>3, Constants DEF Block
  <1>5. TypeOK'
    BY <1>1, <1>3, <1>4, Constants DEF EepromInv, TypeOK, Contents, Block
  <1>6. NewestKnown'
    <2>1. \A b \in ValidBlocks : flash[b].bcc \in Nat
      BY Constants DEF ValidBlocks, EepromInv, TypeOK, Contents
    <2>2. \A b \in ValidBlocks : flash[b].bcc <= flash[flash_data].bcc
      BY <1>3, <2>1 DEF IsNewest
    <2> QED BY <1>1, <1>2, <1>3, <2>2 DEF NewestKnown, IsNewest
  <1>7. FreeInv'
    <2>1. SectorOf(flash_data) # None /\ current_sector = SectorOf(flash_data)
      BY <1>1, <1>3, SectorOfBlock, Constants DEF EepromInv, EraseInv, Sector
    <2> QED BY <1>1, <1>3, <2>1, Constants DEF FreeInv, Saving, Block
  <1>8. BelowFree'
    <2>1. CASE pc' # "load"
      BY <1>1, <2>1 DEF BelowFree, Saving
    <2>2. CASE pc' = "load"
      <3>1. next_free = flash_data + 1
        BY <1>1, <1>3, <2>2, Constants DEF Block
      <3>2. ASSUME NEW b \in Block, b < next_free', SectorOf(b) = SectorOf(next_free'),
                   "blank" \notin faults
            PROVE  flash[b].state # "erased"
        <4>1. next_free' = flash_data + 1
          BY <1>1, <3>1, <3>2, Constants DEF Block
        <4>2. b = flash_data \/ (b < flash_data /\ SectorOf(b) = SectorOf(flash_data))
          BY <1>3, <3>2, <4>1, NextInSector
        <4> QED BY <1>3, <3>2, <4>2 DEF EepromInv, NoGaps, ValidBlocks
      <3> QED BY <1>1, <2>2, <3>2 DEF BelowFree
    <2> QED BY <2>1, <2>2
  <1>9. EraseInv' /\ ProgramInv' /\ OffInv' /\ ScanInv'
    BY <1>1 DEF EepromInv, EraseInv, ProgramInv, OffInv, ScanInv
  <1>10. Marked'
    BY <1>1 DEF Marked
  <1>11. CleanAhead'
    <2> SUFFICES ASSUME pc' = "load", next_free' # FirstBlock(current_sector'),
                        NEW b \in ValidBlocks, Ahead(b)'
                 PROVE  FALSE
      BY <1>1, <1>2 DEF CleanAhead
    <2> DEFINE start == FirstBlock(current_sector)
    <2>1. next_free = flash_data + 1 /\ current_sector = SectorOf(flash_data)
      BY <1>1, <1>3, Constants DEF Block, EepromInv, EraseInv
    <2>2. SectorOf(b) = current_sector
      <3>1. SectorOf(b) \in Nat /\ SectorOf(b) < MAX_SECTORS
        BY SectorOfBlock, Constants DEF ValidBlocks, Sector
      <3> QED BY <1>1, <3>1, Constants DEF EepromInv, Marked
    <2>3. start <= b /\ start <= flash_data /\ start \in Nat /\ b \in Block
      BY <1>3, <2>1, <2>2, InSector DEF ValidBlocks
    <2>4. b <= flash_data
      <3>1. flash[b].bcc \in Nat /\ flash[flash_data].bcc \in Nat /\ flash_data \in ValidBlocks
        BY <1>3, <2>3, Constants DEF EepromInv, TypeOK, Contents, IsNewest
      <3>2. b # flash_data => ~(flash_data < b)
        BY <1>3, <2>1, <2>2, <3>1 DEF EepromInv, Ordered, IsNewest
      <3> QED BY <1>3, <2>3, <3>2, Constants DEF Block
    <2>5. (next_free' = flash_data + 1 \/ next_free' = 0) /\ current_sector' = current_sector
      BY <1>1, <2>1
    <2>6. IF next_free' < start THEN next_free' <= b /\ b < start
                                ELSE next_free' <= b \/ b < start
      BY <2>5 DEF Ahead
    <2>7. next_free' # start
      BY <2>5
    <2> HIDE DEF start
    <2> QED BY <1>3, <2>3, <2>4, <2>5, <2>6, <2>7, Constants DEF Block
  <1> QED BY <1>2, <1>5, <1>6, <1>7, <1>8, <1>9, <1>10, <1>11 DEF EepromInv

LEMMA StartSaveStep ==
  ASSUME EepromInv, pc \in {"load", "idle"}, NEW c \in Data, StartSave(c)
  PROVE  EepromInv'
  <1>1. /\ flash' = flash /\ buf' = c /\ bcc < MaxBcc /\ sector_count' = 0
        /\ UNCHANGED <<next_free, flash_data, status, fails, faults>>
    BY DEF StartSave
  <1>2. \/ /\ next_free = FirstBlock(current_sector)
           /\ current_sector' = IF flash_data = None THEN 0 ELSE SectorOf(flash_data)
           /\ erase_state' = Sector /\ pc' = "fullErase" /\ bcc' = bcc
        \/ /\ next_free # FirstBlock(current_sector) \/ bcc = 0
           /\ pc' = "program" /\ bcc' = bcc + 1
           /\ UNCHANGED <<current_sector, erase_state>>
    BY DEF StartSave, UpdateFlashContents
  <1>3. Ordered' /\ NoGaps' /\ Counted' /\ ValidBlocks' = ValidBlocks
    BY <1>1, FlashSame DEF EepromInv
  <1>4. bcc \in Nat /\ bcc < MaxBcc /\ next_free \in Block
    BY <1>1, Constants DEF EepromInv, TypeOK
  <1>5. TypeOK'
    <2>1. current_sector' \in Sector \cup {None} /\ erase_state' \subseteq Sector
      <3>1. 0 \in Sector
        BY Constants DEF Sector
      <3>2. flash_data # None => SectorOf(flash_data) \in Sector
        BY SectorOfBlock DEF EepromInv, TypeOK
      <3> QED BY <1>2, <3>1, <3>2 DEF EepromInv, TypeOK
    <2>2. bcc' \in 0..MaxBcc
      BY <1>2, <1>4, Constants
    <2> QED BY <1>1, <1>2, <1>4, <2>1, <2>2, Constants DEF EepromInv, TypeOK
  <1>6. /\ IF flash_data = None THEN ValidBlocks = {} ELSE IsNewest(flash_data)
        /\ \A b \in ValidBlocks : flash[b].bcc <= bcc /\ flash[b].bcc \in Nat
    BY Constants DEF EepromInv, NewestKnown, TypeOK, ValidBlocks, Contents
  <1>7. NewestKnown' /\ ProgramInv'
    <2>1. \A b \in ValidBlocks : flash[b].bcc <= bcc' /\ (bcc' = bcc + 1 => flash[b].bcc < bcc')
      BY <1>2, <1>4, <1>6
    <2> QED BY <1>1, <1>2, <1>3, <1>4, <1>6, <2>1 DEF NewestKnown, ProgramInv, IsNewest
  <1>8. EraseInv'
    BY <1>1, <1>2 DEF EraseInv
  <1>9. FreeInv'
    <2>1. 0 # None /\ (flash_data # None => SectorOf(flash_data) # None)
      BY SectorOfBlock, Constants DEF EepromInv, TypeOK, Sector
    <2> QED BY <1>1, <1>2, <2>1 DEF EepromInv, FreeInv, Saving
  <1>10. BelowFree'
    <2>1. "blank" \notin faults => \A b \in Block :
            b < next_free /\ SectorOf(b) = SectorOf(next_free) => flash[b].state # "erased"
      BY DEF EepromInv, BelowFree, Saving
    <2>2. CASE pc' = "fullErase"
      <3>1. next_free = FirstBlock(current_sector) /\ next_free \in Nat
        BY <1>2, <1>4, <2>2, Constants DEF Block
      <3>2. current_sector \in Sector
        <4>1. FirstBlock(None) = -BLOCKS
          BY Constants DEF FirstBlock
        <4>2. current_sector # None
          BY <3>1, <4>1, Constants
        <4> QED BY <4>2 DEF EepromInv, TypeOK
      <3>3. \A b \in Block : b < next_free => SectorOf(b) # SectorOf(next_free)
        BY <3>1, <3>2, SectorStart
      <3> QED BY <1>1, <2>1, <3>3 DEF BelowFree
    <2>3. CASE pc' # "fullErase"
      BY <1>1, <2>1, <2>3 DEF BelowFree
    <2> QED BY <2>2, <2>3
  <1>11. OffInv' /\ ScanInv'
    BY <1>2 DEF OffInv, ScanInv
  <1>12. Marked'
    <2>1. \A b \in ValidBlocks : SectorOf(b) >= 0 /\ SectorOf(b) \in Sector
      BY SectorOfBlock, Constants DEF ValidBlocks, Sector
    <2> QED BY <1>1, <1>2, <1>3, <2>1 DEF Marked
  <1>13. CleanAhead'
    <2> SUFFICES ASSUME pc' = "program", "blank" \in faults, NEW b \in ValidBlocks, Ahead(b)'
                 PROVE  FALSE
      BY <1>1, <1>2, <1>3 DEF CleanAhead
    <2>1. Ahead(b)
      BY <1>1, <1>2 DEF Ahead
    <2>2. bcc # 0
      BY <1>6 DEF EepromInv, Counted
    <2>3. next_free # FirstBlock(current_sector)
      BY <1>2, <2>2
    <2> QED BY <2>1, <2>3 DEF EepromInv, CleanAhead
  <1> QED BY <1>3, <1>5, <1>7, <1>8, <1>9, <1>10, <1>11, <1>12, <1>13 DEF EepromInv

LEMMA LoadFlashConfigStep ==
  ASSUME EepromInv, LoadFlashConfig
  PROVE  EepromInv'
  <1>1. CASE flash_data = None /\ StartSave(DefaultConfig)
    BY <1>1, EepromAssumption, StartSaveStep DEF LoadFlashConfig
  <1>2. CASE flash_data # None /\ pc' = "idle"
              /\ UNCHANGED <<flash, ramVars, sector_count, status, fails, faults>>
    <2>1. pc = "load" /\ flash' = flash
      BY <1>2 DEF LoadFlashConfig
    <2>2. Ordered' /\ NoGaps' /\ Counted' /\ ValidBlocks' = ValidBlocks
      BY <1>2, <2>1, FlashSame DEF EepromInv
    <2>3. TypeOK'
      BY <1>2, <2>1 DEF EepromInv, TypeOK, ramVars
    <2>4. NewestKnown'
      BY <1>2, <2>1, <2>2 DEF EepromInv, NewestKnown, IsNewest, ramVars
    <2>5. EraseInv' /\ FreeInv' /\ BelowFree' /\ ProgramInv' /\ OffInv' /\ ScanInv'
      BY <1>2, <2>1 DEF EepromInv, EraseInv, FreeInv, BelowFree, ProgramInv, OffInv, ScanInv, Saving, ramVars
    <2>6. Marked' /\ CleanAhead'
      BY <1>2, <2>1, <2>2 DEF EepromInv, Marked, CleanAhead, Ahead, ramVars
    <2> QED BY <2>2, <2>3, <2>4, <2>5, <2>6 DEF EepromInv
  <1> QED BY <1>1, <1>2 DEF LoadFlashConfig

\* A cycle is not complete before it has left the sector of the newest block.
LEMMA FreeElsewhere ==
  ASSUME BlankAlone, EepromInv, pc = "fullErase", flash_data # None, "blank" \in faults
  PROVE  SectorOf(next_free) # SectorOf(flash_data)
  <1>1. /\ next_free \in Block /\ flash_data \in Block /\ fails \in 0..MaxFails
        /\ MaxFails < NumBlocks - BLOCKS
        /\ next_free = flash_data + 1 + fails \/ next_free + NumBlocks = flash_data + 1 + fails
    BY DEF EepromInv, TypeOK, FreeInv, Saving, BlankAlone
  <1>2. CASE next_free = flash_data + 1 + fails
    <2>1. flash_data < next_free
      BY <1>1, <1>2, Constants DEF Block
    <2> QED BY <1>1, <2>1 DEF EepromInv, BelowFree
  <1>3. CASE next_free + NumBlocks = flash_data + 1 + fails
    <2>1. next_free + BLOCKS <= flash_data
      BY <1>1, <1>3, Constants DEF Block
    <2>2. /\ FirstBlock(SectorOf(next_free)) <= next_free
          /\ FirstBlock(SectorOf(next_free)) \in Nat
          /\ flash_data < FirstBlock(SectorOf(flash_data)) + BLOCKS
          /\ FirstBlock(SectorOf(flash_data)) \in Nat
      BY <1>1, InSector
    <2> QED BY <1>1, <2>1, <2>2, Constants DEF Block
  <1> QED BY <1>1, <1>2, <1>3

LEMMA FullEraseDoneStep ==
  ASSUME BlankAlone, EepromInv, FullEraseDone
  PROVE  EepromInv'
  <1>1. /\ flash' = flash /\ pc = "fullErase" /\ pc' = "program"
        /\ sector_count = MAX_SECTORS /\ sector_count' = 0 /\ bcc' = bcc + 1
        /\ UNCHANGED <<next_free, flash_data, current_sector, erase_state, buf, status, fails, faults>>
    BY DEF FullEraseDone
  <1>2. Ordered' /\ NoGaps' /\ Counted' /\ ValidBlocks' = ValidBlocks
    BY <1>1, FlashSame DEF EepromInv
  <1>3. bcc \in Nat /\ bcc < MaxBcc
    BY <1>1, Constants DEF EepromInv, TypeOK, ProgramInv
  <1>4. TypeOK'
    BY <1>1, <1>3, Constants DEF EepromInv, TypeOK
  <1>5. /\ IF flash_data = None THEN ValidBlocks = {} ELSE IsNewest(flash_data)
        /\ \A b \in ValidBlocks : flash[b].bcc <= bcc /\ flash[b].bcc \in Nat
    BY <1>1, Constants DEF EepromInv, NewestKnown, TypeOK, ValidBlocks, Contents
  <1>6. \A b \in ValidBlocks : flash[b].bcc <= bcc' /\ flash[b].bcc < bcc'
    BY <1>1, <1>3, <1>5
  <1>7. NewestKnown' /\ ProgramInv'
    BY <1>1, <1>2, <1>3, <1>5, <1>6 DEF NewestKnown, ProgramInv, IsNewest
  <1>8. EraseInv' /\ FreeInv' /\ BelowFree' /\ OffInv' /\ ScanInv'
    BY <1>1 DEF EepromInv, EraseInv, FreeInv, BelowFree, OffInv, ScanInv, Saving
  <1>9. Marked'
    BY <1>1 DEF Marked
  <1>10. CleanAhead'
    <2> SUFFICES ASSUME "blank" \in faults, NEW b \in ValidBlocks, Ahead(b)
                 PROVE  FALSE
      BY <1>1, <1>2 DEF CleanAhead, Ahead
    <2> DEFINE start == FirstBlock(current_sector)
    <2>1. flash_data # None /\ next_free \in Block /\ flash_data \in Block
      BY <1>1, <1>5 DEF EepromInv, TypeOK
    <2>2. SectorOf(b) = current_sector
      <3>1. SectorOf(b) \in Nat /\ SectorOf(b) < MAX_SECTORS
        BY SectorOfBlock, Constants DEF ValidBlocks, Sector
      <3> QED BY <1>1, <3>1, Constants DEF EepromInv, Marked
    <2>3. start \in Nat /\ start <= b /\ b < start + BLOCKS /\ b \in Block
      BY <2>2, InSector DEF ValidBlocks
    <2>4. SectorOf(next_free) # current_sector
      BY <1>1, <2>1, FreeElsewhere DEF EepromInv, EraseInv
    <2>5. IF next_free < start THEN next_free <= b /\ b < start
                               ELSE next_free <= b \/ b < start
      BY DEF Ahead
    <2>6. start <= next_free /\ next_free <= b /\ start \in Nat
      <3> HIDE DEF start
      <3> QED BY <2>1, <2>3, <2>5, Constants DEF Block
    <2>7. SectorOf(start) <= SectorOf(next_free) /\ SectorOf(next_free) <= SectorOf(b)
          /\ SectorOf(start) \in Nat /\ SectorOf(next_free) \in Nat /\ SectorOf(b) \in Nat
      BY <2>1, <2>3, <2>6, SectorMonotone, Constants DEF Block
    <2>8. SectorOf(start) = current_sector
      <3>1. current_sector \in Nat
        BY <2>2, <2>7
      <3> QED BY <3>1, SectorOfFirst
    <2> QED BY <2>2, <2>4, <2>7, <2>8
  <1> QED BY <1>2, <1>4, <1>7, <1>8, <1>9, <1>10 DEF EepromInv

-----------------------------------------------------------------------------
(* Steps that erase or spoil blocks.                                       *)

\* Valid blocks are as they were, and the other blocks of a sector that has
\* one are as they were or spoilt.
Shrinks ==
  /\ \A b \in Block : flash'[b].state = "valid" => flash'[b] = flash[b]
  /\ \A a, b \in Block : flash'[b].state = "valid" /\ SectorOf(a) = SectorOf(b) =>
       flash'[a] = flash[a] \/ flash'[a] = Torn

LEMMA ShrinkKeeps ==
  ASSUME Shrinks, Ordered, NoGaps, Counted, faults' = faults
  PROVE  Ordered' /\ NoGaps' /\ Counted' /\ ValidBlocks' \subseteq ValidBlocks
         /\ \A b \in ValidBlocks' : flash'[b] = flash[b]
  <1>1. ValidBlocks' \subseteq ValidBlocks /\ \A b \in ValidBlocks' : flash'[b] = flash[b]
    BY DEF Shrinks, ValidBlocks
  <1>2. Counted'
    BY <1>1 DEF Counted
  <1>3. Torn.state = "torn"
    BY DEF Torn
  <1>4. Ordered'
    BY <1>1 DEF Ordered
  <1>5. NoGaps'
    <2> SUFFICES ASSUME "blank" \notin faults, NEW a \in Block, NEW b \in ValidBlocks',
                        a < b, SectorOf(a) = SectorOf(b)
                 PROVE  flash'[a].state # "erased"
      BY DEF NoGaps
    <2>1. b \in ValidBlocks /\ (flash'[a] = flash[a] \/ flash'[a] = Torn)
      BY <1>1 DEF Shrinks, ValidBlocks
    <2> QED BY <1>3, <2>1 DEF NoGaps
  <1> QED BY <1>1, <1>2, <1>4, <1>5

\* A sector is erased, completely or half way.
LEMMA EraseShrinks ==
  ASSUME TypeOK, NEW s \in Sector,
         \/ UNCHANGED flash
         \/ \E left \in [BlocksOf(s) -> {Torn, Erased}] :
              flash' = [b \in Block |-> IF b \in BlocksOf(s) THEN left[b] ELSE flash[b]]
  PROVE  /\ Shrinks
         /\ flash' \in [Block -> Contents]
         /\ \A b \in Block : SectorOf(b) # s => flash'[b] = flash[b]
  <1>1. Torn \in Contents /\ Erased \in Contents /\ Torn.state = "torn" /\ Erased.state = "erased"
    BY Constants DEF Torn, Erased, Contents
  <1>2. CASE UNCHANGED flash
    BY <1>2 DEF TypeOK, Shrinks
  <1>3. ASSUME NEW left \in [BlocksOf(s) -> {Torn, Erased}],
               flash' = [b \in Block |-> IF b \in BlocksOf(s) THEN left[b] ELSE flash[b]]
        PROVE  /\ Shrinks
               /\ flash' \in [Block -> Contents]
               /\ \A b \in Block : SectorOf(b) # s => flash'[b] = flash[b]
    <2>1. \A b \in Block :
            \/ SectorOf(b) = s /\ flash'[b] \in {Torn, Erased}
            \/ SectorOf(b) # s /\ flash'[b] = flash[b]
      <3> TAKE b \in Block
      <3>1. b \in BlocksOf(s) <=> SectorOf(b) = s
        BY DEF BlocksOf
      <3>2. CASE SectorOf(b) = s
        <4>1. flash'[b] = left[b] /\ left[b] \in {Torn, Erased}
          BY <1>3, <3>1, <3>2
        <4> QED BY <3>2, <4>1
      <3>3. CASE SectorOf(b) # s
        <4>1. flash'[b] = flash[b]
          BY <1>3, <3>1, <3>3
        <4> QED BY <3>3, <4>1
      <3> QED BY <3>2, <3>3
    <2>2. \A b \in Block : flash'[b] \in Contents
      BY <1>1, <2>1 DEF TypeOK
    <2>3. flash' \in [Block -> Contents]
      BY <1>3, <2>2
    <2>4. Shrinks
      BY <1>1, <2>1 DEF Shrinks
    <2> QED BY <2>1, <2>3, <2>4
  <1> QED BY <1>2, <1>3

\* One block is spoilt.
LEMMA TornShrinks ==
  ASSUME TypeOK, NEW n \in Block, flash' = [flash EXCEPT ![n] = Torn]
  PROVE  /\ Shrinks
         /\ flash' \in [Block -> Contents]
         /\ flash'[n] = Torn
         /\ \A b \in Block : b # n => flash'[b] = flash[b]
  <1>1. Torn \in Contents /\ Torn.state = "torn"
    BY Constants DEF Torn, Contents
  <1>2. \A b \in Block : flash'[b] = IF b = n THEN Torn ELSE flash[b]
    BY DEF TypeOK
  <1>3. Shrinks
    BY <1>1, <1>2 DEF Shrinks
  <1>4. flash' \in [Block -> Contents]
    BY <1>1 DEF TypeOK
  <1> QED BY <1>2, <1>3, <1>4

\* The newest block stays the newest if it is not touched.
LEMMA NewestStays ==
  ASSUME TypeOK, Shrinks,
         IF flash_data = None THEN ValidBlocks = {} ELSE IsNewest(flash_data),
         flash_data # None => flash'[flash_data] = flash[flash_data]
  PROVE  /\ flash_data = None => ValidBlocks' = {}
         /\ flash_data # None =>
              /\ flash_data \in ValidBlocks'
              /\ \A c \in ValidBlocks' \ {flash_data} : flash'[c].bcc < flash'[flash_data].bcc
  <1>1. ValidBlocks' \subseteq ValidBlocks /\ \A b \in ValidBlocks' : flash'[b] = flash[b]
    BY DEF Shrinks, ValidBlocks
  <1>2. flash_data # None => flash_data \in ValidBlocks'
    BY DEF IsNewest, ValidBlocks
  <1> QED BY <1>1, <1>2 DEF IsNewest

\* What the erase loop does to flash, whether it succeeds or stops half way.
LEMMA EraseFacts ==
  ASSUME EepromInv, Erasing, MustErase, faults' = faults,
         \/ HalfErased(sector_count)
         \/ flash' = [b \in Block |-> IF SectorOf(b) = sector_count THEN Erased ELSE flash[b]]
  PROVE  /\ Shrinks /\ Ordered' /\ NoGaps' /\ Counted'
         /\ flash' \in [Block -> Contents]
         /\ sector_count \in Sector
         /\ ValidBlocks' \subseteq ValidBlocks
         /\ \A b \in ValidBlocks' : flash'[b] = flash[b]
         /\ IF flash_data = None THEN ValidBlocks = {} ELSE IsNewest(flash_data)
         /\ flash_data # None => flash'[flash_data] = flash[flash_data]
         /\ flash_data = None => ValidBlocks' = {}
         /\ flash_data # None =>
              /\ flash_data \in ValidBlocks'
              /\ \A c \in ValidBlocks' \ {flash_data} : flash'[c].bcc < flash'[flash_data].bcc
  <1>1. sector_count \in Sector /\ pc \in {"initErase", "fullErase"} /\ sector_count # current_sector
    BY Constants DEF Erasing, MustErase, EepromInv, TypeOK, Sector
  <1>2. \/ UNCHANGED flash
        \/ \E left \in [BlocksOf(sector_count) -> {Torn, Erased}] :
             flash' = [b \in Block |-> IF b \in BlocksOf(sector_count) THEN left[b] ELSE flash[b]]
    <2>1. CASE HalfErased(sector_count)
      BY <2>1 DEF HalfErased
    <2>2. CASE flash' = [b \in Block |-> IF SectorOf(b) = sector_count THEN Erased ELSE flash[b]]
      <3> DEFINE left == [b \in BlocksOf(sector_count) |-> Erased]
      <3>1. left \in [BlocksOf(sector_count) -> {Torn, Erased}]
        OBVIOUS
      <3>2. flash' = [b \in Block |-> IF b \in BlocksOf(sector_count) THEN left[b] ELSE flash[b]]
        BY <2>2 DEF BlocksOf
      <3> QED BY <3>1, <3>2
    <2> QED BY <2>1, <2>2
  <1>3. /\ Shrinks /\ flash' \in [Block -> Contents]
        /\ \A b \in Block : SectorOf(b) # sector_count => flash'[b] = flash[b]
    BY <1>1, <1>2, EraseShrinks DEF EepromInv
  <1>4. IF flash_data = None THEN ValidBlocks = {} ELSE IsNewest(flash_data)
    BY <1>1 DEF EepromInv, NewestKnown
  <1>5. flash_data # None => flash'[flash_data] = flash[flash_data]
    BY <1>1, <1>3 DEF EepromInv, EraseInv, TypeOK
  <1>6. /\ flash_data = None => ValidBlocks' = {}
        /\ flash_data # None =>
             /\ flash_data \in ValidBlocks'
             /\ \A c \in ValidBlocks' \ {flash_data} : flash'[c].bcc < flash'[flash_data].bcc
    BY <1>3, <1>4, <1>5, NewestStays DEF EepromInv
  <1>7. Ordered' /\ NoGaps' /\ Counted' /\ ValidBlocks' \subseteq ValidBlocks
        /\ \A b \in ValidBlocks' : flash'[b] = flash[b]
    BY <1>3, ShrinkKeeps DEF EepromInv
  <1> QED BY <1>1, <1>3, <1>4, <1>5, <1>6, <1>7

LEMMA EraseOkStep ==
  ASSUME EepromInv, EraseOk
  PROVE  EepromInv'
  <1>1. /\ Erasing /\ MustErase /\ pc' = pc /\ pc \in {"initErase", "fullErase"}
        /\ flash' = [b \in Block |-> IF SectorOf(b) = sector_count THEN Erased ELSE flash[b]]
        /\ erase_state' = erase_state \ {sector_count} /\ sector_count' = sector_count + 1
        /\ UNCHANGED <<next_free, flash_data, current_sector, bcc, buf, status, fails, faults>>
    BY DEF EraseOk, Erasing
  <1>2. /\ Ordered' /\ NoGaps' /\ Counted' /\ flash' \in [Block -> Contents] /\ sector_count \in Sector
        /\ ValidBlocks' \subseteq ValidBlocks /\ \A b \in ValidBlocks' : flash'[b] = flash[b]
        /\ flash_data = None => ValidBlocks' = {}
        /\ flash_data # None =>
             /\ flash_data \in ValidBlocks'
             /\ \A c \in ValidBlocks' \ {flash_data} : flash'[c].bcc < flash'[flash_data].bcc
    BY <1>1, EraseFacts
  <1>3. TypeOK'
    BY <1>1, <1>2, Constants DEF EepromInv, TypeOK, Sector
  <1>4. NewestKnown'
    BY <1>1, <1>2 DEF EepromInv, NewestKnown, IsNewest
  <1>5. BelowFree'
    BY <1>1 DEF EepromInv, BelowFree, Saving
  <1>6. EraseInv' /\ FreeInv' /\ ProgramInv' /\ OffInv' /\ ScanInv'
    BY <1>1 DEF EepromInv, EraseInv, FreeInv, ProgramInv, OffInv, ScanInv, Saving
  <1>7. Marked' /\ CleanAhead'
    <2>1. ASSUME NEW b \in ValidBlocks'
          PROVE  \/ SectorOf(b) = current_sector
                 \/ SectorOf(b) >= sector_count + 1 /\ SectorOf(b) \in erase_state'
      <3>1. b \in ValidBlocks /\ b \in Block
        BY <1>2, <2>1 DEF ValidBlocks
      <3>2. SectorOf(b) \in Nat /\ sector_count \in Nat
        BY <1>2, <3>1, SectorOfBlock, Constants DEF Sector
      <3>3. SectorOf(b) = current_sector
            \/ (SectorOf(b) >= sector_count /\ SectorOf(b) \in erase_state)
        BY <1>1, <3>1 DEF EepromInv, Marked
      <3>4. SectorOf(b) # sector_count
        <4>1. SectorOf(b) = sector_count => flash'[b] = Erased
          BY <1>1, <3>1
        <4>2. flash'[b].state = "valid"
          BY <2>1 DEF ValidBlocks
        <4> QED BY <4>1, <4>2 DEF Erased
      <3> QED BY <1>1, <3>2, <3>3, <3>4
    <2> QED BY <1>1, <2>1 DEF Marked, CleanAhead
  <1> QED BY <1>2, <1>3, <1>4, <1>5, <1>6, <1>7 DEF EepromInv

LEMMA EraseErrorStep ==
  ASSUME BlankAlone, EepromInv, EraseError
  PROVE  EepromInv'
  <1>1. /\ Erasing /\ MustErase /\ pc \in {"initErase", "fullErase"} /\ HalfErased(sector_count)
        /\ status' = "ERASE_ERROR" /\ pc' = IF pc = "initErase" THEN "dead" ELSE "idle"
        /\ sector_count' = 0 /\ UNCHANGED <<ramVars, fails, faults>>
    BY DEF EraseError, Erasing
  <1>2. /\ Ordered' /\ NoGaps' /\ Counted' /\ flash' \in [Block -> Contents] /\ sector_count \in Sector
        /\ ValidBlocks' \subseteq ValidBlocks /\ \A b \in ValidBlocks' : flash'[b] = flash[b]
        /\ flash_data = None => ValidBlocks' = {}
        /\ flash_data # None =>
             /\ flash_data \in ValidBlocks'
             /\ \A c \in ValidBlocks' \ {flash_data} : flash'[c].bcc < flash'[flash_data].bcc
    BY <1>1, EraseFacts
  <1>3. TypeOK'
    BY <1>1, <1>2, Constants DEF EepromInv, TypeOK, ramVars
  <1>4. NewestKnown'
    BY <1>1, <1>2 DEF EepromInv, NewestKnown, IsNewest, ramVars
  <1>5. BelowFree'
    BY <1>1 DEF EepromInv, BelowFree, Saving, ramVars
  <1>6. EraseInv' /\ FreeInv' /\ ProgramInv' /\ OffInv' /\ ScanInv'
    BY <1>1 DEF EepromInv, EraseInv, FreeInv, ProgramInv, OffInv, ScanInv, Saving, ramVars
  <1>7. Marked' /\ CleanAhead'
    <2>1. "blank" \notin faults'
      BY <1>1 DEF BlankAlone, EraseError, EepromInv, TypeOK
    <2> QED BY <1>1, <2>1 DEF Marked, CleanAhead
  <1> QED BY <1>2, <1>3, <1>4, <1>5, <1>6, <1>7 DEF EepromInv

-----------------------------------------------------------------------------
(* Programming a block.                                                    *)

\* The free block is not the newest one.
LEMMA FreeIsNotNewest ==
  ASSUME EepromInv, Saving
  PROVE  next_free # flash_data /\ next_free \in Block
  <1>1. next_free \in Block /\ fails \in 0..MaxFails /\ flash_data \in Block \cup {None}
    BY DEF EepromInv, TypeOK, Saving
  <1>2. CASE flash_data = None
    BY <1>1, <1>2, Constants DEF Block
  <1>3. CASE flash_data # None
    <2>1. next_free = flash_data + 1 + fails \/ next_free + NumBlocks = flash_data + 1 + fails
      BY <1>3 DEF EepromInv, FreeInv
    <2> QED BY <1>1, <1>3, <2>1, Constants DEF Block
  <1> QED BY <1>1, <1>2, <1>3

LEMMA NextBlockFacts ==
  ASSUME NEW n \in Block
  PROVE  NextBlock(n) \in Block
         /\ (NextBlock(n) = n + 1 \/ (NextBlock(n) = 0 /\ n + 1 = NumBlocks))
  BY Constants DEF NextBlock, Block

\* The sector of the next block has been written up to it.
LEMMA BelowNext ==
  ASSUME EepromInv, pc = "program", "blank" \notin faults, flash'[next_free].state # "erased",
         \A b \in Block : b # next_free => flash'[b] = flash[b],
         NEW b \in Block, b < NextBlock(next_free), SectorOf(b) = SectorOf(NextBlock(next_free))
  PROVE  flash'[b].state # "erased"
  <1>1. next_free \in Block
    BY DEF EepromInv, TypeOK
  <1>2. NextBlock(next_free) = next_free + 1
    BY <1>1, NextBlockFacts, Constants DEF Block
  <1>3. b = next_free \/ (b < next_free /\ SectorOf(b) = SectorOf(next_free))
    BY <1>1, <1>2, NextInSector
  <1>4. CASE b = next_free
    BY <1>4
  <1>5. CASE b # next_free
    BY <1>3, <1>5 DEF EepromInv, BelowFree, Saving
  <1> QED BY <1>4, <1>5

\* The next block leaves less ahead.
LEMMA AheadNext ==
  ASSUME EepromInv, pc = "program", NEW b \in Block, next_free' = NextBlock(next_free),
         current_sector' = current_sector, next_free' # FirstBlock(current_sector),
         Ahead(b)'
  PROVE  Ahead(b) /\ b # next_free
  <1> DEFINE start == FirstBlock(current_sector)
  <1>1. start \in Nat
    <2>1. current_sector \in Nat
      BY Constants DEF EepromInv, TypeOK, FreeInv, Saving, Sector
    <2> QED BY <2>1, Constants DEF FirstBlock
  <1>2. next_free \in Block /\ start < NumBlocks
    <2>1. current_sector \in Int /\ current_sector + 1 <= MAX_SECTORS
      BY Constants DEF EepromInv, TypeOK, Sector
    <2>2. ASSUME NEW m \in Int, m + 1 <= MAX_SECTORS
          PROVE  m * BLOCKS < MAX_SECTORS * BLOCKS
      <3>1. PICK d \in Nat : MAX_SECTORS = m + 1 + d
        <4>1. MAX_SECTORS - m - 1 \in Nat /\ MAX_SECTORS = m + 1 + (MAX_SECTORS - m - 1)
          BY <2>2, Constants
        <4> QED BY <4>1
      <3>2. MAX_SECTORS * BLOCKS = m * BLOCKS + BLOCKS + d * BLOCKS /\ d * BLOCKS \in Nat
            /\ m * BLOCKS \in Int
        BY <3>1, Constants
      <3> QED BY <3>2, Constants
    <2> QED BY <2>1, <2>2 DEF FirstBlock, NumBlocks, EepromInv, TypeOK
  <1>3. next_free' = next_free + 1 \/ (next_free' = 0 /\ next_free + 1 = NumBlocks)
    BY <1>2, NextBlockFacts
  <1>4. IF next_free' < start THEN next_free' <= b /\ b < start
                              ELSE next_free' <= b \/ b < start
    BY DEF Ahead
  <1>5. next_free' # start
    OBVIOUS
  <1>6. (Ahead(b)) = (IF next_free < start THEN next_free <= b /\ b < start
                      ELSE next_free <= b \/ b < start)
    BY DEF Ahead
  <1> HIDE DEF start
  <1>7. IF next_free < start THEN next_free <= b /\ b < start
                             ELSE next_free <= b \/ b < start
    BY <1>1, <1>2, <1>3, <1>4, <1>5, Constants DEF Block
  <1>8. b # next_free
    BY <1>1, <1>2, <1>3, <1>4, <1>5, Constants DEF Block
  <1> QED BY <1>6, <1>7, <1>8

\* The other blocks of the free block's sector above it are ahead as well.
LEMMA AboveIsAhead ==
  ASSUME EepromInv, pc = "program", NEW b \in Block, next_free < b,
         SectorOf(b) = SectorOf(next_free)
  PROVE  Ahead(b)
  <1> DEFINE start == FirstBlock(current_sector)
  <1>1. next_free \in Nat /\ next_free \in Block /\ b \in Nat /\ start \in Int
    BY Constants DEF FirstBlock, EepromInv, TypeOK, Sector, Block
  <1>2. CASE next_free < start
    <2>1. current_sector \in Sector /\ start \in Nat
      <3>1. FirstBlock(None) < 0
        BY Constants DEF FirstBlock
      <3>2. current_sector # None
        BY <1>1, <1>2, <3>1
      <3> QED BY <1>1, <1>2, <3>2 DEF EepromInv, TypeOK
    <2>2. SectorOf(next_free) # SectorOf(start)
      BY <1>1, <1>2, <2>1, SectorStart
    <2>3. ASSUME start <= b
          PROVE  FALSE
      <3>1. SectorOf(next_free) <= SectorOf(start) /\ SectorOf(start) <= SectorOf(b)
            /\ SectorOf(next_free) \in Nat /\ SectorOf(start) \in Nat
        BY <1>1, <1>2, <2>1, <2>3, SectorMonotone
      <3> QED BY <2>2, <3>1
    <2>4. next_free <= b /\ b < start
      BY <1>1, <2>1, <2>3
    <2> QED BY <1>2, <2>4 DEF Ahead
  <1>3. CASE ~(next_free < start)
    BY <1>1, <1>3 DEF Ahead
  <1> QED BY <1>2, <1>3

LEMMA ProgramErrorStep ==
  ASSUME EepromInv, ProgramError
  PROVE  EepromInv'
  <1>1. /\ pc = "program" /\ fails < MaxFails
        /\ next_free' = NextBlock(next_free) /\ pc' = "idle"
        /\ status' = "WRITE_ERROR" /\ fails' = fails + 1
        /\ UNCHANGED <<flash_data, current_sector, erase_state, bcc, buf, sector_count, faults>>
    BY DEF ProgramError
  <1>2. \/ flash' = [flash EXCEPT ![next_free] = Torn]
        \/ "blank" \in faults /\ flash' = flash
    BY DEF ProgramError
  <1>3. next_free \in Block /\ next_free # flash_data
    BY <1>1, FreeIsNotNewest DEF Saving
  <1>4. /\ Shrinks /\ flash' \in [Block -> Contents]
        /\ "blank" \notin faults => flash'[next_free] = Torn
        /\ \A b \in Block : b # next_free => flash'[b] = flash[b]
    <2>1. CASE flash' = [flash EXCEPT ![next_free] = Torn]
      BY <1>3, <2>1, TornShrinks DEF EepromInv
    <2>2. CASE "blank" \in faults /\ flash' = flash
      BY <2>2 DEF Shrinks, EepromInv, TypeOK
    <2> QED BY <1>2, <2>1, <2>2
  <1>5. Ordered' /\ NoGaps' /\ Counted' /\ ValidBlocks' \subseteq ValidBlocks
        /\ \A b \in ValidBlocks' : flash'[b] = flash[b]
    BY <1>1, <1>4, ShrinkKeeps DEF EepromInv
  <1>6. IF flash_data = None THEN ValidBlocks = {} ELSE IsNewest(flash_data)
    BY <1>1 DEF EepromInv, NewestKnown
  <1>7. flash_data # None => flash'[flash_data] = flash[flash_data]
    BY <1>3, <1>4 DEF EepromInv, TypeOK
  <1>8. /\ flash_data = None => ValidBlocks' = {}
        /\ flash_data # None =>
             /\ flash_data \in ValidBlocks'
             /\ \A c \in ValidBlocks' \ {flash_data} : flash'[c].bcc < flash'[flash_data].bcc
    BY <1>4, <1>6, <1>7, NewestStays DEF EepromInv
  <1>9. TypeOK'
    BY <1>1, <1>3, <1>4, NextBlockFacts, Constants DEF EepromInv, TypeOK, Block
  <1>10. NewestKnown'
    BY <1>1, <1>5, <1>8 DEF EepromInv, NewestKnown, IsNewest
  <1>11. FreeInv'
    <2>1. /\ next_free' = next_free + 1 \/ (next_free' = 0 /\ next_free + 1 = NumBlocks)
          /\ fails \in Nat /\ flash_data \in Block \cup {None} /\ fails < MaxFails
      BY <1>1, <1>3, NextBlockFacts DEF EepromInv, TypeOK
    <2>2. flash_data # None =>
            next_free = flash_data + 1 + fails \/ next_free + NumBlocks = flash_data + 1 + fails
      BY <1>1 DEF EepromInv, FreeInv, Saving
    <2>3. flash_data # None =>
            next_free' = flash_data + 1 + fails' \/ next_free' + NumBlocks = flash_data + 1 + fails'
      BY <1>1, <1>3, <2>1, <2>2, Constants DEF Block
    <2>4. current_sector # None
      BY <1>1 DEF EepromInv, FreeInv, Saving
    <2> QED BY <1>1, <2>3, <2>4 DEF FreeInv
  <1>12. BelowFree'
    <2>1. Torn.state # "erased"
      BY DEF Torn
    <2>2. "blank" \notin faults => \A b \in Block :
            b < next_free' /\ SectorOf(b) = SectorOf(next_free') => flash'[b].state # "erased"
      BY <1>1, <1>4, <2>1, BelowNext
    <2> QED BY <1>1, <2>2 DEF BelowFree
  <1>13. EraseInv' /\ ProgramInv' /\ OffInv' /\ ScanInv'
    BY <1>1 DEF EraseInv, ProgramInv, OffInv, ScanInv
  <1>14. Marked'
    BY <1>1 DEF Marked
  <1>15. CleanAhead'
    <2> SUFFICES ASSUME "blank" \in faults, next_free' # FirstBlock(current_sector),
                        NEW b \in ValidBlocks', Ahead(b)'
                 PROVE  FALSE
      BY <1>1 DEF CleanAhead
    <2>1. b \in ValidBlocks /\ b \in Block
      BY <1>5 DEF ValidBlocks
    <2>2. Ahead(b)
      BY <1>1, <2>1, AheadNext
    <2> QED BY <1>1, <2>1, <2>2 DEF EepromInv, CleanAhead
  <1> QED BY <1>5, <1>9, <1>10, <1>11, <1>12, <1>13, <1>14, <1>15 DEF EepromInv

LEMMA ProgramOkStep ==
  ASSUME EepromInv, ProgramOk
  PROVE  EepromInv'
  <1>1. /\ pc = "program" /\ flash[next_free].state = "erased"
        /\ flash' = [flash EXCEPT ![next_free] = Valid(bcc, buf)]
        /\ flash_data' = next_free /\ next_free' = NextBlock(next_free)
        /\ pc' = "idle" /\ status' = "OK" /\ fails' = 0
        /\ UNCHANGED <<current_sector, erase_state, bcc, buf, sector_count, faults>>
    BY DEF ProgramOk
  <1>2. next_free \in Block /\ bcc \in 0..MaxBcc /\ bcc > 0
    BY <1>1 DEF EepromInv, TypeOK, ProgramInv
  <1>3. /\ flash' \in [Block -> Contents]
        /\ flash'[next_free].state = "valid" /\ flash'[next_free].bcc = bcc
        /\ \A b \in Block : b # next_free => flash'[b] = flash[b]
    <2>1. /\ Valid(bcc, buf) \in Contents
          /\ Valid(bcc, buf).state = "valid" /\ Valid(bcc, buf).bcc = bcc
      BY <1>2 DEF Valid, Contents, EepromInv, TypeOK
    <2> QED BY <1>1, <1>2, <2>1 DEF EepromInv, TypeOK
  <1>4. /\ ValidBlocks' = ValidBlocks \cup {next_free} /\ next_free \notin ValidBlocks
        /\ \A b \in ValidBlocks : flash'[b] = flash[b] /\ flash[b].bcc < bcc /\ flash[b].bcc \in Nat
    <2>1. next_free \notin ValidBlocks /\ ValidBlocks' = ValidBlocks \cup {next_free}
      BY <1>1, <1>2, <1>3 DEF ValidBlocks
    <2>2. \A b \in ValidBlocks : flash'[b] = flash[b]
      BY <1>3, <2>1 DEF ValidBlocks
    <2>3. \A b \in ValidBlocks : flash[b].bcc < bcc /\ flash[b].bcc \in Nat
      BY <1>1, Constants DEF EepromInv, ProgramInv, TypeOK, Contents, ValidBlocks
    <2> QED BY <2>1, <2>2, <2>3
  <1>5. TypeOK'
    BY <1>1, <1>2, <1>3, NextBlockFacts, Constants DEF EepromInv, TypeOK, Block
  <1>6. \A b \in ValidBlocks : SectorOf(b) = SectorOf(next_free) => ~(next_free < b)
    <2> SUFFICES ASSUME NEW b \in ValidBlocks, SectorOf(b) = SectorOf(next_free), next_free < b
                 PROVE  FALSE
      OBVIOUS
    <2>1. CASE "blank" \notin faults
      BY <1>1, <1>2, <2>1 DEF EepromInv, NoGaps
    <2>2. CASE "blank" \in faults
      <3>1. Ahead(b)
        BY <1>1, AboveIsAhead DEF ValidBlocks
      <3> QED BY <1>1, <2>2, <3>1 DEF EepromInv, CleanAhead
    <2> QED BY <2>1, <2>2
  <1>7. Ordered'
    <2> SUFFICES ASSUME NEW a \in ValidBlocks', NEW b \in ValidBlocks',
                        a < b, SectorOf(a) = SectorOf(b)
                 PROVE  flash'[a].bcc < flash'[b].bcc
      BY DEF Ordered
    <2>0. a # b
      BY Constants DEF ValidBlocks, Block
    <2>1. CASE b = next_free
      BY <1>3, <1>4, <2>0, <2>1
    <2>2. CASE b # next_free
      <3>1. b \in ValidBlocks /\ a \in ValidBlocks
        BY <1>4, <1>6, <2>2
      <3> QED BY <1>4, <3>1 DEF EepromInv, Ordered
    <2> QED BY <2>1, <2>2
  <1>8. NoGaps'
    <2> SUFFICES ASSUME "blank" \notin faults, NEW a \in Block, NEW b \in ValidBlocks',
                        a < b, SectorOf(a) = SectorOf(b)
                 PROVE  flash'[a].state # "erased"
      BY <1>1 DEF NoGaps
    <2>0. a # b
      BY Constants DEF ValidBlocks, Block
    <2>1. CASE b = next_free
      <3>1. flash'[a] = flash[a]
        BY <1>3, <2>0, <2>1
      <3> QED BY <1>1, <2>1, <3>1 DEF EepromInv, BelowFree, Saving
    <2>2. CASE b # next_free
      <3>1. b \in ValidBlocks
        BY <1>4, <2>2
      <3>2. flash[a].state # "erased"
        BY <3>1 DEF EepromInv, NoGaps
      <3> QED BY <1>1, <1>3, <3>2
    <2> QED BY <2>1, <2>2
  <1>9. Counted'
    <2>1. \A b \in ValidBlocks' : flash'[b].bcc > 0
      BY <1>2, <1>3, <1>4 DEF EepromInv, Counted
    <2>2. \A a, b \in ValidBlocks' : a # b => flash'[a].bcc # flash'[b].bcc
      <3> SUFFICES ASSUME NEW a \in ValidBlocks', NEW b \in ValidBlocks', a # b
                   PROVE  flash'[a].bcc # flash'[b].bcc
        OBVIOUS
      <3>1. CASE a \in ValidBlocks /\ b \in ValidBlocks
        BY <1>4, <3>1 DEF EepromInv, Counted
      <3>2. CASE a = next_free /\ b \in ValidBlocks
        BY <1>2, <1>3, <1>4, <3>2
      <3>3. CASE a \in ValidBlocks /\ b = next_free
        BY <1>2, <1>3, <1>4, <3>3
      <3> QED BY <1>4, <3>1, <3>2, <3>3
    <2> QED BY <2>1, <2>2 DEF Counted
  <1>10. NewestKnown'
    <2>1. next_free # None
      BY <1>2, Constants DEF Block
    <2>2. \A c \in ValidBlocks' \ {next_free} : flash'[c].bcc < flash'[next_free].bcc
      BY <1>3, <1>4
    <2>3. \A c \in ValidBlocks' : flash'[c].bcc <= bcc
      BY <1>2, <1>3, <1>4
    <2> QED BY <1>1, <1>4, <2>1, <2>2, <2>3 DEF NewestKnown, IsNewest
  <1>11. FreeInv'
    <2>1. current_sector # None
      BY <1>1 DEF EepromInv, FreeInv, Saving
    <2> QED BY <1>1, <1>2, <2>1, NextBlockFacts, Constants DEF FreeInv, Block
  <1>12. BelowFree'
    <2>1. "blank" \notin faults => \A b \in Block :
            b < next_free' /\ SectorOf(b) = SectorOf(next_free') => flash'[b].state # "erased"
      BY <1>1, <1>3, BelowNext
    <2> QED BY <1>1, <2>1 DEF BelowFree
  <1>13. EraseInv' /\ ProgramInv' /\ OffInv' /\ ScanInv'
    BY <1>1 DEF EraseInv, ProgramInv, OffInv, ScanInv
  <1>14. Marked'
    BY <1>1 DEF Marked
  <1>15. CleanAhead'
    <2> SUFFICES ASSUME "blank" \in faults, next_free' # FirstBlock(current_sector),
                        NEW b \in ValidBlocks', Ahead(b)'
                 PROVE  FALSE
      BY <1>1 DEF CleanAhead
    <2>1. b \in Block
      BY DEF ValidBlocks
    <2>2. Ahead(b) /\ b # next_free
      BY <1>1, <2>1, AheadNext
    <2>3. b \in ValidBlocks
      BY <1>4, <2>2
    <2> QED BY <1>1, <2>2, <2>3 DEF EepromInv, CleanAhead
  <1> QED
    BY <1>5, <1>7, <1>8, <1>9, <1>10, <1>11, <1>12, <1>13, <1>14, <1>15 DEF EepromInv

\* Whatever power loss interrupts, flash keeps its valid blocks or loses the
\* ones that are not the newest.
LEMMA PowerLossFacts ==
  ASSUME EepromInv, PowerLoss
  PROVE  Shrinks /\ flash' \in [Block -> Contents]
  <1>1. CASE UNCHANGED flash
    BY <1>1 DEF EepromInv, TypeOK, Shrinks
  <1>2. CASE Erasing /\ MustErase /\ HalfErased(sector_count)
    BY <1>2, EraseFacts DEF PowerLoss
  <1>3. CASE pc = "program" /\ flash' = [flash EXCEPT ![next_free] = Torn]
    <2>1. next_free \in Block
      BY <1>3, FreeIsNotNewest DEF Saving
    <2> QED BY <1>3, <2>1, TornShrinks DEF EepromInv
  <1> QED BY <1>1, <1>2, <1>3 DEF PowerLoss

LEMMA PowerLossStep ==
  ASSUME EepromInv, PowerLoss
  PROVE  EepromInv'
  <1>1. /\ next_free' = 0 /\ flash_data' = None /\ current_sector' = None
        /\ erase_state' = {} /\ bcc' = 0 /\ buf' = Blank
        /\ pc' = "off" /\ sector_count' = 0 /\ status' = "OK" /\ fails' = 0
        /\ faults' = faults
    BY DEF PowerLoss
  <1>2. Shrinks /\ flash' \in [Block -> Contents]
    BY PowerLossFacts
  <1>3. Ordered' /\ NoGaps' /\ Counted'
    BY <1>1, <1>2, ShrinkKeeps DEF EepromInv
  <1>4. TypeOK'
    BY <1>1, <1>2, Constants DEF EepromInv, TypeOK
  <1>5. OffInv' /\ ScanInv' /\ NewestKnown' /\ EraseInv' /\ FreeInv' /\ BelowFree' /\ ProgramInv'
    BY <1>1 DEF OffInv, ScanInv, NewestKnown, EraseInv, FreeInv, BelowFree, ProgramInv, Saving
  <1>6. Marked' /\ CleanAhead'
    BY <1>1 DEF Marked, CleanAhead
  <1> QED BY <1>3, <1>4, <1>5, <1>6 DEF EepromInv

-----------------------------------------------------------------------------
(* The invariant holds in every state.                                     *)

LEMMA InvInit == Init => EepromInv
  <1> SUFFICES ASSUME Init PROVE EepromInv
    OBVIOUS
  <1>1. Erased \in Contents /\ Erased.state = "erased"
    BY Constants DEF Erased, Contents
  <1>2. \A b \in Block : flash[b] = Erased
    BY DEF Init
  <1>3. TypeOK
    BY <1>1, Constants DEF Init, TypeOK, Block
  <1>4. ValidBlocks = {}
    BY <1>1, <1>2 DEF ValidBlocks
  <1>5. Ordered /\ NoGaps /\ Counted
    BY <1>4 DEF Ordered, NoGaps, Counted
  <1>6. /\ OffInv /\ ScanInv /\ NewestKnown /\ EraseInv /\ FreeInv /\ BelowFree /\ ProgramInv
        /\ Marked /\ CleanAhead
    BY DEF Init, OffInv, ScanInv, NewestKnown, EraseInv, FreeInv, BelowFree, ProgramInv,
           Marked, CleanAhead, Saving
  <1> QED BY <1>3, <1>5, <1>6 DEF EepromInv

LEMMA InvStep ==
  ASSUME BlankAlone, EepromInv, [Next]_vars
  PROVE  EepromInv'
  <1>1. CASE PowerOn
    BY <1>1, PowerOnStep
  <1>2. CASE ScanSector
    BY <1>2, ScanSectorStep
  <1>3. CASE ScanDone
    BY <1>3, ScanDoneStep
  <1>4. CASE EraseSkip
    BY <1>4, EraseSkipStep
  <1>5. CASE EraseOk
    BY <1>5, EraseOkStep
  <1>6. CASE EraseError
    BY <1>6, EraseErrorStep
  <1>7. CASE InitEmpty
    BY <1>7, InitEmptyStep
  <1>8. CASE InitFound
    BY <1>8, InitFoundStep
  <1>9. CASE LoadFlashConfig
    BY <1>9, LoadFlashConfigStep
  <1>10. ASSUME NEW c \in Data, Save(c)
         PROVE  EepromInv'
    BY <1>10, StartSaveStep DEF Save
  <1>11. CASE FullEraseDone
    BY <1>11, FullEraseDoneStep
  <1>12. CASE ProgramOk
    BY <1>12, ProgramOkStep
  <1>13. CASE ProgramError
    BY <1>13, ProgramErrorStep
  <1>14. CASE PowerLoss
    BY <1>14, PowerLossStep
  <1>15. CASE UNCHANGED vars
    <2>1. Ordered' /\ NoGaps' /\ Counted' /\ ValidBlocks' = ValidBlocks
      BY <1>15, FlashSame DEF EepromInv, vars
    <2>2. TypeOK'
      BY <1>15 DEF EepromInv, TypeOK, vars, ramVars
    <2>3. NewestKnown' /\ ScanInv' /\ ProgramInv'
      BY <1>15, <2>1 DEF EepromInv, NewestKnown, IsNewest, ScanInv, ProgramInv, vars, ramVars
    <2>4. OffInv' /\ EraseInv' /\ FreeInv' /\ BelowFree'
      BY <1>15 DEF EepromInv, OffInv, EraseInv, FreeInv, BelowFree, Saving, vars, ramVars
    <2>5. Marked' /\ CleanAhead'
      BY <1>15, <2>1 DEF EepromInv, Marked, CleanAhead, Ahead, vars, ramVars
    <2> QED BY <2>1, <2>2, <2>3, <2>4, <2>5 DEF EepromInv
  <1> QED
    BY <1>1, <1>2, <1>3, <1>4, <1>5, <1>6, <1>7, <1>8, <1>9, <1>10, <1>11, <1>12, <1>13,
       <1>14, <1>15 DEF Next

LEMMA Invariant ==
  ASSUME BlankAlone
  PROVE  Spec => []EepromInv
  <1>1. EepromInv /\ [Next]_vars => EepromInv'
    BY InvStep
  <1> QED BY InvInit, <1>1, PTL DEF Spec

\* For every geometry, flash_data_addr is the newest valid block from the end
\* of the scan on, whatever erasing, programming or losing power has left.
THEOREM NewestIsKnown ==
  ASSUME BlankAlone
  PROVE  Spec => []NewestKnown
  <1>1. EepromInv => NewestKnown
    BY DEF EepromInv
  <1> QED BY Invariant, <1>1, PTL

-----------------------------------------------------------------------------
(* The refinement of ConfigStore.                                          *)

\* The choice Stored makes is forced.
LEMMA ChooseNewest ==
  ASSUME NEW f, NEW V, NEW b \in V, \A c \in V : f[c].bcc \in Nat,
         \A c \in V \ {b} : f[c].bcc < f[b].bcc
  PROVE  (CHOOSE x \in V : \A c \in V : f[c].bcc <= f[x].bcc) = b
  <1> DEFINE P(x) == \A c \in V : f[c].bcc <= f[x].bcc
  <1>1. P(b)
    OBVIOUS
  <1>2. \A x \in V : P(x) => x = b
    OBVIOUS
  <1> HIDE DEF P
  <1>3. (CHOOSE x \in V : P(x)) = b
    BY <1>1, <1>2
  <1> QED BY <1>3 DEF P

LEMMA StoredIsNewest ==
  ASSUME TypeOK, NEW b, IsNewest(b)
  PROVE  Stored = flash[b].data
  <1>1. \A c \in ValidBlocks : flash[c].bcc \in Nat
    BY Constants DEF TypeOK, Contents, ValidBlocks
  <1>2. b \in ValidBlocks /\ \A c \in ValidBlocks \ {b} : flash[c].bcc < flash[b].bcc
    BY DEF IsNewest
  <1>3. (CHOOSE x \in ValidBlocks : \A c \in ValidBlocks : flash[c].bcc <= flash[x].bcc) = b
    BY <1>1, <1>2, ChooseNewest
  <1> QED BY <1>2, <1>3 DEF Stored

LEMMA StoredIsNewestNext ==
  ASSUME TypeOK', NEW b, b \in ValidBlocks',
         \A c \in ValidBlocks' \ {b} : flash'[c].bcc < flash'[b].bcc
  PROVE  Stored' = flash'[b].data
  <1>1. \A c \in ValidBlocks' : flash'[c].bcc \in Nat
    BY Constants DEF TypeOK, Contents, ValidBlocks
  <1>2. (CHOOSE x \in ValidBlocks' : \A c \in ValidBlocks' : flash'[c].bcc <= flash'[x].bcc) = b
    BY <1>1, ChooseNewest
  <1> QED BY <1>2 DEF Stored

\* Erasing or spoiling other blocks than the newest keeps the configuration.
LEMMA StoredKept ==
  ASSUME EepromInv, TypeOK', Shrinks,
         IF flash_data = None THEN ValidBlocks = {} ELSE IsNewest(flash_data),
         flash_data # None => flash'[flash_data] = flash[flash_data]
  PROVE  Stored' = Stored
  <1>1. /\ flash_data = None => ValidBlocks' = {}
        /\ flash_data # None =>
             /\ flash_data \in ValidBlocks'
             /\ \A c \in ValidBlocks' \ {flash_data} : flash'[c].bcc < flash'[flash_data].bcc
    BY NewestStays DEF EepromInv
  <1>2. CASE flash_data = None
    BY <1>1, <1>2 DEF Stored
  <1>3. CASE flash_data # None
    <2>1. Stored = flash[flash_data].data
      BY <1>3, StoredIsNewest DEF EepromInv
    <2>2. Stored' = flash'[flash_data].data
      BY <1>1, <1>3, StoredIsNewestNext
    <2> QED BY <1>3, <2>1, <2>2
  <1> QED BY <1>2, <1>3

\* A block spoilt while it is programmed is not the newest.
LEMMA SpoiltKeepsStored ==
  ASSUME EepromInv, TypeOK', pc = "program", flash' = [flash EXCEPT ![next_free] = Torn]
  PROVE  Stored' = Stored
  <1>1. next_free \in Block /\ next_free # flash_data
    BY FreeIsNotNewest DEF Saving
  <1>2. Shrinks /\ \A b \in Block : b # next_free => flash'[b] = flash[b]
    BY <1>1, TornShrinks DEF EepromInv
  <1>3. IF flash_data = None THEN ValidBlocks = {} ELSE IsNewest(flash_data)
    BY DEF EepromInv, NewestKnown
  <1>4. flash_data # None => flash'[flash_data] = flash[flash_data]
    BY <1>1, <1>2 DEF EepromInv, TypeOK
  <1> QED BY <1>2, <1>3, <1>4, StoredKept

LEMMA EraseKeepsStored ==
  ASSUME EepromInv, TypeOK', Erasing, MustErase, faults' = faults,
         \/ HalfErased(sector_count)
         \/ flash' = [b \in Block |-> IF SectorOf(b) = sector_count THEN Erased ELSE flash[b]]
  PROVE  Stored' = Stored
  <1>1. /\ Shrinks
        /\ IF flash_data = None THEN ValidBlocks = {} ELSE IsNewest(flash_data)
        /\ flash_data # None => flash'[flash_data] = flash[flash_data]
    BY EraseFacts
  <1> QED BY <1>1, StoredKept

LEMMA FlashKeepsStored ==
  ASSUME flash' = flash
  PROVE  Stored' = Stored
  BY DEF Stored, ValidBlocks

\* A programmed block becomes the configuration as a whole.
LEMMA CommitStep ==
  ASSUME EepromInv, EepromInv', ProgramOk
  PROVE  Stored' = buf /\ buf' = buf
  <1>1. /\ pc' = "idle" /\ flash_data' = next_free /\ buf' = buf /\ next_free \in Block
        /\ flash' = [flash EXCEPT ![next_free] = Valid(bcc, buf)]
    BY DEF ProgramOk, EepromInv, TypeOK
  <1>2. next_free # None
    BY <1>1, Constants DEF Block
  <1>3. /\ next_free \in ValidBlocks'
        /\ \A c \in ValidBlocks' \ {next_free} : flash'[c].bcc < flash'[next_free].bcc
    BY <1>1, <1>2 DEF EepromInv, NewestKnown, IsNewest
  <1>4. Stored' = flash'[next_free].data
    BY <1>3, StoredIsNewestNext DEF EepromInv
  <1>5. flash'[next_free].data = buf
    BY <1>1 DEF EepromInv, TypeOK, Valid
  <1> QED BY <1>1, <1>4, <1>5

\* RAM holds no configuration until E_EEPROM_XMC4_Init has ended: it gives no
\* other meaning to an empty flash than the store does.
BlankBeforeLoad == pc \in {"off", "scan", "initErase"} => buf = Blank

LEMMA BlankBeforeLoadHolds == Spec => []BlankBeforeLoad
  <1>1. Init => BlankBeforeLoad
    BY DEF Init, BlankBeforeLoad
  <1>2. BlankBeforeLoad /\ [Next]_vars => BlankBeforeLoad'
    <2> SUFFICES ASSUME BlankBeforeLoad, [Next]_vars PROVE BlankBeforeLoad'
      OBVIOUS
    <2> USE DEF BlankBeforeLoad
    <2>1. CASE PowerOn \/ ScanSector \/ ScanDone \/ EraseSkip \/ EraseOk \/ EraseError
      BY <2>1 DEF PowerOn, ScanSector, ScanDone, EraseSkip, EraseOk, EraseError, Erasing,
                  ramVars
    <2>2. CASE InitEmpty \/ InitFound \/ FullEraseDone \/ ProgramOk \/ ProgramError
      BY <2>2 DEF InitEmpty, InitFound, FullEraseDone, ProgramOk, ProgramError
    <2>3. ASSUME NEW c, StartSave(c) PROVE BlankBeforeLoad'
      BY <2>3 DEF StartSave, UpdateFlashContents
    <2>4. CASE LoadFlashConfig
      BY <2>3, <2>4 DEF LoadFlashConfig
    <2>5. CASE \E c \in Data : Save(c)
      BY <2>3, <2>5 DEF Save
    <2>6. CASE PowerLoss
      BY <2>6 DEF PowerLoss
    <2>7. CASE UNCHANGED vars
      BY <2>7 DEF vars, ramVars
    <2> QED BY <2>1, <2>2, <2>4, <2>5, <2>6, <2>7 DEF Next
  <1> QED BY <1>1, <1>2, PTL DEF Spec

\* The end of a scan that found no valid block loads the store's Blank.
LEMMA LoadEmpty ==
  ASSUME EepromInv, BlankBeforeLoad, InitEmpty
  PROVE  Store!Load
  <1>1. ~Up /\ Up' /\ flash' = flash /\ buf' = Blank
    BY DEF InitEmpty, Up, BlankBeforeLoad
  <1>2. ValidBlocks = {}
    BY DEF InitEmpty, EepromInv, NewestKnown
  <1>3. Stored = Blank
    BY <1>2 DEF Stored
  <1> QED BY <1>1, <1>3, FlashKeepsStored DEF Store!Load

\* The end of a scan that found one loads its contents, unless the driver
\* reports OLD_DATA and the firmware stops.
LEMMA LoadNewest ==
  ASSUME EepromInv, InitFound
  PROVE  Store!Load \/ UNCHANGED Store!vars
  <1>1. flash' = flash /\ buf' = flash[flash_data].data /\ IsNewest(flash_data)
    BY DEF InitFound, EepromInv, NewestKnown
  <1>2. buf' = Stored /\ Stored' = Stored
    BY <1>1, StoredIsNewest, FlashKeepsStored DEF EepromInv
  <1>3. ~Up /\ pc' \in {"dead", "load"}
    BY DEF InitFound, Up
  <1>4. CASE pc' = "load"
    BY <1>2, <1>3, <1>4 DEF Up, Store!Load
  <1>5. CASE pc' = "dead"
    BY <1>2, <1>3, <1>5 DEF Up, Store!vars
  <1> QED BY <1>3, <1>4, <1>5

LEMMA StoreStep ==
  ASSUME EepromInv, EepromInv', BlankBeforeLoad, [Next]_vars
  PROVE  [Store!Next]_(Store!vars)
  <1> USE DEF Store!vars
  <1>0. TypeOK'
    BY DEF EepromInv
  <1>1. CASE PowerOn \/ ScanSector \/ ScanDone \/ EraseSkip \/ FullEraseDone
    <2>1. flash' = flash /\ buf' = buf /\ Up' = Up
      BY <1>1 DEF PowerOn, ScanSector, ScanDone, EraseSkip, FullEraseDone, ramVars, Up
    <2> QED BY <2>1, FlashKeepsStored
  <1>2. CASE EraseOk
    <2>1. Stored' = Stored
      BY <1>0, <1>2, EraseKeepsStored DEF EraseOk
    <2>2. buf' = buf /\ Up' = Up
      BY <1>2 DEF EraseOk, Up
    <2> QED BY <2>1, <2>2
  <1>3. CASE EraseError
    <2>1. Stored' = Stored
      BY <1>0, <1>3, EraseKeepsStored DEF EraseError
    <2>2. buf' = buf /\ Up' = Up
      BY <1>3 DEF EraseError, Erasing, ramVars, Up
    <2> QED BY <2>1, <2>2
  <1>4. CASE InitEmpty \/ InitFound
    BY <1>4, LoadEmpty, LoadNewest DEF Store!Next
  <1>5. ASSUME NEW c \in Data, StartSave(c), Up
        PROVE  Store!Next
    <2>1. buf' = c /\ Stored' = Stored
      BY <1>5, FlashKeepsStored DEF StartSave
    <2>2. Up'
      BY <1>5 DEF StartSave, UpdateFlashContents, Up
    <2>3. Store!Write(c)
      BY <1>5, <2>1, <2>2 DEF Store!Write
    <2> QED BY <2>3 DEF Store!Next
  <1>6. CASE LoadFlashConfig
    <2>1. CASE StartSave(DefaultConfig)
      BY <1>5, <1>6, <2>1, EepromAssumption DEF LoadFlashConfig, Up
    <2>2. CASE pc' = "idle" /\ UNCHANGED <<flash, ramVars>>
      BY <1>6, <2>2, FlashKeepsStored DEF LoadFlashConfig, ramVars, Up
    <2> QED BY <1>6, <2>1, <2>2 DEF LoadFlashConfig
  <1>7. ASSUME NEW c \in Data, Save(c)
        PROVE  Store!Next
    BY <1>5, <1>7 DEF Save, Up
  <1>8. CASE ProgramOk
    <2>1. Up /\ Up'
      BY <1>8 DEF ProgramOk, Up
    <2> QED BY <1>8, <2>1, CommitStep DEF Store!Next, Store!Commit
  <1>9. CASE ProgramError
    <2>1. /\ pc = "program" /\ buf' = buf
          /\ flash' = [flash EXCEPT ![next_free] = Torn] \/ flash' = flash
      BY <1>9 DEF ProgramError
    <2>2. Stored' = Stored
      BY <1>0, <2>1, SpoiltKeepsStored, FlashKeepsStored
    <2>3. Up' = Up
      BY <1>9 DEF ProgramError, Up
    <2> QED BY <2>1, <2>2, <2>3
  <1>10. CASE PowerLoss
    <2>1. Stored' = Stored
      <3>1. CASE UNCHANGED flash
        BY <3>1, FlashKeepsStored
      <3>2. CASE Erasing /\ MustErase /\ HalfErased(sector_count)
        BY <1>0, <1>10, <3>2, EraseKeepsStored DEF PowerLoss
      <3>3. CASE pc = "program" /\ flash' = [flash EXCEPT ![next_free] = Torn]
        BY <1>0, <3>3, SpoiltKeepsStored
      <3> QED BY <1>10, <3>1, <3>2, <3>3 DEF PowerLoss
    <2>2. Up' = FALSE
      BY <1>10 DEF PowerLoss, Up
    <2>3. CASE Up
      BY <2>1, <2>2, <2>3 DEF Store!Next, Store!PowerLoss
    <2>4. CASE ~Up
      <3>1. Up = FALSE
        BY <2>4 DEF Up
      <3> QED BY <2>1, <2>2, <3>1
    <2> QED BY <2>3, <2>4
  <1>11. CASE UNCHANGED vars
    BY <1>11, FlashKeepsStored DEF vars, ramVars, Up
  <1> QED
    BY <1>1, <1>2, <1>3, <1>4, <1>6, <1>7, <1>8, <1>9, <1>10, <1>11 DEF Next

\* For every geometry, the emulation implements one durable configuration that
\* only a completed save replaces, and that every start which succeeds loads:
\* scans, erasures, failures and power losses at any point are invisible or
\* lose RAM only.
THEOREM Refinement ==
  ASSUME BlankAlone
  PROVE  Spec => ImplementsStore
  <1>1. Init => Store!Init
    <2> SUFFICES ASSUME Init PROVE Store!Init
      OBVIOUS
    <2>1. ValidBlocks = {}
      BY DEF Init, ValidBlocks, Erased
    <2> QED BY <2>1 DEF Init, Store!Init, Stored, Up
  <1>2. /\ EepromInv /\ EepromInv' /\ BlankBeforeLoad
        /\ [Next]_vars
        => [Store!Next]_(Store!vars)
    BY StoreStep
  <1> QED
    BY Invariant, BlankBeforeLoadHolds, <1>1, <1>2, PTL DEF Spec, ImplementsStore, Store!Spec
=============================================================================
