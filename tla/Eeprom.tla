------------------------------- MODULE Eeprom -------------------------------
(***************************************************************************)
(* The flash-emulated EEPROM (E_EEPROM_XMC4, e_eeprom_xmc4.c) that keeps   *)
(* the configuration across power cycles, with the calls main.c makes.     *)
(*                                                                         *)
(* Flash is MAX_SECTORS sectors of BLOCKS blocks, numbered 0, 1, 2, ...    *)
(* through the sectors; block b stands for the address of its first word.  *)
(* Each save programs the whole RAM buffer, with a block cycle count one   *)
(* higher than the last, into the next free block.  When that would enter  *)
(* the sector the current cycle started in, all sectors but the one of the *)
(* newest block are erased first.                                          *)
(*                                                                         *)
(* Erasing a sector and programming a block take many flash operations:    *)
(* power may be lost in the middle of either, and either may report an     *)
(* error.  A page of flash is programmed completely or not at all, and     *)
(* programming a block that is not erased never leaves a valid block and   *)
(* is reported as an error.                                                *)
(***************************************************************************)
EXTENDS Integers, FiniteSets

CONSTANTS
  MAX_SECTORS,   \* 4 in the code
  BLOCKS,        \* blocks in a sector: 4 for the block size configured
  Data,          \* configurations (config_t)
  DefaultConfig, \* what load_flash_config saves when flash is empty
  Blank,         \* contents of the RAM buffer before anything is loaded
  MaxBcc,        \* bound: saves attempted
  MaxFails,      \* bound: programming errors in a row
  FaultSets      \* the sets of faults considered, one for a behaviour

\* "erase": erasing a sector may fail; "blank": a programming that fails may
\* leave its block erased.
FaultKinds == {"erase", "blank"}

NumBlocks == MAX_SECTORS * BLOCKS
Block     == 0..(NumBlocks - 1)
Sector    == 0..(MAX_SECTORS - 1)
None      == -1       \* no block, no sector

ASSUME EepromAssumption ==
  /\ MAX_SECTORS \in Nat \ {0, 1}
  /\ BLOCKS \in Nat \ {0}
  /\ DefaultConfig \in Data
  /\ Blank \notin Data
  /\ MaxBcc \in Nat
  /\ MaxFails \in Nat
  /\ MaxFails < NumBlocks - 1
  /\ FaultSets \subseteq SUBSET FaultKinds

SectorOf(b)   == b \div BLOCKS
FirstBlock(s) == s * BLOCKS
BlocksOf(s)   == {b \in Block : SectorOf(b) = s}

\* What a block reads as: all zero, anything whose CRC does not match, or a
\* cycle count and a configuration under a matching CRC.
Erased        == [state |-> "erased", bcc |-> 0, data |-> Blank]
Torn          == [state |-> "torn", bcc |-> 0, data |-> Blank]
Valid(n, c)   == [state |-> "valid", bcc |-> n, data |-> c]
Contents      == [state : {"erased", "torn", "valid"}, bcc : 0..MaxBcc,
                  data : Data \cup {Blank}]

VARIABLES
  flash,         \* the blocks
  (* RAM: e_eeprom_xmc4_sector_info *)
  next_free,     \* next_free_start_addr
  flash_data,    \* flash_data_addr: the newest valid block, or None
  current_sector,
  erase_state,   \* sectors marked as not empty
  (* RAM: e_eeprom_xmc4_data_buffer *)
  bcc,           \* block_cycle_count
  buf,           \* eeprom_data
  (* control *)
  pc,            \* "off", "scan", "initErase", "load", "idle", "fullErase",
                 \* "program", or "dead": main's while(1) after a failed init
  sector_count,  \* the loop variable of the scan and of the erase loop
  status,        \* status of the last E_EEPROM_XMC4 call that returned one
  fails,         \* programming errors since the last success or power-up
  faults         \* what may go wrong besides a failed programming

ramVars == <<next_free, flash_data, current_sector, erase_state, bcc, buf>>
vars    == <<flash, ramVars, pc, sector_count, status, fails, faults>>

Init ==
  /\ flash = [b \in Block |-> Erased]
  /\ next_free = 0 /\ flash_data = None /\ current_sector = None
  /\ erase_state = {} /\ bcc = 0 /\ buf = Blank
  /\ pc = "off" /\ sector_count = 0 /\ status = "OK" /\ fails = 0
  /\ faults \in FaultSets

-----------------------------------------------------------------------------
(* E_EEPROM_XMC4_Init                                                      *)

PowerOn ==
  /\ pc = "off"
  /\ pc' = "scan"
  /\ UNCHANGED <<flash, ramVars, sector_count, status, fails, faults>>

Highest(S) == CHOOSE b \in S : \A c \in S : c <= b

\* Mutant of ReadSectorInfo: a valid block is taken to be the newest without
\* comparing its cycle count.
ReadSectorInfoMutant ==
  LET inUse == {b \in BlocksOf(sector_count) : flash[b].state # "erased"}
      valid == {b \in inUse : flash[b].state = "valid"}
  IN  /\ erase_state' = IF inUse = {} THEN erase_state
                        ELSE erase_state \cup {sector_count}
      /\ IF valid = {}
           THEN UNCHANGED <<next_free, flash_data, current_sector, bcc>>
           ELSE /\ flash_data' = Highest(valid)
                /\ bcc' = flash[flash_data'].bcc
                /\ current_sector' = sector_count
                /\ next_free' = Highest(inUse) + 1

\* E_EEPROM_XMC4_lInitReadSectorInfo(sector_count): blocks are read from the
\* last one down; the first valid one that is newer than every block found so
\* far ends the search, and writing will go on after the last non-empty one.
ReadSectorInfo ==
  LET inUse == {b \in BlocksOf(sector_count) : flash[b].state # "erased"}
      newer == {b \in inUse : flash[b].state = "valid" /\ flash[b].bcc > bcc}
  IN  /\ erase_state' = IF inUse = {} THEN erase_state
                        ELSE erase_state \cup {sector_count}
      /\ IF newer = {}
           THEN UNCHANGED <<next_free, flash_data, current_sector, bcc>>
           ELSE /\ flash_data' = Highest(newer)
                /\ bcc' = flash[flash_data'].bcc
                /\ current_sector' = sector_count
                /\ next_free' = Highest(inUse) + 1

ScanSector ==
  /\ pc = "scan" /\ sector_count < MAX_SECTORS
  /\ ReadSectorInfo
  /\ sector_count' = sector_count + 1
  /\ UNCHANGED <<flash, buf, pc, status, fails, faults>>

ScanDone ==
  /\ pc = "scan" /\ sector_count = MAX_SECTORS
  /\ pc' = "initErase" /\ sector_count' = 0
  /\ UNCHANGED <<flash, ramVars, status, fails, faults>>

\* E_EEPROM_XMC4_lInitEraseStateMachine, one turn of its loop: at Init and
\* again when all sectors are full.
Erasing == pc \in {"initErase", "fullErase"} /\ sector_count < MAX_SECTORS

MustErase == sector_count # current_sector /\ sector_count \in erase_state

EraseSkip ==
  /\ Erasing /\ ~MustErase
  /\ sector_count' = sector_count + 1
  /\ UNCHANGED <<flash, ramVars, pc, status, fails, faults>>

EraseOk ==
  /\ Erasing /\ MustErase
  /\ flash' = [b \in Block |-> IF SectorOf(b) = sector_count THEN Erased ELSE flash[b]]
  /\ erase_state' = erase_state \ {sector_count}
  /\ sector_count' = sector_count + 1
  /\ UNCHANGED <<next_free, flash_data, current_sector, bcc, buf, pc, status, fails, faults>>

\* A sector whose erasure stopped half way.  A sector is erased as a whole:
\* either nothing has happened to it, or no block of it kept its contents and
\* each reads as erased or as garbage.
HalfErased(s) ==
  \/ UNCHANGED flash
  \/ \E left \in [BlocksOf(s) -> {Torn, Erased}] :
       flash' = [b \in Block |-> IF b \in BlocksOf(s) THEN left[b] ELSE flash[b]]

\* During Init the error makes DAVE_Init fail and main loops for ever; during
\* a save it makes the save fail.
EraseError ==
  /\ "erase" \in faults
  /\ Erasing /\ MustErase
  /\ HalfErased(sector_count)
  /\ status' = "ERASE_ERROR"
  /\ pc' = IF pc = "initErase" THEN "dead" ELSE "idle"
  /\ sector_count' = 0
  /\ UNCHANGED <<ramVars, fails, faults>>

\* The end of Init when no block is valid.
InitEmpty ==
  /\ pc = "initErase" /\ sector_count = MAX_SECTORS
  /\ flash_data = None
  /\ current_sector' = 0 /\ next_free' = 0
  /\ pc' = "load" /\ sector_count' = 0 /\ status' = "OK"
  /\ UNCHANGED <<flash, flash_data, erase_state, bcc, buf, fails, faults>>

\* The end of Init otherwise: E_EEPROM_XMC4_lCopyFlashToRam, and an error if
\* the newest valid block is not the last one written in its sector.
InitFound ==
  /\ pc = "initErase" /\ sector_count = MAX_SECTORS
  /\ flash_data # None
  /\ buf' = flash[flash_data].data
  /\ bcc' = flash[flash_data].bcc
  /\ IF next_free - flash_data # 1
       THEN status' = "ERROR_OLD_DATA" /\ pc' = "dead"
       ELSE status' = "OK" /\ pc' = "load"
  /\ next_free' = IF next_free >= NumBlocks THEN 0 ELSE next_free
  /\ sector_count' = 0
  /\ UNCHANGED <<flash, flash_data, current_sector, erase_state, fails, faults>>

-----------------------------------------------------------------------------
(* Saving.                                                                 *)

\* Mutant of UpdateFlashContents: current_sector stays the sector in which the
\* cycle started, so the erase loop does not spare the newest block.
UpdateFlashContentsMutant ==
  IF next_free = FirstBlock(current_sector) /\ bcc # 0
    THEN /\ erase_state' = Sector
         /\ pc' = "fullErase"
         /\ UNCHANGED <<current_sector, bcc>>
    ELSE /\ pc' = "program"
         /\ bcc' = bcc + 1
         /\ UNCHANGED <<current_sector, erase_state>>

\* E_EEPROM_XMC4_UpdateFlashContents up to the programming of the block.  The
\* code takes the sector of an empty flash_data_addr to be sector 0.
UpdateFlashContents ==
  IF next_free = FirstBlock(current_sector) /\ bcc # 0
    THEN /\ current_sector' = IF flash_data = None THEN 0 ELSE SectorOf(flash_data)
         /\ erase_state' = Sector
         /\ pc' = "fullErase"
         /\ bcc' = bcc
    ELSE /\ pc' = "program"
         /\ bcc' = bcc + 1
         /\ UNCHANGED <<current_sector, erase_state>>

\* write_flash_config of a configuration that differs from the RAM buffer.
StartSave(c) ==
  /\ bcc < MaxBcc
  /\ c # buf
  /\ buf' = c
  /\ UpdateFlashContents
  /\ sector_count' = 0
  /\ UNCHANGED <<flash, next_free, flash_data, status, fails, faults>>

Save(c) == pc = "idle" /\ StartSave(c)

\* load_flash_config: use what Init loaded, or save the defaults.
LoadFlashConfig ==
  /\ pc = "load"
  /\ \/ flash_data = None /\ StartSave(DefaultConfig)
     \/ /\ flash_data # None
        /\ pc' = "idle"
        /\ UNCHANGED <<flash, ramVars, sector_count, status, fails, faults>>

FullEraseDone ==
  /\ pc = "fullErase" /\ sector_count = MAX_SECTORS
  /\ pc' = "program" /\ sector_count' = 0
  /\ bcc' = bcc + 1
  /\ UNCHANGED <<flash, next_free, flash_data, current_sector, erase_state, buf, status, fails, faults>>

\* Mutant of NextBlock: the end of the last sector is not noticed.
NextBlockMutant(b) == b + 1

NextBlock(b) == IF b + 1 >= NumBlocks THEN 0 ELSE b + 1

\* E_EEPROM_XMC4_lWriteToFlash succeeds.
ProgramOk ==
  /\ pc = "program"
  /\ flash[next_free].state = "erased"
  /\ flash' = [flash EXCEPT ![next_free] = Valid(bcc, buf)]
  /\ flash_data' = next_free
  /\ next_free' = NextBlock(next_free)
  /\ pc' = "idle" /\ status' = "OK" /\ fails' = 0
  /\ UNCHANGED <<current_sector, erase_state, bcc, buf, sector_count, faults>>

\* E_EEPROM_XMC4_lWriteToFlash reports WRITE_ERROR: the block is given up.
\* Its pages up to the bad one are programmed; that may be none of them.
ProgramError ==
  /\ pc = "program"
  /\ fails < MaxFails
  /\ \/ flash' = [flash EXCEPT ![next_free] = Torn]
     \/ "blank" \in faults /\ flash[next_free].state = "erased" /\ UNCHANGED flash
  /\ next_free' = NextBlock(next_free)
  /\ pc' = "idle" /\ status' = "WRITE_ERROR" /\ fails' = fails + 1
  /\ UNCHANGED <<flash_data, current_sector, erase_state, bcc, buf, sector_count, faults>>

-----------------------------------------------------------------------------
\* Power is lost: RAM is gone, and what was being erased or programmed is
\* left half way.
PowerLoss ==
  /\ pc # "off"
  /\ \/ UNCHANGED flash
     \/ Erasing /\ MustErase /\ HalfErased(sector_count)
     \/ pc = "program" /\ flash' = [flash EXCEPT ![next_free] = Torn]
  /\ next_free' = 0 /\ flash_data' = None /\ current_sector' = None
  /\ erase_state' = {} /\ bcc' = 0 /\ buf' = Blank
  /\ pc' = "off" /\ sector_count' = 0 /\ status' = "OK" /\ fails' = 0
  /\ UNCHANGED faults

Next ==
  \/ PowerOn \/ ScanSector \/ ScanDone
  \/ EraseSkip \/ EraseOk \/ EraseError
  \/ InitEmpty \/ InitFound
  \/ LoadFlashConfig
  \/ \E c \in Data : Save(c)
  \/ FullEraseDone \/ ProgramOk \/ ProgramError
  \/ PowerLoss

Spec == Init /\ [][Next]_vars

-----------------------------------------------------------------------------
(* Properties.                                                             *)

\* Every variable stays in its range; the free block is one of flash's blocks
\* except while the scan of E_EEPROM_XMC4_Init may point it past the last.
TypeOK ==
  /\ flash \in [Block -> Contents]
  /\ next_free \in 0..NumBlocks
  /\ pc \in {"load", "idle", "fullErase", "program"} => next_free \in Block
  /\ flash_data \in Block \cup {None}
  /\ current_sector \in Sector \cup {None}
  /\ erase_state \subseteq Sector
  /\ bcc \in 0..MaxBcc
  /\ buf \in Data \cup {Blank}
  /\ pc \in {"off", "scan", "initErase", "load", "idle", "fullErase", "program", "dead"}
  /\ sector_count \in 0..MAX_SECTORS
  /\ status \in {"OK", "ERROR_OLD_DATA", "WRITE_ERROR", "ERASE_ERROR"}
  /\ fails \in 0..MaxFails
  /\ faults \in FaultSets

ValidBlocks == {b \in Block : flash[b].state = "valid"}

IsNewest(b) == b \in ValidBlocks /\ \A c \in ValidBlocks \ {b} : flash[c].bcc < flash[b].bcc

\* Once E_EEPROM_XMC4_Init has scanned flash, and through every save, erase
\* and failure after it, flash_data_addr designates the one valid block with
\* the highest cycle count, or nothing if no block is valid, and no block has
\* a higher count than the one in RAM.
NewestKnown ==
  pc \in {"initErase", "load", "idle", "fullErase", "program"} =>
    /\ IF flash_data = None THEN ValidBlocks = {} ELSE IsNewest(flash_data)
    /\ \A b \in ValidBlocks : flash[b].bcc <= bcc

\* The configuration flash holds: that of the newest valid block.
Stored ==
  IF ValidBlocks = {} THEN Blank
  ELSE flash[CHOOSE b \in ValidBlocks : \A c \in ValidBlocks : flash[c].bcc <= flash[b].bcc].data

\* E_EEPROM_XMC4_Init has succeeded, and power has not been lost since.
Up == pc \in {"load", "idle", "fullErase", "program"}

Store == INSTANCE ConfigStore WITH stored <- Stored, up <- Up,
                                   ram <- IF Up THEN buf ELSE Blank

\* The blocks, scans and erasures implement one durable configuration: only a
\* completed save changes it, all at once, to what RAM holds; losing power at
\* any moment of a scan, an erasure or a programming leaves it as it was; and
\* an E_EEPROM_XMC4_Init that succeeds has loaded exactly it into RAM, which
\* then changes by the firmware's own writes only.
ImplementsStore == Store!Spec

\* E_EEPROM_XMC4_STATUS_ERROR_OLD_DATA is documented as an initialization that
\* succeeded, with the previous block: the firmware then runs.
OldDataStillBoots == status = "ERROR_OLD_DATA" => pc # "dead"
=============================================================================
