# Launch-DAQ in TLA+

TLA+ models of the Launch-DAQ firmware (an Infineon XMC4 board that reads two
ADCs and four thermocouples and streams them over UDP, configured over TFTP),
TLC runs on small instances, and TLAPS proofs of almost every safety property
the runs check.

## 1. The system

The firmware's own logic is `src/main.c`; the drivers under
`src/Dave/Generated` come from the DAVE code generator. It has one main loop
and interrupts, no operating system.

| component | state | operations | talks to |
|---|---|---|---|
| TFTP server (`main.c` 97-145, 312-578) | `curr_block`, `tftp_buff`, `tftp_send`, `ack_num`, `last_addr`, the pbuf `tftp_p` | `tftp_recv` (Ethernet interrupt), `tftp_send_data` (main loop) | parser, EEPROM, interface |
| command parser (`main.c` 173-310) | `flash` (`config_t` in RAM) | `parse_config_commands` | `local_udp_reset`, `write_flash_config`, reset |
| flash-emulated EEPROM (`e_eeprom_xmc4.c`) | flash blocks; `next_free_start_addr`, `flash_data_addr`, `current_sector`, `erase_state`, RAM buffer with cycle count | Init (scan, erase, load), WriteArray, UpdateFlashContents | flash controller |
| acquisition (`main.c` 669-675, 749-848) | `read_*` flags, packet headers and data, `sequence_number`, `tc_index` | main loop branches, `ADC0_DRDY_INT`, `ADC1_DRDY_INT`, `TCIRQ` | SPI driver, `send_data` |
| SPI driver (`spi_master.c`, `spi_master_conf.c`) | `rx_busy`, `tx_busy`, buffer pointers, DMA channels | Transfer, Receive, Transmit, DMA completion handlers | DMA |
| reset (`main.c` 298-305, 925-936) | - | `adc_soft_reset`, `NVIC_SystemReset` | SPI driver |
| ADC bring-up (`main.c` 712-733, 849-963) | - | `adc_register_config`, `xmc_ADC_setup`: 30 transfers before the loop | SPI driver |
| Ethernet driver (`ethernetif.c` on `xmc_eth_mac.c`) | receive and transmit descriptor rings, indices, the link state | `low_level_output` (main and interrupts), `low_level_input`, `ethernetif_input`, the interrupt, `ethernetif_link_status` (SysTick) | lwIP, DMA, PHY |
| lwIP (third-party) | pbufs and their payload pointers, the receive pool | `udp_sendto_if` and below, pbuf allocation, call of `tftp_recv` | Ethernet driver |
| time stamps (`TimeStampIRQ`, TIMER) | `millisec`, a hardware counter | one interrupt, two readings per stamp | acquisition, TFTP time-out |
| SYSTIMER (`systimer.c`) | `g_timer_list`, `g_timer_tbl`, `g_timer_tracker` | SysTick handler; create, start, stop, restart, delete | link supervision, lwIP time-outs |
| generated set-up, vendor libraries | - | register set-up | - |

Interrupt priorities matter: the thermocouple timer has 61, ADC1's data-ready
62, and everything else (Ethernet, DMA, time stamp, ADC0, SysTick) 63, so these
do not preempt one another.

What is hard here: `tftp_recv` runs inside the Ethernet interrupt while the main
loop uses the same variables and the same transmit pbuf; datagrams are lost,
repeated and mixed between clients; a save of the configuration is many flash
operations, any of which can be cut short by a power failure or fail; SPI
transfers run by DMA while main copies the buffers they fill; two ADCs share
one bus; the reset command waits inside an interrupt; the driver's transmit
function is entered from main and from interrupts, and lwIP's payload pointers
move in pbufs that are sent again and again; interrupts of one priority hold off
one another, and with them the clocks. `PROJECT.json` lists each
hazard at its line.

What makes each part correct: the server's buffer holds each block of a transfer
once and in order whatever arrives, and its replies are true; a read ends; the parser does what
the help text says line by line; the EEPROM looks like one value that is replaced
atomically, and that every start loads; no SPI transfer is refused or goes to the wrong device, and no packet
has a measurement newer than its time stamp; each ADC receives its own commands
in order; no source is starved; no frame is forgotten in the receive ring, no
accepted measurement is lost, changed or left asleep in the transmit ring; a stamp
is right to a millisecond; every software timer expires at its tick, and the
handler that serves them ends; a reset resets.

## 2. Modules

| module | models | role |
|---|---|---|
| `ConfigCommands` | what `parse_config_commands` does with a whole file | operators, used by `TftpServer` and `ConfigParser` |
| `ConfigParser`, `MCConfigParser` | its loop, one line per step | shown to compute `ConfigCommands` |
| `TftpServer`, `MCTftpServer` | `tftp_recv`, `tftp_send_data`, main's call of it | composes the parser, the save and the interface address |
| `ConfigStore` | what a configuration store promises | abstract specification |
| `Eeprom`, `MCEeprom` | the EEPROM driver with `load_flash_config` and `write_flash_config` | implements `ConfigStore` |
| `Acquisition` | ADC bring-up, main loop, data-ready interrupts, SPI transfers by DMA | composes main.c and SPI_MASTER |
| `ResetCommand` | `adc_soft_reset` in the Ethernet interrupt | |
| `EthernetIf` | the Ethernet driver, the path of a datagram through lwIP, link supervision | composes main's sends, the interrupts and the DMA |
| `TimerService` | what a set of software timers promises | abstract specification |
| `SysTimer` | the delta list of `systimer.c` and its API | implements `TimerService` |
| `Clocks` | SysTick, `TimeStampIRQ`, the stamping handlers and the Ethernet interrupt on one processor | composes `SysTimer` with the time stamps |
| `ConfigCommandsProofs`, `TftpServerProofs`, `ConfigParserProofs`, `EepromProofs`, `AcquisitionProofs`, `EthernetIfProofs`, `SysTimerProofs`, `ClocksProofs` | - | theorems about the module they are named after |

**TftpServer.** `tftp_recv` runs to completion, so each way through it (each
early return, and the fall-through of the size check) is one action
`Recv...(pkt)`. The steps of `tftp_send_data` between which an interrupt can
change what they use are actions `Main...`; sending a datagram is two of them
(`MainSend`, `MainSent`), because `low_level_output` copies `tftp_p` with interrupts
enabled and a reply may be built in it meanwhile (`Frame`). The network is the set `Packets`:
any packet may arrive at any time, which covers loss, repetition, delay,
reordering and several clients. The buffer is a sequence of cells, each a whole
command or a half of one that a block boundary cuts. The block numbers are
natural numbers; that the code's 16-bit counter cannot wrap follows from
`BlocksOnceInOrder` (at most 8 blocks fit). The EEPROM is represented by what a save
returns and by the block a start would load; `Eeprom` models the rest (a start
that fails is an action there and not in `TftpServer`).
`RecvDataFault` stands for the `memcpy` of a negative length: the processor
faults and only a power cycle helps. `RecvDataReset` leaves the server spinning
in `adc_soft_reset`; `ResetCommand` shows that it stays there. `got`, `left_over`
and `out` are history variables: the numbers of the blocks that went into the
buffer since the write request, how much of the buffer is of abandoned transfers,
and the datagrams the last step sent.

**Eeprom.** Blocks are numbered through the sectors; a block is erased, torn
(its CRC does not match) or valid with a cycle count and a configuration. Scan,
erase loop and programming are separate actions, and power may be lost between
and during any of them. Assumptions about the flash hardware: a page is
programmed completely or not at all; programming a block that is not erased is
reported as an error and does not leave a valid block; a sector whose erasure
was cut short is untouched or none of its blocks kept its contents. A variable
`faults` says which errors a behaviour may have: `"erase"`, the erasure of a sector may report
an error, and `"blank"`, a failed programming may leave its block erased (its
first page failed). The pages of one block are one step: the CRC covers them, so
only all of them make a valid block.

**Acquisition.** main first asks for the 30 transfers of the bring-up, each after
it has waited for `rx_busy`; then the data-ready interrupts are enabled and the
loop begins. What reaches an ADC is the command of a transfer at the moment its
last byte goes out, on the device selected then. Time and measurements are event numbers: the n-th data-ready
interrupt of a source stamps n, and a transfer fetches the newest measurement
there is when it starts. A DMA transfer is started, receives (the buffer is
then a mixture), has sent, and is done; the two completion interrupts are
separate. `send_data` copies the header's two stamps and the data in separate
steps, because interrupts and DMA change them. Main runs only when no DMA
interrupt is pending.

**EthernetIf.** The DMA takes receive descriptors in order and sets the MAC's
event; the interrupt clears it, then takes frames until there is none, or until
`low_level_input` returns NULL for another reason (`IrqLose`). What a frame is
is chosen when the driver looks at it: dropped, for lwIP (which may answer), or
for `tftp_recv`, which keeps the pbuf. Main's `udp_sendto_if` is a chain of
steps: three headers that each move the payload pointer, or fail, or go to a
chained pbuf; then `low_level_output` from the look at the descriptor to the
poll demand. An interrupt runs between any two of them and may use the same
ring and the same `tftp_p`. The event is a level: it keeps the interrupt
pending until it is cleared. A reply is written to `tftp_p` before it is known
whether its headers fit (`WriteReply`): also one that is then dropped changes the
datagram main is sending from the same pbuf (`rewritten`). `queue`, `raced`,
`spoiled`, `cut` and `dropped` are history variables.

**SysTimer** and **Clocks.** The linked list of timers is a sequence; inserting
and removing adjust the counts as the code does. Nothing protects the functions of
the API from SysTick, so each is one step only where no tick can fall into it: in
the callback that has just run (`FromCallback`), which is inside SysTick, and in
main while the list is empty (`FromMain`), when a tick touches nothing. `main.c`
creates and starts its one timer in the second way and calls no other function, so
this is all the firmware does and more; a call from main while timers run is not
modelled (section 5). Timers are created from main only, as systimer.h:261 wants, and
not after a running timer was deleted (`NoneDeleted`; systimer.c:432 does not reset
`delete_swtmr`). The handler's conditions on the state of a timer are kept: were a
due timer in the list not running, the loop could not go on (`HandlerEnds`). In
`Clocks` time passes at any moment; each tick makes SysTick pending, each
millisecond `TimeStampIRQ`; a handler of priority 63 starts when no other one
runs, and those of priority 61 and 62 stamp inside them. `behind`, `late` and
`early` relate what `millisec` says to the time that has passed.

**ConfigCommands** says what `parse_config_commands` makes of a whole file, and
`ConfigParser` goes through it line by line as the code does. The text of one
line is abstracted: it sets a parameter, asks for a reset, or is refused. A line made
of pieces that do not belong together is refused, but for the ports: `atoi` stops
at the first character that is not a digit, so the head of such a command sets the
port to as much of the number as there is (`Ports`, `Cut`). Not modelled are heads
cut before their `=`, and pieces of two addresses that happen to form a third.

## 3. Runs

Passing runs:

| run | bounds | shows |
|---|---|---|
| `tftp` | blocks of 2 cells, buffer of 6, blocks 1-3 with 6 contents, 3-block text, 2 readers, ACKs 0-3, time-out of 1 tick, every malformed packet kind | types; blocks enter the buffer once and in order; a second ACK means saved and an error nothing saved; a read's client is stable; a read ends |
| `config_parser` | every file of up to 4 cells | the loop computes `AllExecuted`, `Apply`, `ResetAsked` |
| `eeprom` | 3 sectors of 2 blocks, 14 saves (more than two cycles), up to 3 programming errors in a row, and in a behaviour either erase errors or failed blocks that stay erased | the driver knows the newest block and implements `ConfigStore` |
| `acquisition` | 2 thermocouples, of one source two events told apart, sequence numbers modulo 2 | each ADC receives its commands in order; transfers are accepted and go to the right device; no packet's data is newer than its stamp; thermocouples are served; of two waiting ADCs one is |
| `ethernet` | 2 receive and 2 transmit descriptors, a pool of 1 pbuf | indices and types; no frame is forgotten; the transmit ring is a queue; its DMA is awake; few datagrams are dropped |
| `clocks` | 2 timers, period of 2 ticks, a millisecond of 2 ticks, up to 3 milliseconds behind | stamps are right to a millisecond; `SysTimer` implements `TimerService`; its handler ends |

Why the bounds are enough: a file needs two full blocks and a short one to meet
every branch of the data handler and the size check (the third full block hits
it); a read needs a block whose ACK is preset, one whose ACK is awaited, and a last
one; the EEPROM needs
three sectors so that a cycle has a sector that is neither the first nor the
newest, and two blocks so that a torn block can follow a valid one in its sector,
and enough saves to go around twice; two thermocouples give a first and a last.
In a behaviour of `acquisition` only one source's events are told apart, and
consecutive events may share a number: `StampNotOlder` compares two events of one
source, so two numbers show any violation of it; the proof has no such bound.
Two descriptors give a full, an empty and a half full ring, with a wrap after
every second frame; one pbuf makes the pool run out at the first TFTP datagram
and the theorems hold for every size. Two timers are enough to be before, behind
and due together; with `MaxBehind` 3 the millisecond interrupt can be on time,
late, and late again.

Runs that TLC must find violated state what a comment, the help text or a header
says where the code does something else (each is a finding in `PROJECT.json`):

| run | statement | what happens |
|---|---|---|
| `tftp_address` | main.c:153, main.c:646 | the interface has the new address as soon as the file is parsed |
| `tftp_stale_buffer` | main.c:488 "reset and abandon the current WRQ" | the abandoned blocks stay and start the next file |
| `eeprom_old_data` | e_eeprom_xmc4.h:100 | after one interrupted save the firmware never starts again |
| `acquisition_early` | spi_master.h:655 | a packet is sent before its data has arrived |
| `ethernet_pool` | udp.h:75 | `tftp_recv` keeps every pbuf it is given |
| `reset_command` | main.c:165 | the reset deadlocks in the interrupt |

Deadlock is not checked in `config_parser` (the loop ends), `reset_command`
(the system resets, or hangs) and `ethernet*` (when the PHY fails the firmware
stays in `ETH_LWIP_Error`).

Smaller differences met while modelling, which the actions reproduce and no run
is about:

- main.c:516 refuses a file of exactly 4096 bytes, which main.c:152 allows;
- main.c:464-467 answers a short packet with an error and processes it;
- main.c:623-633 takes an unchanged configuration for a failed save, so an empty
  file is answered with an error, and a failed save cannot be repeated;
- main.c:317 presets `ack_num` to 1, so the first block's ACK is not awaited, and
  main.c:337 awaits that of a second full block, while main.c:314 says that none is;
- main.c:202 stops at the `=`, so values keep their upper case (main.c:207);
- main.c:776 wants ADC1 to be read in any case, but ADC0 can keep it off the bus
  (`AdcBusServed` is what holds);
- main.c:312-370 puts a block together in the pbuf in which the interrupt builds
  its replies, and the driver copies it with interrupts enabled: a reply may go out
  in place of the block, to the block's client, and a data block may leave with the
  text or the length of an error message. Measurements, which are in another pbuf,
  are not concerned (`RingIsQueue`);
- e_eeprom_xmc4.c:477: a failed save that leaves its block erased, and after it
  an erase error, can hide the newest configuration from the scan; the run and
  the theorems allow one of the two kinds of failure. Without erase errors it
  takes 12 failed saves in a row (all sectors but one): the cycle then closes on
  the sector of the newest block, and a save may succeed in an erased block below
  it (found with TLC; the run and the theorems stay below this number);
- ethernetif.c:361: when an interrupt sends while main is inside
  `low_level_output`, a frame is overwritten or gets the length of another;
  `RingIsQueue` makes no claim from then on (`raced`), `TransmitAwake` does;
- the pbufs that are sent again never get their room at the front back, so that
  one or two datagrams are dropped before lwIP chains the headers in a pbuf of
  their own from then on
  (`FewDatagramsDropped` is what holds);
- main.c:820: a millisecond that passes while the one before is still pending is
  lost for ever (`late`);
- systimer.c:421-439 does not reset `delete_swtmr`, so that a timer created in the
  entry of one that was deleted while it ran would be deleted at its first expiry;
  the firmware deletes none, and the callers of `SysTimer` are assumed not to create
  timers after that;
- systimer.c:498-501 marks a timer stopped and then unlinks it: if a tick came in
  between and found it due, `SYSTIMER_lTimerHandler` would not end. It takes a call
  outside of call-backs while timers run, which the firmware does not make;
- timers.c:355 wants `sys_check_timeouts` called "from your main loop"; it runs
  in the SysTick interrupt.

### Fairness

`tftp`: weak fairness of main's steps and of the millisecond interrupt. The
processor returns to main when no interrupt is pending, interrupts are short,
and the timer is hardware. `acquisition`: weak fairness of main and, for each bus,
of its transfer with the two completion interrupts (`Spi`): a transfer that was
started ends and its interrupts are taken; none for the data-ready interrupts,
which the environment decides. `reset_command`: a transmission ends, an interrupt that
may preempt is taken, and the loops in `adc_soft_reset` go on when their condition
holds. `clocks`: a stamp that was begun is finished (weak), and the SysTick handler
gets on (strong): the interrupts of priority 61 and 62 may stop it again and again,
but come with gaps, the sampling periods, in which it runs, and a call-back makes a
finite number of calls.

## 4. Proofs

`TftpServerProofs` proves, for every set of packets and clients, every block,
buffer and text size and every time-out (assumptions: sizes are natural numbers,
block and buffer size are not 0, there is a client, a data packet's payload has
the length `plen - 4`):

- `TypeCorrect`: `Spec => []TypeOK`;
- `ReadClientStableHolds`: the read side;
- `BlocksOnceInOrderHolds`: the write side;
- `ReplyTellsTheTruthHolds`: what is saved and what the client is told.

`TypeOK` is not inductive alone: `len` stays non-negative only because `"wait"` is
reached with a full block left. `TypedReadInv` adds that (`ReadInv`), and that
`tftp_send` is set while main is in `tftp_send_data`, from which the stability of
the client follows. `BlocksOnceInOrder` is inductive on top of the types; that
appending the next number to `1..k` gives `1..k + 1`, and a block's length to the
fill, is in lemmas of its own. `ReplyTellsTheTruth` needs what the replies of each
way through `tftp_recv` are (`FileReplies`, `OtherReplies`). `ConfigCommandsProofs`
has the types of `LineCommand` and `Apply`, which this module and
`ConfigParserProofs` use.

`ConfigParserProofs` proves `ComputesCommandsHolds`: for every file the line loop
computes what `ConfigCommands` says of the whole file. `ParserInv` is the loop
invariant: the position is the start of a line, every line before it was executed,
each parameter has the value of its last setter among them, and where the loop
stopped, if it did.

`EepromProofs` proves, for every number of sectors (two or more), blocks in a
sector and saves:

- `TypeCorrect`: `Spec => []TypeOK`;
- `NewestIsKnown`: `Spec => []NewestKnown`;
- `Refinement`: `Spec => ImplementsStore`, that is, `Eeprom` implements
  `ConfigStore`.

The assumptions: the flash behaves as section 2 says; programming fails fewer
than `NumBlocks - 1` times in a row (`MaxFails`), since otherwise the free block
comes round to the newest one; and, for the last two, `BlankAlone`: if a
programming that fails may leave its block erased, erasures succeed and
programming fails fewer than `NumBlocks - BLOCKS` times in a row. The constants of
the run satisfy it. Erase errors, programming errors and power losses are otherwise
arbitrary. Without `BlankAlone` the refinement is false, for either reason (TLC
finds the newest configuration lost).

The inductive invariant `EepromInv` adds to `NewestKnown` what keeps it true:
within a sector valid blocks are in the order of their counts (`Ordered`), which
makes the scan from the top find the newest one; counts are different and not 0
(`Counted`); what a scan that is half done knows (`ScanInv`); the erase loop
spares the newest block's sector (`EraseInv`); exactly the `fails` blocks that
failed lie between the newest and the free block, going round at the end
(`FreeInv`), so spoiling the free block never spoils the newest; and the count to
be programmed is new (`ProgramInv`). `Ordered` survives a save because nothing
valid lies above the free block in its sector, for one of two reasons. If failures
spoil their block, no erased block lies below a valid one (`NoGaps`, `BelowFree`),
also where an erase error left a sector half way. If erasures succeed, the scan and
the erase loop leave nothing valid outside the newest block's sector (`Marked`),
so that all blocks from the free one round to the start of the cycle are free of
valid data (`CleanAhead`). There is one lemma for each action. The
actions that erase or spoil share the lemma that valid blocks they leave are as
they were (`Shrinks`). For the refinement, the firmware is up from the
end of a successful `E_EEPROM_XMC4_Init` until power is lost (`Up`). `ConfigStore`
writes and commits only while it is up, and comes up only by `Load`, so that a start
that found an older block, or none, would not be a step of it. `InitFound` is `Load`
because the scan found the newest block (`LoadNewest`), `InitEmpty` because there is
none and the RAM buffer is still blank (`BlankBeforeLoad`, `LoadEmpty`); `StartSave` is
`Write`, `ProgramOk` is `Commit`, `PowerLoss` is `PowerLoss`, and every other step
changes neither `Stored` nor `buf`.

`AcquisitionProofs` proves, for every number of thermocouples, sequence numbers
and events: `TypeCorrect`, `TransferAcceptedHolds`, `RightSlaveHolds` and
`StampNotOlderHolds`. main asks only for `rx_busy`; that a channel with `rx_busy`
clear and no interrupt pending is idle needs `FlagsOf`, which ties both flags and
the pending interrupts to the stage of the DMA. `RightSlave` is inductive with it.
The order of stamps needs `OrderInv`: in every buffer and every transfer no
measurement is newer than the source's last event, which both stamps of the header
name, and what is copied so far is in order.

`BroughtUpHolds` is proved there too: each ADC receives exactly its own commands
of the 30 transfers, in their order. `BringUpInv` says, at every point of the
bring-up, that each ADC has received the commands of those transfers that are its
own and are over, as the prefix of its list that their number gives (`Received`);
a transfer under way is the last one main has asked for, with its device still
selected, and its command is added when the last byte goes out; after the bring-up
only transfers without a command are asked for. That main waited for the transfer
before it asks for the next comes from `FlagsOf` again.

`EthernetIfProofs` proves, for every size of the rings and the pool:
`TypeCorrect`, `FramesNotForgottenHolds`, `RingIsQueueHolds`,
`TransmitAwakeHolds` and `FewDatagramsDroppedHolds`. `RxInv`: the descriptors the
driver has not looked at are `c` in a row from `rx_index` to `rx_dma`, and when
there are any the event is set, the interrupt is in its loop, or its last turn was
cut short after it had returned a descriptor. `TxInv`: unless `raced`, the ring
holds `queue` from `tx_dma` on, and `Window` says what main knows at each step of
`low_level_output` (the descriptor is still free and still at `tx_index`). Frames are
whole, but for those of TFTP once a reply was ever written into the pbuf main was
sending (`spoiled`); `Spoilt` says that this happens to no other pbuf. The
arithmetic modulo the ring's size is in lemmas of its own. `RoomInv`: the room in
front of a pbuf takes only a few values (56, 12 and 4 between datagrams), each with
the number of datagrams dropped so far and the header main has reached; for
`tftp_p`, which two contexts use, there are some more.

`ClocksProofs` proves `StampWithinMillisecondHolds` for every length of a
millisecond and all timers: `StampInv` says that `millisec` is short exactly of
what `TimeStampIRQ` has still to count, as long as it was never a whole
millisecond late, and that a stamp in progress is early by as much.

`SysTimerProofs` proves, for every number of timers and all periods that are not 0:

- `TimerListRight`: the delta list holds exactly the running timers, each once,
  and outside the SysTick handler none of them is due;
- `Refinement`: `TimerSpec => ImplementsService`, that is, the delta list with its
  API, called from call-backs and from main while no timer runs, implements
  `TimerService`, in which every timer counts down by itself and expires when due.

The assumptions on the callers are those of section 2 (`FromMain`, `FromCallback`,
`NoneDeleted`), which `main.c` satisfies.

The mapping takes the time a timer has left to be the sum of the counts up to its
place in the list (`Until`), a recursive function. That it exists and what
inserting, removing and counting down do to it are proved by the absence of a
least counter-example, from the well-foundedness of `<` on the natural numbers.
Inserting a timer splits one count and removing one joins two; both leave what
every other timer has left unchanged (`InsertedMeasured`, `RemovedMeasured`), and
decrementing the first count takes one from all (`UntilTicked`). `TimerInv` holds
what these need (`ListInv`), and `PeriodInv` that the period of a timer in use is
one of `Periods`. A SysTick is `Tick`, the handling of a timer that is due is
`Expire`, the end of the handler is `Served`, and each call of the API is its
namesake. `ClocksProofs` carries the refinement over to the whole processor
(`ImplementsServiceHolds`): the other interrupts leave the list alone.

Only model-checked: liveness (`ReadEnds`, `ThermocouplesServed`, `AdcBusServed`,
`HandlerEnds`), which the prover does not do.

## 5. Not modelled, and why

- Register set-up (`DAVE_Init` and the generated `*_conf.c`): it runs once, before
  anything is concurrent, and keeps no state of its own. That a failing EEPROM
  initialisation ends the start-up is in `Eeprom`.
- XMCLib, CMSIS, lwIP apart from the path of a datagram, the DAVE templates
  (copies of the sources), web pages and build output. This is third-party or
  generated code and makes up nearly all of the repository's lines (register
  and pin definitions, protocols that are compiled out such as SNMP, PPP and
  TCP); the firmware's own logic is `main.c` and the drivers of section 1. The
  share of all lines that the models stand for is small for this reason.
- lwIP's heap and memory pools, which main and the interrupts use without
  protection (`SYS_LIGHTWEIGHT_PROT` is 0): a hazard, listed in `PROJECT.json`,
  inside third-party code.
- Operations of drivers that nothing calls: `E_EEPROM_XMC4_WriteByte` and
  `ReadByte`, SPI modes without DMA, aborts and changes of mode.
- The characters of a configuration line: a line is a command or refused.
- Calls of SYSTIMER from main while timers run, which a tick could interrupt
  between two of their statements: the firmware makes none.
- What an ADC does with a command.

Possible extensions: `TftpServer` with `Eeprom` in place of its two-variable
summary, through `ConfigStore`.
