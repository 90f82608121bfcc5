----------------------------- MODULE Acquisition -----------------------------
(***************************************************************************)
(* The measuring part of main.c: the commands that bring up the ADCs, the  *)
(* interrupts that say that an ADC or the thermocouples are to be read,    *)
(* the main loop that reads them over SPI and sends a packet, and the DMA  *)
(* transfers of SPI_MASTER.                                                *)
(*                                                                         *)
(* The main loop can be interrupted between any two of its steps; each step *)
(* that touches what an interrupt or the DMA also touches is an action.    *)
(* Interrupt handlers are short and run to completion, one action each.    *)
(* (ResetCommand models the one that does not end.)                        *)
(*                                                                         *)
(* Time is an order of events: a data-ready interrupt stamps the header    *)
(* with the number of its event, a transfer fetches the measurement of the *)
(* newest event there was when it started.  Consecutive events may share a *)
(* number, so that two numbers tell any two events of a source apart in    *)
(* some behaviour.                                                         *)
(***************************************************************************)
EXTENDS Integers, Sequences

CONSTANTS
  NUM_TC,      \* thermocouples: 4 in the code
  SEQ,         \* sequence_number wraps at this: 2^32 in the code
  MaxEvents    \* bound: numbers of events

ASSUME AcquisitionAssumption ==
  /\ NUM_TC \in Nat \ {0}
  /\ SEQ \in Nat \ {0}
  /\ MaxEvents \in Nat \ {0}

Adc    == {"adc0", "adc1"}
Source == Adc \cup {"tc"}
Buffer == Source \cup {"config"}   \* ADC0_buff, ADC1_buff, TC_buff, configArray
Bus    == {"ADC", "TC"}        \* SPI_MASTER_ADC, SPI_MASTER_TC
BusOf(s) == IF s = "tc" THEN "TC" ELSE "ADC"

Mixed == -1                    \* a measurement only partly received
Event == 0..MaxEvents
Slots(s) == IF s = "tc" THEN 0..(NUM_TC - 1) ELSE {0}
Slave(b) == IF b = "TC" THEN {"tc"} \X Slots("tc") ELSE Adc \X {0}

\* Commands to an ADC.  NULL reads; it changes nothing in the device.
CLK2(a) == IF a = "adc0" THEN "CLK2 adc0_rate" ELSE "CLK2 adc1_rate"
Command == {"NULL", "UNLOCK", "A_SYS_CFG", "D_SYS_CFG", "CLK1", "ADC_ENA", "WAKEUP"}
             \cup {CLK2(a) : a \in Adc}

adc_register_config(a) ==
  <<"NULL", "UNLOCK", "NULL", "A_SYS_CFG", "NULL", "D_SYS_CFG", "NULL", "CLK1", "NULL",
    CLK2(a), "NULL">>
xmc_ADC_setup == <<"ADC_ENA", "NULL", "WAKEUP", "NULL">>

\* The transfers of the bring-up: the device selected, and the command.
To(a, commands) == [i \in 1..Len(commands) |-> <<a, commands[i]>>]
BringUp == To("adc0", adc_register_config("adc0")) \o To("adc1", adc_register_config("adc1"))
             \o To("adc0", xmc_ADC_setup) \o To("adc1", xmc_ADC_setup)

VARIABLES
  event,            \* events of each source so far
  ms, us,           \* header.ms, header.us of ADC0_buff, ADC1_buff, TC_buff
  read,             \* read_adc0, read_adc1, read_tc
  data,             \* the measurements in the buffers
  sent,             \* transfers of the bring-up that main has asked for
  cmd,              \* the command in the ADC bus's current transfer
  got,              \* the commands that have reached each ADC
  sequence_number,
  tc_index,
  ss,               \* each bus: source and slot whose slave select is enabled
  rx_data,          \* each bus: buffer and slot being filled
  rx_busy, tx_busy, \* SPI_MASTER's runtime flags
  stage,            \* each bus's DMA: "idle", "started", "receiving", "sent"
  sample,           \* the measurement being fetched
  pend,             \* DMA interrupts pending: "tx", "rx"
  mpc, cur,         \* where main is, and the source it is sending for
  p                 \* the transmit pbuf: header and data copied so far

headVars == <<event, ms, us, read>>
devVars  == <<cmd, got>>
spiVars  == <<ss, rx_data, rx_busy, tx_busy, stage, sample, pend, devVars>>
mainVars == <<sent, sequence_number, tc_index, mpc, cur, p>>
vars     == <<headVars, data, spiVars, mainVars>>

Packet == [ms : Event, us : Event, seq : 0..(SEQ - 1), data : [Slots("tc") -> Event \cup {Mixed}]
                                                         \cup [{0} -> Event \cup {Mixed}]]
NoPacket(s) == [ms |-> 0, us |-> 0, seq |-> 0, data |-> [k \in Slots(s) |-> 0]]

Init ==
  /\ event = [s \in Source |-> 0]
  /\ ms = [s \in Source |-> 0] /\ us = [s \in Source |-> 0]
  /\ read = [s \in Source |-> FALSE]
  /\ data = [s \in Buffer |-> [k \in Slots(s) |-> 0]]
  /\ sequence_number = 0 /\ tc_index = 0
  /\ ss = [b \in Bus |-> IF b = "TC" THEN <<"tc", 0>> ELSE <<"adc0", 0>>]
  /\ rx_data = ss
  /\ rx_busy = [b \in Bus |-> FALSE] /\ tx_busy = [b \in Bus |-> FALSE]
  /\ stage = [b \in Bus |-> "idle"] /\ sample = [b \in Bus |-> 0]
  /\ pend = [b \in Bus |-> {}]
  /\ cmd = "NULL" /\ got = [a \in Adc |-> <<>>] /\ sent = 0
  /\ mpc = "bringUp" /\ cur = "tc" /\ p = NoPacket("tc")

-----------------------------------------------------------------------------
(* Interrupts.                                                             *)

\* The numbers an event of s may have.  In a behaviour the events of one source
\* only are told apart.
Numbers(s) ==
  {event[s]} \cup IF \A t \in Source \ {s} : event[t] = 0 THEN {event[s] + 1} \cap Event ELSE {}

\* Mutant of DataReady: the handler stores the microseconds only.
DataReadyMutant(s) ==
  /\ mpc # "bringUp"
  /\ \E n \in Numbers(s) : event' = [event EXCEPT ![s] = n]
  /\ us' = [us EXCEPT ![s] = event'[s]]
  /\ read' = [read EXCEPT ![s] = TRUE]
  /\ UNCHANGED <<ms, data, spiVars, mainVars>>

\* ADC0_DRDY_INT, ADC1_DRDY_INT, TCIRQ, which are enabled after the bring-up.
DataReady(s) ==
  /\ mpc # "bringUp"
  /\ \E n \in Numbers(s) : event' = [event EXCEPT ![s] = n]
  /\ ms' = [ms EXCEPT ![s] = event'[s]]
  /\ us' = [us EXCEPT ![s] = event'[s]]
  /\ read' = [read EXCEPT ![s] = TRUE]
  /\ UNCHANGED <<data, spiVars, mainVars>>

\* SPI_MASTER_..._DMA_tx_handler
TxHandler(b) ==
  /\ "tx" \in pend[b]
  /\ pend' = [pend EXCEPT ![b] = @ \ {"tx"}]
  /\ tx_busy' = [tx_busy EXCEPT ![b] = FALSE]
  /\ UNCHANGED <<headVars, data, ss, rx_data, rx_busy, stage, sample, devVars, mainVars>>

\* SPI_MASTER_..._DMA_rx_handler
RxHandler(b) ==
  /\ "rx" \in pend[b]
  /\ pend' = [pend EXCEPT ![b] = @ \ {"rx"}]
  /\ rx_busy' = [rx_busy EXCEPT ![b] = FALSE]
  /\ UNCHANGED <<headVars, data, ss, rx_data, tx_busy, stage, sample, devVars, mainVars>>

-----------------------------------------------------------------------------
(* The DMA hardware.  It needs no processor.                               *)

\* The first bytes arrive: what the buffer held is partly overwritten.
DmaReceive(b) ==
  /\ stage[b] = "started"
  /\ stage' = [stage EXCEPT ![b] = "receiving"]
  /\ data' = [data EXCEPT ![rx_data[b][1]][rx_data[b][2]] = Mixed]
  /\ UNCHANGED <<headVars, ss, rx_data, rx_busy, tx_busy, sample, pend, devVars, mainVars>>

\* The last byte has gone out, to the device that is selected.
DmaSent(b) ==
  /\ stage[b] = "receiving"
  /\ stage' = [stage EXCEPT ![b] = "sent"]
  /\ pend' = [pend EXCEPT ![b] = @ \cup {"tx"}]
  /\ got' = IF b = "TC" \/ cmd = "NULL" THEN got
            ELSE [got EXCEPT ![ss[b][1]] = Append(@, cmd)]
  /\ UNCHANGED <<headVars, data, ss, rx_data, rx_busy, tx_busy, sample, cmd, mainVars>>

\* The last byte has come in.
DmaDone(b) ==
  /\ stage[b] = "sent"
  /\ stage' = [stage EXCEPT ![b] = "idle"]
  /\ pend' = [pend EXCEPT ![b] = @ \cup {"rx"}]
  /\ data' = [data EXCEPT ![rx_data[b][1]][rx_data[b][2]] = sample[b]]
  /\ UNCHANGED <<headVars, ss, rx_data, rx_busy, tx_busy, sample, devVars, mainVars>>

-----------------------------------------------------------------------------
(* The main loop.                                                          *)

\* No interrupt is waiting to preempt main.
MainAt(l) == mpc = l /\ \A b \in Bus : pend[b] = {}

\* SPI_MASTER_EnableSlaveSelectSignal for slave d of bus b, then
\* SPI_MASTER_Transfer or SPI_MASTER_Receive into buffer f.  A busy channel
\* refuses the transfer; the refusal is not looked at.
Transfer(b, d, c, f, n) ==
  /\ ss' = [ss EXCEPT ![b] = d]
  /\ IF rx_busy[b] \/ tx_busy[b]
       THEN UNCHANGED <<rx_data, rx_busy, tx_busy, stage, sample, cmd>>
       ELSE /\ rx_data' = [rx_data EXCEPT ![b] = f]
            /\ rx_busy' = [rx_busy EXCEPT ![b] = TRUE]
            /\ tx_busy' = [tx_busy EXCEPT ![b] = TRUE]
            /\ stage' = [stage EXCEPT ![b] = "started"]
            /\ sample' = [sample EXCEPT ![b] = n]
            /\ cmd' = IF b = "ADC" THEN c ELSE cmd
  /\ UNCHANGED <<pend, got>>

Fetch(s, k) == Transfer(BusOf(s), <<s, k>>, "NULL", <<s, k>>, event[s])

\* Mutant of MainBringUp: it does not wait for the transfer before.
MainBringUpMutant ==
  /\ MainAt("bringUp")
  /\ sent < Len(BringUp)
  /\ Transfer("ADC", <<BringUp[sent + 1][1], 0>>, BringUp[sent + 1][2], <<"config", 0>>, 0)
  /\ sent' = sent + 1
  /\ UNCHANGED <<headVars, data, sequence_number, tc_index, mpc, cur, p>>

\* After each transfer main waits until rx_busy is clear.
MainBringUp ==
  /\ MainAt("bringUp") /\ ~rx_busy["ADC"]
  /\ sent < Len(BringUp)
  /\ Transfer("ADC", <<BringUp[sent + 1][1], 0>>, BringUp[sent + 1][2], <<"config", 0>>, 0)
  /\ sent' = sent + 1
  /\ UNCHANGED <<headVars, data, sequence_number, tc_index, mpc, cur, p>>

\* ADC0 is selected, the interrupts are enabled and the loop begins.
MainEnable ==
  /\ MainAt("bringUp") /\ ~rx_busy["ADC"]
  /\ sent = Len(BringUp)
  /\ ss' = [ss EXCEPT !["ADC"] = <<"adc0", 0>>]
  /\ mpc' = "tc"
  /\ UNCHANGED <<headVars, data, rx_data, rx_busy, tx_busy, stage, sample, pend, devVars,
                 sent, sequence_number, tc_index, cur, p>>

Branch(s) == IF s = "adc0" THEN "adc1" ELSE IF s = "adc1" THEN "tftp" ELSE "adc0"

\* Mutant of CanFetch: SPI_MASTER_IsRxBusy is not asked.
CanFetchMutant(s) == read[s]

\* main looks at the flag of s, then at the bus.
CanFetch(s) == read[s] /\ ~rx_busy[BusOf(s)]

MainSkip(s) ==
  /\ MainAt(s)
  /\ ~CanFetch(s)
  /\ mpc' = Branch(s)
  /\ UNCHANGED <<headVars, data, spiVars, sent, sequence_number, tc_index, cur, p>>

\* Mutant of MainFetchTc: off by one at the end of a round.
MainFetchTcMutant ==
  /\ MainAt("tc") /\ CanFetch("tc")
  /\ tc_index < NUM_TC
  /\ Fetch("tc", tc_index)
  /\ tc_index' = tc_index + 1
  /\ mpc' = "adc0"
  /\ UNCHANGED <<headVars, data, sent, sequence_number, cur, p>>

\* One thermocouple of a round, not the last.
MainFetchTc ==
  /\ MainAt("tc") /\ CanFetch("tc")
  /\ tc_index + 1 < NUM_TC
  /\ Fetch("tc", tc_index)
  /\ tc_index' = tc_index + 1
  /\ mpc' = "adc0"
  /\ UNCHANGED <<headVars, data, sent, sequence_number, cur, p>>

\* The last thermocouple, or an ADC: a packet will be sent.
MainFetch(s) ==
  /\ MainAt(s) /\ CanFetch(s)
  /\ s = "tc" => tc_index + 1 = NUM_TC
  /\ Fetch(s, IF s = "tc" THEN tc_index ELSE 0)
  /\ tc_index' = IF s = "tc" THEN 0 ELSE tc_index
  /\ mpc' = "clear" /\ cur' = s
  /\ UNCHANGED <<headVars, data, sent, sequence_number, p>>

\* Mutant of MainClear: the flag is not cleared.
MainClearMutant ==
  /\ MainAt("clear")
  /\ p' = [NoPacket(cur) EXCEPT !.seq = sequence_number]
  /\ sequence_number' = (sequence_number + 1) % SEQ
  /\ mpc' = "copyMs"
  /\ UNCHANGED <<headVars, data, spiVars, sent, tc_index, cur>>

\* The flag is cleared and the packet gets its number.
MainClear ==
  /\ MainAt("clear")
  /\ read' = [read EXCEPT ![cur] = FALSE]
  /\ p' = [NoPacket(cur) EXCEPT !.seq = sequence_number]
  /\ sequence_number' = (sequence_number + 1) % SEQ
  /\ mpc' = "copyMs"
  /\ UNCHANGED <<event, ms, us, data, spiVars, sent, tc_index, cur>>

\* send_data copies the buffer, front to back.
MainCopyMs ==
  /\ MainAt("copyMs")
  /\ p' = [p EXCEPT !.ms = ms[cur]]
  /\ mpc' = "copyUs"
  /\ UNCHANGED <<headVars, data, spiVars, sent, sequence_number, tc_index, cur>>

MainCopyUs ==
  /\ MainAt("copyUs")
  /\ p' = [p EXCEPT !.us = us[cur]]
  /\ mpc' = "copyData"
  /\ UNCHANGED <<headVars, data, spiVars, sent, sequence_number, tc_index, cur>>

MainCopyData ==
  /\ MainAt("copyData")
  /\ p' = [p EXCEPT !.data = data[cur]]
  /\ mpc' = "send"
  /\ UNCHANGED <<headVars, data, spiVars, sent, sequence_number, tc_index, cur>>

\* udp_sendto_if.  What the pbuf holds afterwards is overwritten unread.
MainSend ==
  /\ MainAt("send")
  /\ p' = NoPacket("tc") /\ cur' = "tc"
  /\ mpc' = Branch(cur)
  /\ UNCHANGED <<headVars, data, spiVars, sent, sequence_number, tc_index>>

\* tftp_send_data, if a client asked: it touches nothing modelled here.
MainTftp ==
  /\ MainAt("tftp")
  /\ mpc' = "tc"
  /\ UNCHANGED <<headVars, data, spiVars, sent, sequence_number, tc_index, cur, p>>

-----------------------------------------------------------------------------
Main ==
  \/ MainBringUp \/ MainEnable
  \/ \E s \in Source : MainSkip(s) \/ MainFetch(s)
  \/ MainFetchTc
  \/ MainClear \/ MainCopyMs \/ MainCopyUs \/ MainCopyData \/ MainSend \/ MainTftp

\* A transfer on bus b and its interrupts.
Spi(b) == DmaReceive(b) \/ DmaSent(b) \/ DmaDone(b) \/ TxHandler(b) \/ RxHandler(b)

Next ==
  \/ \E s \in Source : DataReady(s)
  \/ \E b \in Bus : Spi(b)
  \/ Main

Spec == Init /\ [][Next]_vars

\* The loop goes on as long as it is not interrupted, transfers end, and a
\* pending interrupt is taken.
FairSpec ==
  /\ Spec
  /\ WF_vars(Main)
  /\ \A b \in Bus : WF_vars(Spi(b))

-----------------------------------------------------------------------------
(* Properties.                                                             *)

\* Every variable stays in its range; in particular tc_index in TC_buff.data
\* and the slave-select table.
TypeOK ==
  /\ event \in [Source -> Event] /\ ms \in [Source -> Event] /\ us \in [Source -> Event]
  /\ read \in [Source -> BOOLEAN]
  /\ DOMAIN data = Buffer /\ \A s \in Buffer : data[s] \in [Slots(s) -> Event \cup {Mixed}]
  /\ sequence_number \in 0..(SEQ - 1)
  /\ tc_index \in Slots("tc")
  /\ DOMAIN ss = Bus /\ DOMAIN rx_data = Bus
  /\ \A b \in Bus : ss[b] \in Slave(b) /\ rx_data[b] \in Slave(b) \cup {<<"config", 0>>}
  /\ rx_busy \in [Bus -> BOOLEAN] /\ tx_busy \in [Bus -> BOOLEAN]
  /\ stage \in [Bus -> {"idle", "started", "receiving", "sent"}]
  /\ sample \in [Bus -> Event]
  /\ pend \in [Bus -> SUBSET {"tx", "rx"}]
  /\ cmd \in Command /\ got \in [Adc -> Seq(Command)] /\ sent \in 0..Len(BringUp)
  /\ mpc \in Source \cup {"bringUp", "tftp", "clear", "copyMs", "copyUs", "copyData", "send"}
  /\ cur \in Source
  /\ p \in Packet

\* main asks only SPI_MASTER_IsRxBusy and ignores what SPI_MASTER_Transfer
\* returns.  Whenever it is about to start a transfer the channel would accept
\* it: the previous one has been sent, too, and both its interrupts are over.
TransferAccepted ==
  \A s \in Source :
    MainAt(s) /\ CanFetch(s) => ~tx_busy[BusOf(s)] /\ stage[BusOf(s)] = "idle"

\* The two ADCs share a bus and main switches the slave select: what arrives
\* in a buffer comes from the device the buffer is for, to the last byte.
RightSlave ==
  \A b \in Bus : rx_busy[b] /\ rx_data[b][1] # "config" => ss[b] = rx_data[b]

Wanted == [a \in Adc |-> <<"UNLOCK", "A_SYS_CFG", "D_SYS_CFG", "CLK1", CLK2(a), "ADC_ENA", "WAKEUP">>]

\* A transfer that is refused while the bus is busy goes unnoticed, and the
\* slave select is switched between the commands of the two ADCs.  Still, once
\* the loop runs, each ADC has received exactly its own commands in their
\* order: unlocked before it is written to, its own rate before it is enabled,
\* woken up last.
BroughtUp == mpc # "bringUp" => got = Wanted

\* The interrupt stamps the header while main may be copying it, and main
\* sends while the DMA may be filling the buffer.  Still no packet carries a
\* measurement that is newer than its time stamp, and the milliseconds are
\* never from a later event than the microseconds.
StampNotOlder ==
  mpc = "send" =>
    \A k \in DOMAIN p.data : p.data[k] <= p.ms /\ p.ms <= p.us

\* Every thermocouple round that TCIRQ asks for ends, with its packet sent.
ThermocouplesServed == read["tc"] ~> ~read["tc"]

\* When both ADCs wait for their bus, one of them gets it.
AdcBusServed == (read["adc0"] /\ read["adc1"]) ~> (~read["adc0"] \/ ~read["adc1"])

-----------------------------------------------------------------------------
(* What the sources say and the code does not do.                          *)

\* spi_master.h:655 "the user has to poll for the value of the variable,
\* handle->runtime->rx_busy to be false" before the buffer is used.
SentWhenReceived == mpc = "copyData" => ~rx_busy[BusOf(cur)]
=============================================================================
