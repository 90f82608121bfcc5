-------------------------- MODULE AcquisitionProofs --------------------------
(***************************************************************************)
(* Proofs about Acquisition for every number of thermocouples, every range *)
(* of sequence numbers and every number of events.                         *)
(***************************************************************************)
EXTENDS Acquisition, SequenceTheorems, TLAPS

\* The bring-up is a sequence of commands, each to one of the ADCs.
LEMMA BringUpType == BringUp \in Seq(Adc \X Command)
<1>1. ASSUME NEW a \in Adc, NEW c \in Seq(Command) PROVE To(a, c) \in Seq(Adc \X Command)
  <2>1. \A i \in 1..Len(c) : <<a, c[i]>> \in Adc \X Command
    BY <1>1
  <2> QED BY <2>1, IsASeq DEF To
<1>2. \A a \in Adc : CLK2(a) \in Command
  BY DEF Command
<1>3. ASSUME NEW a \in Adc PROVE adc_register_config(a) \in Seq(Command)
  BY <1>2 DEF adc_register_config, Command
<1>4. xmc_ADC_setup \in Seq(Command)
  BY DEF xmc_ADC_setup, Command
<1>5. "adc0" \in Adc /\ "adc1" \in Adc
  BY DEF Adc
<1>6. /\ To("adc0", adc_register_config("adc0")) \in Seq(Adc \X Command)
      /\ To("adc1", adc_register_config("adc1")) \in Seq(Adc \X Command)
      /\ To("adc0", xmc_ADC_setup) \in Seq(Adc \X Command)
      /\ To("adc1", xmc_ADC_setup) \in Seq(Adc \X Command)
  BY <1>1, <1>3, <1>4, <1>5
<1> QED BY <1>6, ConcatProperties DEF BringUp

\* Where the DMA writes is a slot of a buffer.
LEMMA SlotOfBuffer ==
  ASSUME TypeOK, NEW b \in Bus
  PROVE  /\ rx_data[b][1] \in Buffer /\ rx_data[b][2] \in Slots(rx_data[b][1])
         /\ rx_data[b][1] \in Source => BusOf(rx_data[b][1]) = b
<1>1. CASE rx_data[b] = <<"config", 0>>
  BY <1>1 DEF Buffer, Source, Adc, Slots
<1>2. CASE rx_data[b] \in Slave(b)
  BY <1>2 DEF TypeOK, Slave, Slots, Buffer, Source, Adc, Bus, BusOf
<1> QED BY <1>1, <1>2 DEF TypeOK

\* Storing a measurement, or part of one, keeps the buffers typed.
LEMMA StoreType ==
  ASSUME TypeOK, NEW b \in Bus, NEW v \in Event \cup {Mixed},
         data' = [data EXCEPT ![rx_data[b][1]][rx_data[b][2]] = v]
  PROVE  /\ DOMAIN data' = Buffer
         /\ \A s \in Buffer : data'[s] \in [Slots(s) -> Event \cup {Mixed}]
         /\ \A s \in Buffer : \A k \in Slots(s) :
              data'[s][k] = IF rx_data[b] = <<s, k>> THEN v ELSE data[s][k]
<1> DEFINE x == rx_data[b][1]
           y == rx_data[b][2]
<1>1. x \in Buffer /\ y \in Slots(x)
  BY SlotOfBuffer
<1>2. DOMAIN data = Buffer /\ \A s \in Buffer : data[s] \in [Slots(s) -> Event \cup {Mixed}]
  BY DEF TypeOK
<1>3. data' = [data EXCEPT ![x] = [data[x] EXCEPT ![y] = v]]
  OBVIOUS
<1>4. rx_data[b] = <<x, y>>
  BY DEF TypeOK, Slave
<1>5. \A s \in Buffer : data'[s] = IF s = x THEN [data[x] EXCEPT ![y] = v] ELSE data[s]
  BY <1>2, <1>3
<1>6. DOMAIN data' = Buffer
  BY <1>2, <1>3
<1> HIDE DEF x, y
<1>7. [data[x] EXCEPT ![y] = v] \in [Slots(x) -> Event \cup {Mixed}]
  BY <1>1, <1>2
<1>8. \A k \in Slots(x) : [data[x] EXCEPT ![y] = v][k] = IF k = y THEN v ELSE data[x][k]
  BY <1>1, <1>2
<1> QED BY <1>1, <1>2, <1>4, <1>5, <1>6, <1>7, <1>8

\* A transfer to a slave of its bus, into that slave's buffer or configArray,
\* keeps the SPI variables typed.
LEMMA TransferType ==
  ASSUME TypeOK, NEW b \in Bus, NEW d \in Slave(b), NEW c \in Command,
         NEW f \in Slave(b) \cup {<<"config", 0>>}, NEW n \in Event, Transfer(b, d, c, f, n)
  PROVE  /\ DOMAIN ss' = Bus /\ DOMAIN rx_data' = Bus
         /\ \A x \in Bus : ss'[x] \in Slave(x) /\ rx_data'[x] \in Slave(x) \cup {<<"config", 0>>}
         /\ rx_busy' \in [Bus -> BOOLEAN] /\ tx_busy' \in [Bus -> BOOLEAN]
         /\ stage' \in [Bus -> {"idle", "started", "receiving", "sent"}]
         /\ sample' \in [Bus -> Event]
         /\ pend' \in [Bus -> SUBSET {"tx", "rx"}]
         /\ cmd' \in Command /\ got' \in [Adc -> Seq(Command)]
<1> USE DEF TypeOK, Transfer
<1>1. DOMAIN ss' = Bus /\ \A x \in Bus : ss'[x] = IF x = b THEN d ELSE ss[x]
  OBVIOUS
<1>2. CASE rx_busy[b] \/ tx_busy[b]
  BY <1>1, <1>2
<1>3. CASE ~(rx_busy[b] \/ tx_busy[b])
  <2>1. DOMAIN rx_data' = Bus /\ \A x \in Bus : rx_data'[x] = IF x = b THEN f ELSE rx_data[x]
    BY <1>3
  <2>2. rx_busy' \in [Bus -> BOOLEAN] /\ tx_busy' \in [Bus -> BOOLEAN]
    BY <1>3
  <2>3. stage' \in [Bus -> {"idle", "started", "receiving", "sent"}] /\ sample' \in [Bus -> Event]
    <3>1. /\ stage' = [stage EXCEPT ![b] = "started"] /\ sample' = [sample EXCEPT ![b] = n]
      BY <1>3
    <3>2. /\ stage \in [Bus -> {"idle", "started", "receiving", "sent"}]
          /\ sample \in [Bus -> Event]
      OBVIOUS
    <3> HIDE DEF TypeOK, Transfer
    <3> QED BY <3>1, <3>2
  <2> QED BY <1>1, <1>3, <2>1, <2>2, <2>3
<1> QED BY <1>2, <1>3

\* Every interrupt handler and DMA step keeps the types.
LEMMA SpiKeepsTypes ==
  ASSUME TypeOK, NEW b \in Bus, Spi(b)
  PROVE  TypeOK'
<1> USE DEF TypeOK, headVars, mainVars
<1>1. CASE TxHandler(b)
  BY <1>1 DEF TxHandler, devVars
<1>2. CASE RxHandler(b)
  BY <1>2 DEF RxHandler, devVars
<1>3. CASE DmaReceive(b)
  <2>1. Mixed \in Event \cup {Mixed}
    OBVIOUS
  <2> QED BY <1>3, <2>1, StoreType DEF DmaReceive, devVars
<1>4. CASE DmaSent(b)
  <2>1. got' \in [Adc -> Seq(Command)]
    <3>1. CASE b = "TC" \/ cmd = "NULL"
      BY <1>4, <3>1 DEF DmaSent
    <3>2. CASE ~(b = "TC" \/ cmd = "NULL")
      <4>1. ss[b][1] \in Adc
        BY <3>2 DEF Slave
      <4>2. got' = [got EXCEPT ![ss[b][1]] = Append(got[ss[b][1]], cmd)]
        BY <1>4, <3>2 DEF DmaSent
      <4> QED BY <4>1, <4>2
    <3> QED BY <3>1, <3>2
  <2> QED BY <1>4, <2>1 DEF DmaSent
<1>5. CASE DmaDone(b)
  <2>1. sample[b] \in Event \cup {Mixed}
    OBVIOUS
  <2> QED BY <1>5, <2>1, StoreType DEF DmaDone, devVars
<1> QED BY <1>1, <1>2, <1>3, <1>4, <1>5 DEF Spi

\* A data-ready interrupt does, too.
LEMMA DataReadyKeepsTypes ==
  ASSUME TypeOK, NEW s \in Source, DataReady(s)
  PROVE  /\ TypeOK' /\ event[s] <= event'[s]
         /\ \A t \in Source \ {s} : event'[t] = event[t]
<1>1. PICK n \in Numbers(s) : event' = [event EXCEPT ![s] = n]
  BY DEF DataReady
<1>2. n \in Event /\ event[s] <= n
  BY DEF TypeOK, Numbers, Event
<1>3. event'[s] = n
  BY <1>1 DEF TypeOK
<1> QED BY <1>1, <1>2, <1>3 DEF DataReady, TypeOK, spiVars, devVars, mainVars

\* A step of main does.
LEMMA MainKeepsTypes ==
  ASSUME TypeOK, Main
  PROVE  TypeOK'
<1> USE DEF TypeOK, headVars
<1>1. \A s \in Source : \A k \in Slots(s) :
        BusOf(s) \in Bus /\ <<s, k>> \in Slave(BusOf(s)) /\ event[s] \in Event
  BY DEF Source, Adc, BusOf, Bus, Slave, Slots
<1>2. "NULL" \in Command /\ 0 \in Event /\ 0 \in Slots("tc") /\ \A s \in Adc : Slots(s) = {0}
  BY AcquisitionAssumption DEF Command, Event, Slots, Adc
<1>3. CASE MainBringUp
  <2>1. sent + 1 \in 1..Len(BringUp) /\ BringUp[sent + 1] \in Adc \X Command
    BY <1>3, BringUpType DEF MainBringUp
  <2>2. <<BringUp[sent + 1][1], 0>> \in Slave("ADC") /\ BringUp[sent + 1][2] \in Command
    BY <2>1 DEF Slave
  <2>3. "ADC" \in Bus
    BY DEF Bus
  <2>4. Transfer("ADC", <<BringUp[sent + 1][1], 0>>, BringUp[sent + 1][2], <<"config", 0>>, 0)
    BY <1>3 DEF MainBringUp
  <2> HIDE DEF Transfer
  <2>5. sent' \in 0..Len(BringUp)
    BY <1>3, <2>1 DEF MainBringUp
  <2> QED BY <1>2, <1>3, <2>2, <2>3, <2>4, <2>5, TransferType DEF MainBringUp
<1>4. CASE MainEnable
  <2>1. <<"adc0", 0>> \in Slave("ADC")
    BY DEF Slave, Adc
  <2> QED BY <1>4, <2>1 DEF MainEnable, devVars, Source
<1>5. ASSUME NEW s \in Source, NEW k \in Slots(s), Fetch(s, k),
             UNCHANGED <<headVars, data, sent, sequence_number, p>>,
             tc_index' \in Slots("tc"), cur' \in Source,
             mpc' \in Source \cup {"clear"}
      PROVE  TypeOK'
  BY <1>1, <1>2, <1>5, TransferType DEF Fetch
<1>6. ASSUME NEW s \in Source, MainSkip(s) PROVE TypeOK'
  BY <1>6 DEF MainSkip, Branch, Source, Adc, spiVars, devVars
<1>7. ASSUME NEW s \in Source, MainFetch(s) PROVE TypeOK'
  <2> DEFINE k == IF s = "tc" THEN tc_index ELSE 0
  <2>1. k \in Slots(s) /\ tc_index' \in Slots("tc")
    BY <1>2, <1>7 DEF MainFetch, Slots
  <2>2. Fetch(s, k)
    BY <1>7 DEF MainFetch
  <2> HIDE DEF k
  <2> QED BY <1>5, <1>7, <2>1, <2>2 DEF MainFetch
<1>8. CASE MainFetchTc
  <2>1. "tc" \in Source /\ tc_index + 1 \in Slots("tc") /\ "adc0" \in Source
    BY <1>8, AcquisitionAssumption DEF MainFetchTc, Slots, Source, Adc
  <2> QED BY <1>5, <1>8, <2>1 DEF MainFetchTc
<1>9. \A s \in Source : NoPacket(s) \in Packet
  BY AcquisitionAssumption DEF NoPacket, Packet, Slots, Event
<1>10. CASE MainClear
  <2>1. (sequence_number + 1) % SEQ \in 0..(SEQ - 1)
    BY AcquisitionAssumption
  <2>2. p' \in Packet
    BY <1>9, <1>10 DEF MainClear, Packet
  <2> QED BY <1>10, <2>1, <2>2 DEF MainClear, spiVars, devVars
<1>11. CASE MainCopyMs \/ MainCopyUs
  BY <1>11 DEF MainCopyMs, MainCopyUs, Packet, spiVars, devVars
<1>12. CASE MainCopyData
  <2>1. data[cur] \in [Slots("tc") -> Event \cup {Mixed}] \cup [{0} -> Event \cup {Mixed}]
    BY <1>2 DEF Buffer, Source
  <2>2. p' \in Packet
    BY <1>12, <2>1 DEF MainCopyData, Packet
  <2> QED BY <1>12, <2>2 DEF MainCopyData, spiVars, devVars
<1>13. CASE MainSend
  <2>1. "tc" \in Source /\ Branch(cur) \in Source \cup {"tftp"}
    BY DEF Branch, Source, Adc
  <2>2. p' \in Packet /\ cur' \in Source
    BY <1>9, <1>13, <2>1 DEF MainSend
  <2> QED BY <1>13, <2>1, <2>2 DEF MainSend, spiVars, devVars
<1>14. CASE MainTftp
  BY <1>14 DEF MainTftp, Source, spiVars, devVars
<1> QED BY <1>3, <1>4, <1>6, <1>7, <1>8, <1>10, <1>11, <1>12, <1>13, <1>14 DEF Main

\* The initial state is typed.
LEMMA InitTyped == Init => TypeOK
<1> SUFFICES ASSUME Init PROVE TypeOK
  OBVIOUS
<1> USE AcquisitionAssumption DEF Init
<1>1. 0 \in Event /\ 0 \in Slots("tc") /\ 0 \in 0..(SEQ - 1)
  BY DEF Event, Slots
<1>2. p \in Packet
  BY <1>1 DEF NoPacket, Packet
<1>3. \A b \in Bus : ss[b] \in Slave(b) /\ rx_data[b] \in Slave(b)
  BY <1>1 DEF Bus, Slave, Adc
<1>4. Len(BringUp) \in Nat
  BY BringUpType
<1>5. "NULL" \in Command /\ got \in [Adc -> Seq(Command)]
  BY DEF Command
<1> QED BY <1>1, <1>2, <1>3, <1>4, <1>5 DEF TypeOK, Source

\* Every variable of the acquisition stays in its range; in particular
\* tc_index never leaves TC_buff.data and the table of slave selects.
THEOREM TypeCorrect == Spec => []TypeOK
<1>1. TypeOK /\ [Next]_vars => TypeOK'
  <2> SUFFICES ASSUME TypeOK, [Next]_vars PROVE TypeOK'
    OBVIOUS
  <2>1. CASE Next
    BY <2>1, SpiKeepsTypes, DataReadyKeepsTypes, MainKeepsTypes DEF Next
  <2>2. CASE UNCHANGED vars
    BY <2>2 DEF TypeOK, vars, headVars, spiVars, devVars, mainVars
  <2> QED BY <2>1, <2>2
<1> QED BY <1>1, InitTyped, PTL DEF Spec

-----------------------------------------------------------------------------
(* The busy flags, the DMA and the pending interrupts of a bus.            *)

\* A flag is set from the start of a transfer until its interrupt has run.
FlagsOf(b) ==
  /\ stage[b] \in {"started", "receiving"} => rx_busy[b] /\ tx_busy[b] /\ pend[b] = {}
  /\ stage[b] = "sent" => rx_busy[b] /\ "rx" \notin pend[b]
  /\ stage[b] = "idle" => (rx_busy[b] <=> "rx" \in pend[b])
  /\ stage[b] \in {"sent", "idle"} => (tx_busy[b] <=> "tx" \in pend[b])

SpiInv == (\A b \in Bus : FlagsOf(b)) /\ RightSlave

\* When main finds a receive flag clear, with no interrupt pending, the bus is
\* free: the transfer it starts is accepted.
LEMMA BusFree ==
  ASSUME TypeOK, SpiInv, NEW b \in Bus, \A c \in Bus : pend[c] = {}, ~rx_busy[b]
  PROVE  ~tx_busy[b] /\ stage[b] = "idle"
<1>1. stage[b] \in {"idle", "started", "receiving", "sent"}
  BY DEF TypeOK
<1>2. FlagsOf(b) /\ pend[b] = {}
  BY DEF SpiInv
<1> QED BY <1>1, <1>2 DEF FlagsOf

\* An accepted transfer into the buffer of the slave it selects, or into
\* configArray, keeps the invariant.
LEMMA TransferSafe ==
  ASSUME TypeOK, SpiInv, NEW b \in Bus, NEW d, NEW c, NEW f, NEW n, f = d \/ f[1] = "config",
         \A x \in Bus : pend[x] = {}, ~rx_busy[b], Transfer(b, d, c, f, n)
  PROVE  SpiInv'
<1>1. ~tx_busy[b] /\ stage[b] = "idle"
  BY BusFree
<1>2. /\ ss' = [ss EXCEPT ![b] = d] /\ rx_data' = [rx_data EXCEPT ![b] = f]
      /\ rx_busy' = [rx_busy EXCEPT ![b] = TRUE] /\ tx_busy' = [tx_busy EXCEPT ![b] = TRUE]
      /\ stage' = [stage EXCEPT ![b] = "started"] /\ pend' = pend
  BY <1>1 DEF Transfer
<1>3. /\ ss'[b] = d /\ rx_data'[b] = f /\ rx_busy'[b] /\ tx_busy'[b]
      /\ stage'[b] = "started" /\ pend'[b] = {}
  BY <1>2 DEF TypeOK
<1>4. \A x \in Bus \ {b} : /\ ss'[x] = ss[x] /\ rx_data'[x] = rx_data[x]
                           /\ rx_busy'[x] = rx_busy[x] /\ tx_busy'[x] = tx_busy[x]
                           /\ stage'[x] = stage[x] /\ pend'[x] = pend[x]
  BY <1>2 DEF TypeOK
<1>5. FlagsOf(b)'
  BY <1>3 DEF FlagsOf
<1>6. \A x \in Bus \ {b} : FlagsOf(x)'
  BY <1>4 DEF SpiInv, FlagsOf
<1>7. RightSlave'
  BY <1>3, <1>4 DEF SpiInv, RightSlave
<1> QED BY <1>5, <1>6, <1>7 DEF SpiInv

\* The handlers and the DMA keep it.
LEMMA SpiSafe ==
  ASSUME TypeOK, SpiInv, NEW b \in Bus, Spi(b)
  PROVE  SpiInv'
<1> DEFINE Others == \A x \in Bus \ {b} : /\ rx_busy'[x] = rx_busy[x] /\ tx_busy'[x] = tx_busy[x]
                                         /\ stage'[x] = stage[x] /\ pend'[x] = pend[x]
<1>1. ASSUME FlagsOf(b)', Others, UNCHANGED <<ss, rx_data>>, rx_busy'[b] => rx_busy[b]
      PROVE  SpiInv'
  <2>1. \A x \in Bus : FlagsOf(x)'
    BY <1>1 DEF SpiInv, FlagsOf
  <2>2. \A x \in Bus : rx_busy'[x] => rx_busy[x]
    BY <1>1
  <2> QED BY <1>1, <2>1, <2>2 DEF SpiInv, RightSlave
<1>2. FlagsOf(b) /\ stage[b] \in {"idle", "started", "receiving", "sent"}
  BY DEF SpiInv, TypeOK
<1>3. CASE TxHandler(b)
  <2>1. /\ pend'[b] = pend[b] \ {"tx"} /\ tx_busy'[b] = FALSE /\ rx_busy' = rx_busy
        /\ stage' = stage /\ Others /\ UNCHANGED <<ss, rx_data>>
    BY <1>3 DEF TxHandler, TypeOK
  <2> QED BY <1>1, <1>2, <1>3, <2>1 DEF FlagsOf, TxHandler
<1>4. CASE RxHandler(b)
  <2>1. /\ pend'[b] = pend[b] \ {"rx"} /\ rx_busy'[b] = FALSE /\ tx_busy' = tx_busy
        /\ stage' = stage /\ Others /\ UNCHANGED <<ss, rx_data>>
    BY <1>4 DEF RxHandler, TypeOK
  <2> QED BY <1>1, <1>2, <1>4, <2>1 DEF FlagsOf, RxHandler
<1>5. CASE DmaReceive(b)
  <2>1. /\ stage[b] = "started" /\ stage'[b] = "receiving" /\ Others
        /\ UNCHANGED <<ss, rx_data, rx_busy, tx_busy, pend>>
    BY <1>5 DEF DmaReceive, TypeOK
  <2> QED BY <1>1, <1>2, <2>1 DEF FlagsOf
<1>6. CASE DmaSent(b)
  <2>1. /\ stage[b] = "receiving" /\ stage'[b] = "sent" /\ Others
        /\ pend'[b] = pend[b] \cup {"tx"} /\ UNCHANGED <<ss, rx_data, rx_busy, tx_busy>>
    BY <1>6 DEF DmaSent, TypeOK
  <2> QED BY <1>1, <1>2, <2>1 DEF FlagsOf
<1>7. CASE DmaDone(b)
  <2>1. /\ stage[b] = "sent" /\ stage'[b] = "idle" /\ Others
        /\ pend'[b] = pend[b] \cup {"rx"} /\ UNCHANGED <<ss, rx_data, rx_busy, tx_busy>>
    BY <1>7 DEF DmaDone, TypeOK
  <2> QED BY <1>1, <1>2, <2>1 DEF FlagsOf
<1> QED BY <1>3, <1>4, <1>5, <1>6, <1>7 DEF Spi

\* main keeps it: it starts a transfer only when the receive flag is clear.
LEMMA MainSafe ==
  ASSUME TypeOK, SpiInv, Main
  PROVE  SpiInv'
<1>1. ASSUME UNCHANGED <<ss, rx_data, rx_busy, tx_busy, stage, pend>> PROVE SpiInv'
  BY <1>1 DEF SpiInv, FlagsOf, RightSlave
<1>2. \A s \in Source : BusOf(s) \in Bus
  BY DEF BusOf, Bus
<1>3. ASSUME NEW s \in Source, NEW k, \A b \in Bus : pend[b] = {}, CanFetch(s), Fetch(s, k)
      PROVE  SpiInv'
  BY <1>2, <1>3, TransferSafe DEF CanFetch, Fetch
<1>4. CASE MainBringUp
  <2>1. <<"config", 0>>[1] = "config" /\ "ADC" \in Bus
    BY DEF Bus
  <2> QED BY <1>4, <2>1, TransferSafe DEF MainBringUp, MainAt
<1>5. CASE MainEnable
  <2>1. /\ ~rx_busy["ADC"] /\ ss' = [ss EXCEPT !["ADC"] = <<"adc0", 0>>]
        /\ UNCHANGED <<rx_data, rx_busy, tx_busy, stage, pend>>
    BY <1>5 DEF MainEnable
  <2>2. \A b \in Bus : FlagsOf(b)'
    BY <2>1 DEF SpiInv, FlagsOf
  <2>3. \A b \in Bus : b # "ADC" => ss'[b] = ss[b]
    BY <2>1 DEF TypeOK
  <2>4. RightSlave'
    BY <2>1, <2>3 DEF SpiInv, RightSlave
  <2> QED BY <2>2, <2>4 DEF SpiInv
<1>6. ASSUME NEW s \in Source, MainFetch(s) PROVE SpiInv'
  BY <1>3, <1>6 DEF MainFetch, MainAt
<1>7. CASE MainFetchTc
  <2>1. "tc" \in Source
    BY DEF Source
  <2> QED BY <1>3, <1>7, <2>1 DEF MainFetchTc, MainAt
<1>8. ASSUME NEW s \in Source, MainSkip(s) PROVE SpiInv'
  BY <1>1, <1>8 DEF MainSkip, spiVars
<1>9. CASE MainClear \/ MainCopyMs \/ MainCopyUs \/ MainCopyData \/ MainSend \/ MainTftp
  BY <1>1, <1>9 DEF MainClear, MainCopyMs, MainCopyUs, MainCopyData, MainSend, MainTftp, spiVars
<1> QED BY <1>4, <1>5, <1>6, <1>7, <1>8, <1>9 DEF Main

\* It holds initially.
LEMMA InitSafe == Init => SpiInv
BY DEF Init, SpiInv, FlagsOf, RightSlave

\* The flags of the SPI driver tell the truth and the selected slave is the one
\* the buffer belongs to, at every moment of every behaviour.
THEOREM SpiInvariant == Spec => []SpiInv
<1>1. TypeOK /\ SpiInv /\ [Next]_vars => SpiInv'
  <2> SUFFICES ASSUME TypeOK, SpiInv, [Next]_vars PROVE SpiInv'
    OBVIOUS
  <2>1. ASSUME NEW s \in Source, DataReady(s) PROVE SpiInv'
    BY <2>1 DEF DataReady, spiVars, SpiInv, FlagsOf, RightSlave
  <2>2. CASE UNCHANGED vars
    BY <2>2 DEF vars, spiVars, SpiInv, FlagsOf, RightSlave
  <2> QED BY <2>1, <2>2, SpiSafe, MainSafe DEF Next
<1> QED BY <1>1, InitSafe, TypeCorrect, PTL DEF Spec

\* Whenever main is about to start a transfer the channel accepts it.
THEOREM TransferAcceptedHolds == Spec => []TransferAccepted
<1>1. TypeOK /\ SpiInv => TransferAccepted
  <2> SUFFICES ASSUME TypeOK, SpiInv, NEW s \in Source, MainAt(s), CanFetch(s)
               PROVE  ~tx_busy[BusOf(s)] /\ stage[BusOf(s)] = "idle"
    BY DEF TransferAccepted
  <2>1. BusOf(s) \in Bus
    BY DEF BusOf, Bus
  <2> QED BY <2>1, BusFree DEF MainAt, CanFetch
<1> QED BY <1>1, TypeCorrect, SpiInvariant, PTL

\* What arrives in a buffer comes from the device the buffer is for.
THEOREM RightSlaveHolds == Spec => []RightSlave
<1>1. SpiInv => RightSlave
  BY DEF SpiInv
<1> QED BY <1>1, SpiInvariant, PTL

-----------------------------------------------------------------------------
(* Time stamps and measurements.                                           *)

\* The header of a source has the number of its newest event, and nothing
\* fetched or being fetched is newer.
NoneNewer ==
  /\ \A s \in Source : ms[s] = event[s] /\ us[s] = event[s]
  /\ \A s \in Source : \A k \in Slots(s) : data[s][k] <= event[s]
  /\ \A b \in Bus : rx_data[b][1] \in Source => sample[b] <= event[rx_data[b][1]]

\* While main copies: what is in the buffer, or on its way there, is no newer
\* than the milliseconds already copied.
CopyInv ==
  mpc \in {"copyUs", "copyData"} =>
    /\ p.ms <= event[cur]
    /\ \A k \in Slots(cur) : data[cur][k] <= p.ms
    /\ \A b \in Bus : rx_data[b][1] = cur => sample[b] <= p.ms

OrderInv ==
  /\ NoneNewer /\ CopyInv /\ StampNotOlder
  /\ mpc = "copyData" => p.ms <= p.us

\* The types that comparisons need.
LEMMA Numeric ==
  ASSUME TypeOK
  PROVE  /\ \A s \in Source : event[s] \in Int /\ \A k \in Slots(s) : data[s][k] \in Int
         /\ \A b \in Bus : sample[b] \in Int
         /\ p.ms \in Int /\ p.us \in Int /\ cur \in Source
<1>1. \A x \in Event \cup {Mixed} : x \in Int
  BY AcquisitionAssumption DEF Event, Mixed
<1>2. p.ms \in Event /\ p.us \in Event
  BY DEF TypeOK, Packet
<1>3. Source \subseteq Buffer
  BY DEF Buffer
<1> QED BY <1>1, <1>2, <1>3 DEF TypeOK

\* A data-ready interrupt keeps the order.
LEMMA DataReadyOrder ==
  ASSUME TypeOK, OrderInv, NEW s \in Source, DataReady(s)
  PROVE  OrderInv'
<1>1. /\ event[s] <= event'[s] /\ event'[s] \in Int
      /\ \A t \in Source \ {s} : event'[t] = event[t]
  BY DataReadyKeepsTypes DEF TypeOK, Event
<1>2. \A t \in Source : event[t] <= event'[t] /\ event'[t] \in Int
  BY <1>1, Numeric
<1>3. \A t \in Source : ms'[t] = event'[t] /\ us'[t] = event'[t]
  <2>1. /\ ms' = [ms EXCEPT ![s] = event'[s]] /\ us' = [us EXCEPT ![s] = event'[s]]
    BY DEF DataReady
  <2> QED BY <1>1, <2>1 DEF TypeOK, OrderInv, NoneNewer
<1>4. UNCHANGED <<data, rx_data, sample, mpc, cur, p>>
  BY DEF DataReady, spiVars, mainVars
<1>5. NoneNewer'
  <2>1. \A t \in Source : \A k \in Slots(t) : data'[t][k] <= event'[t]
    BY <1>2, <1>4, Numeric DEF OrderInv, NoneNewer
  <2>2. \A b \in Bus : rx_data'[b][1] \in Source => sample'[b] <= event'[rx_data'[b][1]]
    BY <1>2, <1>4, Numeric DEF OrderInv, NoneNewer
  <2> QED BY <1>3, <2>1, <2>2 DEF NoneNewer
<1>6. CopyInv'
  BY <1>2, <1>4, Numeric DEF OrderInv, CopyInv
<1> QED BY <1>4, <1>5, <1>6 DEF OrderInv, StampNotOlder

\* A step of the DMA or of one of its interrupts keeps it.
LEMMA SpiOrder ==
  ASSUME TypeOK, OrderInv, NEW b \in Bus, Spi(b)
  PROVE  OrderInv'
<1>1. UNCHANGED <<event, ms, us, rx_data, sample, mpc, cur, p>>
  BY DEF Spi, TxHandler, RxHandler, DmaReceive, DmaSent, DmaDone, headVars, mainVars
<1>2. \A s \in Source : \A k \in Slots(s) :
        \/ data'[s][k] = data[s][k]
        \/ data'[s][k] = Mixed
        \/ data'[s][k] = sample[b] /\ rx_data[b] = <<s, k>>
  <2>1. CASE DmaReceive(b)
    <3>1. Mixed \in Event \cup {Mixed} /\ Source \subseteq Buffer
      BY DEF Buffer
    <3> QED BY <2>1, <3>1, StoreType DEF DmaReceive
  <2>2. CASE DmaDone(b)
    <3>1. sample[b] \in Event \cup {Mixed} /\ Source \subseteq Buffer
      BY DEF TypeOK, Buffer
    <3> QED BY <2>2, <3>1, StoreType DEF DmaDone
  <2>3. CASE TxHandler(b) \/ RxHandler(b) \/ DmaSent(b)
    BY <2>3 DEF TxHandler, RxHandler, DmaSent
  <2> QED BY <2>1, <2>2, <2>3 DEF Spi
<1>3. \A s \in Source : event[s] >= 0
  BY DEF TypeOK, Event
<1>4. p.ms >= 0
  BY DEF TypeOK, Packet, Event
<1>5. NoneNewer'
  <2>1. ASSUME NEW s \in Source, NEW k \in Slots(s) PROVE data'[s][k] <= event[s]
    <3>1. CASE data'[s][k] = sample[b] /\ rx_data[b] = <<s, k>>
      BY <3>1 DEF OrderInv, NoneNewer
    <3> QED BY <1>2, <1>3, <3>1, Numeric DEF OrderInv, NoneNewer, Mixed
  <2> QED BY <1>1, <2>1 DEF OrderInv, NoneNewer
<1>6. CopyInv'
  <2> SUFFICES ASSUME mpc \in {"copyUs", "copyData"}, NEW k \in Slots(cur)
               PROVE  data'[cur][k] <= p.ms
    BY <1>1 DEF OrderInv, CopyInv
  <2>1. CASE data'[cur][k] = sample[b] /\ rx_data[b] = <<cur, k>>
    BY <2>1 DEF OrderInv, CopyInv
  <2> QED BY <1>2, <1>4, <2>1, Numeric DEF OrderInv, CopyInv, Mixed
<1> QED BY <1>1, <1>5, <1>6 DEF OrderInv, StampNotOlder

\* A step of main keeps it.
LEMMA MainOrder ==
  ASSUME TypeOK, OrderInv, Main
  PROVE  OrderInv'
<1>1. UNCHANGED <<event, ms, us, data>>
  BY DEF Main, MainBringUp, MainEnable, MainSkip, MainFetch, MainFetchTc, MainClear,
     MainCopyMs, MainCopyUs, MainCopyData, MainSend, MainTftp, headVars
<1>2. ASSUME UNCHANGED <<rx_data, sample>> PROVE NoneNewer'
  BY <1>1, <1>2 DEF OrderInv, NoneNewer
<1>3. ASSUME mpc' \notin {"copyUs", "copyData", "send"}, NoneNewer' PROVE OrderInv'
  BY <1>3 DEF OrderInv, CopyInv, StampNotOlder
<1>4. ASSUME NEW b \in Bus, NEW d, NEW c, NEW f, NEW n, Transfer(b, d, c, f, n),
             f[1] \in Source => n <= event[f[1]]
      PROVE  NoneNewer'
  <2>1. CASE rx_busy[b] \/ tx_busy[b]
    BY <1>2, <1>4, <2>1 DEF Transfer
  <2>2. CASE ~(rx_busy[b] \/ tx_busy[b])
    <3>1. rx_data' = [rx_data EXCEPT ![b] = f] /\ sample' = [sample EXCEPT ![b] = n]
      BY <1>4, <2>2 DEF Transfer
    <3>2. rx_data'[b] = f /\ sample'[b] = n
      BY <3>1 DEF TypeOK
    <3>3. \A x \in Bus \ {b} : rx_data'[x] = rx_data[x] /\ sample'[x] = sample[x]
      BY <3>1 DEF TypeOK
    <3> QED BY <1>1, <1>4, <3>2, <3>3 DEF OrderInv, NoneNewer
  <2> QED BY <2>1, <2>2
<1>5. ASSUME NEW s \in Source, NEW k, Fetch(s, k) PROVE NoneNewer'
  <2>1. BusOf(s) \in Bus /\ <<s, k>>[1] = s
    BY DEF BusOf, Bus
  <2>2. event[s] <= event[s]
    BY Numeric
  <2> QED BY <1>4, <1>5, <2>1, <2>2 DEF Fetch
<1>6. CASE MainBringUp
  <2>1. "ADC" \in Bus /\ <<"config", 0>>[1] \notin Source
    BY DEF Bus, Source, Adc
  <2>2. NoneNewer'
    BY <1>4, <1>6, <2>1 DEF MainBringUp
  <2> QED BY <1>3, <1>6, <2>2 DEF MainBringUp, MainAt
<1>7. CASE MainEnable
  BY <1>2, <1>3, <1>7 DEF MainEnable
<1>8. ASSUME NEW s \in Source, MainSkip(s) PROVE OrderInv'
  BY <1>2, <1>3, <1>8 DEF MainSkip, Branch, spiVars
<1>9. ASSUME NEW s \in Source, MainFetch(s) PROVE OrderInv'
  BY <1>3, <1>5, <1>9 DEF MainFetch
<1>10. CASE MainFetchTc
  <2>1. "tc" \in Source
    BY DEF Source
  <2> QED BY <1>3, <1>5, <1>10, <2>1 DEF MainFetchTc
<1>11. CASE MainClear \/ MainTftp
  BY <1>2, <1>3, <1>11 DEF MainClear, MainTftp, spiVars
<1>12. CASE MainSend
  <2>1. mpc' \notin {"copyUs", "copyData", "send"}
    BY <1>12 DEF MainSend, Branch
  <2> QED BY <1>2, <1>3, <1>12, <2>1 DEF MainSend, spiVars
<1>13. CASE MainCopyMs
  <2>1. /\ mpc' = "copyUs" /\ p'.ms = event[cur] /\ UNCHANGED <<rx_data, sample, cur>>
    BY <1>13, Numeric DEF MainCopyMs, spiVars, OrderInv, NoneNewer, TypeOK, Packet
  <2>2. CopyInv'
    BY <1>1, <2>1, Numeric DEF OrderInv, NoneNewer, CopyInv
  <2> QED BY <1>2, <2>1, <2>2 DEF OrderInv, StampNotOlder
<1>14. CASE MainCopyUs
  <2>1. /\ mpc = "copyUs" /\ mpc' = "copyData" /\ p'.us = event[cur] /\ p'.ms = p.ms
        /\ UNCHANGED <<rx_data, sample, cur>>
    BY <1>14, Numeric DEF MainCopyUs, MainAt, spiVars, OrderInv, NoneNewer, TypeOK, Packet
  <2>2. CopyInv' /\ p'.ms <= p'.us
    BY <1>1, <2>1, Numeric DEF OrderInv, CopyInv
  <2> QED BY <1>2, <2>1, <2>2 DEF OrderInv, StampNotOlder
<1>15. CASE MainCopyData
  <2>1. /\ mpc = "copyData" /\ mpc' = "send" /\ p'.data = data[cur] /\ p'.ms = p.ms
        /\ p'.us = p.us /\ UNCHANGED <<rx_data, sample>>
    BY <1>15 DEF MainCopyData, MainAt, spiVars, TypeOK, Packet
  <2>2. DOMAIN data[cur] = Slots(cur)
    BY DEF TypeOK, Buffer
  <2>3. StampNotOlder'
    BY <2>1, <2>2 DEF OrderInv, CopyInv, StampNotOlder
  <2> QED BY <1>2, <2>1, <2>3 DEF OrderInv, CopyInv
<1> QED BY <1>6, <1>7, <1>8, <1>9, <1>10, <1>11, <1>12, <1>13, <1>14, <1>15 DEF Main

\* No packet carries a measurement that is newer than its time stamp, however
\* interrupts and DMA interleave with main, although main sends a packet while
\* its measurement may still be arriving.
THEOREM StampNotOlderHolds == Spec => []StampNotOlder
<1>1. Init => OrderInv
  <2> SUFFICES ASSUME Init PROVE OrderInv
    OBVIOUS
  <2>1. Source \subseteq Buffer
    BY DEF Buffer
  <2>2. \A s \in Source : \A k \in Slots(s) : data[s][k] = 0
    BY <2>1 DEF Init
  <2>3. \A s \in Source : event[s] = 0 /\ ms[s] = 0 /\ us[s] = 0
    BY DEF Init
  <2>4. \A b \in Bus : sample[b] = 0
    BY DEF Init
  <2> QED BY <2>2, <2>3, <2>4 DEF Init, OrderInv, NoneNewer, CopyInv, StampNotOlder
<1>2. TypeOK /\ OrderInv /\ [Next]_vars => OrderInv'
  <2> SUFFICES ASSUME TypeOK, OrderInv, [Next]_vars PROVE OrderInv'
    OBVIOUS
  <2>1. CASE UNCHANGED vars
    BY <2>1 DEF vars, headVars, spiVars, mainVars, OrderInv, NoneNewer, CopyInv, StampNotOlder
  <2> QED BY <2>1, DataReadyOrder, SpiOrder, MainOrder DEF Next
<1>3. OrderInv => StampNotOlder
  BY DEF OrderInv
<1> QED BY <1>1, <1>2, <1>3, TypeCorrect, PTL DEF Spec

-----------------------------------------------------------------------------
(* The bring-up.                                                           *)

\* The places of each ADC's commands in the bring-up; the others are NULL, or
\* the other ADC's.
Places(a) == IF a = "adc0" THEN <<2, 4, 6, 8, 10, 23, 25>> ELSE <<13, 15, 17, 19, 21, 27, 29>>

\* Where the elements of a concatenation are.
LEMMA Joined ==
  ASSUME NEW S, NEW s \in Seq(S), NEW t \in Seq(S)
  PROVE  /\ s \o t \in Seq(S) /\ Len(s \o t) = Len(s) + Len(t)
         /\ \A i \in 1..Len(s) : (s \o t)[i] = s[i]
         /\ \A i \in (Len(s) + 1)..(Len(s) + Len(t)) : (s \o t)[i] = t[i - Len(s)]
<1> Len(s) \in Nat /\ Len(t) \in Nat
  OBVIOUS
<1> QED BY ConcatProperties

\* The bring-up has four parts.
LEMMA BringUpParts ==
  /\ Len(BringUp) = 30
  /\ \A i \in 1..11 : BringUp[i] = <<"adc0", adc_register_config("adc0")[i]>>
  /\ \A i \in 12..22 : BringUp[i] = <<"adc1", adc_register_config("adc1")[i - 11]>>
  /\ \A i \in 23..26 : BringUp[i] = <<"adc0", xmc_ADC_setup[i - 22]>>
  /\ \A i \in 27..30 : BringUp[i] = <<"adc1", xmc_ADC_setup[i - 26]>>
<1> DEFINE X == To("adc0", adc_register_config("adc0"))
           Y == To("adc1", adc_register_config("adc1"))
           U == To("adc0", xmc_ADC_setup)
           V == To("adc1", xmc_ADC_setup)
           T == Adc \X Command
<1>0. \A a \in Adc : CLK2(a) \in Command
  BY DEF Command
<1>1. \A a \in Adc : adc_register_config(a) \in Seq(Command) /\ Len(adc_register_config(a)) = 11
  BY <1>0 DEF adc_register_config, Command
<1>2. xmc_ADC_setup \in Seq(Command) /\ Len(xmc_ADC_setup) = 4
  BY DEF xmc_ADC_setup, Command
<1>3. ASSUME NEW a \in Adc, NEW c \in Seq(Command)
      PROVE  /\ To(a, c) \in Seq(T) /\ Len(To(a, c)) = Len(c)
             /\ \A i \in 1..Len(c) : To(a, c)[i] = <<a, c[i]>>
  <2>1. \A i \in 1..Len(c) : <<a, c[i]>> \in T
    BY <1>3
  <2> QED BY <2>1, IsASeq DEF To
<1>4. "adc0" \in Adc /\ "adc1" \in Adc
  BY DEF Adc
<1>5. /\ X \in Seq(T) /\ Len(X) = 11 /\ \A i \in 1..11 : X[i] = <<"adc0", adc_register_config("adc0")[i]>>
      /\ Y \in Seq(T) /\ Len(Y) = 11 /\ \A i \in 1..11 : Y[i] = <<"adc1", adc_register_config("adc1")[i]>>
      /\ U \in Seq(T) /\ Len(U) = 4 /\ \A i \in 1..4 : U[i] = <<"adc0", xmc_ADC_setup[i]>>
      /\ V \in Seq(T) /\ Len(V) = 4 /\ \A i \in 1..4 : V[i] = <<"adc1", xmc_ADC_setup[i]>>
  BY <1>1, <1>2, <1>3, <1>4
<1>6. X \in Seq(T) /\ Y \in Seq(T) /\ U \in Seq(T) /\ V \in Seq(T)
  BY <1>5
<1>7. Len(X) = 11 /\ Len(Y) = 11 /\ Len(U) = 4 /\ Len(V) = 4
  BY <1>5
<1> DEFINE Z == X \o Y
           W == Z \o U
<1>8. BringUp = W \o V
  BY DEF BringUp
<1> HIDE DEF X, Y, U, V, T
<1>9. /\ Z \in Seq(T) /\ Len(Z) = Len(X) + Len(Y)
      /\ \A i \in 1..Len(X) : Z[i] = X[i]
      /\ \A i \in (Len(X) + 1)..(Len(X) + Len(Y)) : Z[i] = Y[i - Len(X)]
  BY <1>6, Joined
<1> HIDE DEF Z
<1>10. /\ W \in Seq(T) /\ Len(W) = Len(Z) + Len(U)
       /\ \A i \in 1..Len(Z) : W[i] = Z[i]
       /\ \A i \in (Len(Z) + 1)..(Len(Z) + Len(U)) : W[i] = U[i - Len(Z)]
  <2>1. Z \in Seq(T)
    BY <1>9
  <2> QED BY <1>6, <2>1, Joined
<1> HIDE DEF W
<1>11. /\ Len(BringUp) = Len(W) + Len(V)
       /\ \A i \in 1..Len(W) : BringUp[i] = W[i]
       /\ \A i \in (Len(W) + 1)..(Len(W) + Len(V)) : BringUp[i] = V[i - Len(W)]
  <2>1. W \in Seq(T)
    BY <1>10
  <2> QED BY <1>6, <1>8, <2>1, Joined
<1>a. Len(Z) = 22 /\ Len(W) = 26
  BY <1>7, <1>9, <1>10
<1>b. (\A i \in 1..11 : Z[i] = X[i]) /\ (\A i \in 12..22 : Z[i] = Y[i - 11])
  BY <1>7, <1>9
<1>c. (\A i \in 1..22 : W[i] = Z[i]) /\ (\A i \in 23..26 : W[i] = U[i - 22])
  BY <1>7, <1>a, <1>10
<1>d. Len(BringUp) = 30 /\ (\A i \in 1..26 : BringUp[i] = W[i]) /\ (\A i \in 27..30 : BringUp[i] = V[i - 26])
  BY <1>7, <1>a, <1>11
<1>12. /\ \A i \in 12..22 : i - 11 \in 1..11
       /\ \A i \in 23..26 : i - 22 \in 1..4
       /\ \A i \in 27..30 : i - 26 \in 1..4
  OBVIOUS
<1>13. \A i \in 1..11 : BringUp[i] = X[i]
  BY <1>b, <1>c, <1>d
<1>14. \A i \in 12..22 : BringUp[i] = Y[i - 11]
  BY <1>b, <1>c, <1>d
<1>15. \A i \in 23..26 : BringUp[i] = U[i - 22]
  BY <1>b, <1>c, <1>d
<1>16. \A i \in 27..30 : BringUp[i] = V[i - 26]
  BY <1>d
<1> QED BY <1>5, <1>d, <1>12, <1>13, <1>14, <1>15, <1>16

\* Each transfer of the bring-up either reads, or has the next command of the
\* ADC it goes to.
LEMMA BringUpPlaces ==
  ASSUME NEW n \in 1..30
  PROVE  /\ BringUp[n][2] = "NULL" => \A a \in Adc : \A k \in 1..7 : Places(a)[k] # n
         /\ BringUp[n][2] # "NULL" =>
              /\ BringUp[n][1] \in Adc
              /\ \E k \in 1..7 : Places(BringUp[n][1])[k] = n
                                 /\ BringUp[n][2] = Wanted[BringUp[n][1]][k]
              /\ \A a \in Adc \ {BringUp[n][1]} : \A k \in 1..7 : Places(a)[k] # n
<1> USE DEF Adc
<1>1. CASE n \in 1..11
  <2>1. BringUp[n] = <<"adc0", adc_register_config("adc0")[n]>>
    BY <1>1, BringUpParts
  <2>2. CASE n \in {1, 3, 5, 7, 9, 11}
    BY <2>1, <2>2 DEF adc_register_config, Places
  <2>3. CASE n = 2
    BY <2>1, <2>3 DEF adc_register_config, Places, Wanted, CLK2
  <2>4. CASE n = 4
    BY <2>1, <2>4 DEF adc_register_config, Places, Wanted, CLK2
  <2>5. CASE n = 6
    BY <2>1, <2>5 DEF adc_register_config, Places, Wanted, CLK2
  <2>6. CASE n = 8
    BY <2>1, <2>6 DEF adc_register_config, Places, Wanted, CLK2
  <2>7. CASE n = 10
    <3>1. adc_register_config("adc0")[10] = CLK2("adc0") /\ Wanted["adc0"][5] = CLK2("adc0")
      BY DEF adc_register_config, Wanted
    <3>2. CLK2("adc0") # "NULL"
      BY DEF CLK2
    <3> QED BY <2>1, <2>7, <3>1, <3>2 DEF Places
  <2> QED BY <1>1, <2>2, <2>3, <2>4, <2>5, <2>6, <2>7
<1>2. CASE n \in 12..22
  <2>1. BringUp[n] = <<"adc1", adc_register_config("adc1")[n - 11]>>
    BY <1>2, BringUpParts
  <2>2. CASE n \in {12, 14, 16, 18, 20, 22}
    BY <2>1, <2>2 DEF adc_register_config, Places
  <2>3. CASE n = 13
    BY <2>1, <2>3 DEF adc_register_config, Places, Wanted, CLK2
  <2>4. CASE n = 15
    BY <2>1, <2>4 DEF adc_register_config, Places, Wanted, CLK2
  <2>5. CASE n = 17
    BY <2>1, <2>5 DEF adc_register_config, Places, Wanted, CLK2
  <2>6. CASE n = 19
    BY <2>1, <2>6 DEF adc_register_config, Places, Wanted, CLK2
  <2>7. CASE n = 21
    <3>1. adc_register_config("adc1")[10] = CLK2("adc1") /\ Wanted["adc1"][5] = CLK2("adc1")
      BY DEF adc_register_config, Wanted
    <3>2. CLK2("adc1") # "NULL"
      BY DEF CLK2
    <3> QED BY <2>1, <2>7, <3>1, <3>2 DEF Places
  <2> QED BY <1>2, <2>2, <2>3, <2>4, <2>5, <2>6, <2>7
<1>3. CASE n \in 23..26
  <2>1. BringUp[n] = <<"adc0", xmc_ADC_setup[n - 22]>>
    BY <1>3, BringUpParts
  <2> QED BY <1>3, <2>1 DEF xmc_ADC_setup, Places, Wanted
<1>4. CASE n \in 27..30
  <2>1. BringUp[n] = <<"adc1", xmc_ADC_setup[n - 26]>>
    BY <1>4, BringUpParts
  <2> QED BY <1>4, <2>1 DEF xmc_ADC_setup, Places, Wanted
<1> QED BY <1>1, <1>2, <1>3, <1>4

\* Between the k-th command of ADC a and the one after it.
Between(a, n, k) ==
  /\ k > 0 => Places(a)[k] <= n
  /\ k < 7 => n < Places(a)[k + 1]

\* g is the first k commands that ADC a is to receive.
FirstOf(a, g, k) == g = SubSeq(Wanted[a], 1, k)

\* g is what ADC a is to have received after the first n transfers.
Received(a, g, n) == \E k \in 0..7 : FirstOf(a, g, k) /\ Between(a, n, k)

\* Each ADC's commands keep their order in the bring-up.
LEMMA PlacesGrow ==
  ASSUME NEW a \in Adc
  PROVE  /\ \A k \in 1..7 : Places(a)[k] \in 1..29
         /\ \A j, k \in 1..7 : j < k => Places(a)[j] < Places(a)[k]
<1>1. CASE a = "adc0"
  BY <1>1 DEF Places
<1>2. CASE a = "adc1"
  BY <1>2 DEF Places
<1> QED BY <1>1, <1>2 DEF Adc

\* An ADC is to receive seven commands.
LEMMA WantedType ==
  ASSUME NEW a \in Adc
  PROVE  Wanted[a] \in Seq(Command) /\ Len(Wanted[a]) = 7
<1>1. CLK2(a) \in Command
  BY DEF Command
<1> QED BY <1>1 DEF Wanted, Command

\* Before the first transfer an ADC has received nothing.
LEMMA NothingReceived ==
  ASSUME NEW a \in Adc
  PROVE  Received(a, <<>>, 0)
<1>1. SubSeq(Wanted[a], 1, 0) = <<>>
  BY SubSeqEmpty
<1> QED BY <1>1, PlacesGrow DEF Received, FirstOf, Between

\* A transfer that is not for an ADC leaves what it has received right.
LEMMA NotForThis ==
  ASSUME NEW a \in Adc, NEW g, NEW n \in 1..30, Received(a, g, n - 1),
         \A k \in 1..7 : Places(a)[k] # n
  PROVE  Received(a, g, n)
<1>1. PICK k \in 0..7 : FirstOf(a, g, k) /\ Between(a, n - 1, k)
  BY DEF Received
<1>2. \A i \in 1..7 : Places(a)[i] \in 1..29
  BY PlacesGrow
<1>3. k > 0 => Places(a)[k] <= n
  BY <1>1, <1>2 DEF Between
<1>4. k < 7 => n < Places(a)[k + 1]
  BY <1>1, <1>2 DEF Between
<1>5. Between(a, n, k)
  BY <1>3, <1>4 DEF Between
<1> QED BY <1>1, <1>5 DEF Received

\* A transfer at the place of its j-th command adds that command.
LEMMA ForThis ==
  ASSUME NEW a \in Adc, NEW g, NEW n \in 1..30, Received(a, g, n - 1),
         NEW j \in 1..7, Places(a)[j] = n
  PROVE  Received(a, Append(g, Wanted[a][j]), n)
<1>1. PICK k \in 0..7 : FirstOf(a, g, k) /\ Between(a, n - 1, k)
  BY DEF Received
<1>2. \A i \in 1..7 : Places(a)[i] \in 1..29
  BY PlacesGrow
<1>3. k < j
  <2>1. CASE k = j
    <3>1. Places(a)[k] <= n - 1
      BY <1>1, <2>1 DEF Between
    <3> QED BY <2>1, <3>1
  <2>2. CASE j < k
    <3>1. Places(a)[j] < Places(a)[k] /\ Places(a)[k] \in Int
      BY <1>2, <2>2, PlacesGrow
    <3>2. Places(a)[k] <= n - 1
      BY <1>1, <2>2 DEF Between
    <3> QED BY <3>1, <3>2
  <2> QED BY <2>1, <2>2
<1>4. ~(k + 1 < j)
  <2> SUFFICES ASSUME k + 1 < j PROVE FALSE
    OBVIOUS
  <2>1. Places(a)[k + 1] < Places(a)[j] /\ Places(a)[k + 1] \in Int
    BY <1>2, PlacesGrow
  <2>2. n - 1 < Places(a)[k + 1]
    BY <1>1 DEF Between
  <2> QED BY <2>1, <2>2
<1>5. j = k + 1
  BY <1>3, <1>4
<1>6. FirstOf(a, Append(g, Wanted[a][j]), j)
  <2>1. Wanted[a] \in Seq(Command) /\ j \in 1..Len(Wanted[a])
    <3>1. Len(Wanted[a]) = 7
      BY WantedType
    <3>2. j \in 1..Len(Wanted[a])
      BY <3>1
    <3> QED BY <3>2, WantedType
  <2>2. SubSeq(Wanted[a], 1, j) = SubSeq(Wanted[a], 1, j - 1) \o <<Wanted[a][j]>>
    BY <2>1, SubSeqRecursiveSecond
  <2>3. g \in Seq(Command) /\ Wanted[a][j] \in Command
    <3>1. \A i \in 1..k : Wanted[a][i] \in Command
      BY <1>5, <2>1
    <3>2. g \in Seq(Command)
      BY <1>1, <3>1, SubSeqProperties DEF FirstOf
    <3> QED BY <2>1, <3>2
  <2>4. Append(g, Wanted[a][j]) = g \o <<Wanted[a][j]>>
    BY <2>3, AppendIsConcat
  <2>5. k = j - 1
    BY <1>5
  <2> QED BY <1>1, <2>2, <2>4, <2>5 DEF FirstOf
<1>7. Between(a, n, j)
  BY <1>2, PlacesGrow DEF Between
<1> QED BY <1>6, <1>7 DEF Received

\* After the whole bring-up an ADC has received all its commands.
LEMMA AllReceived ==
  ASSUME NEW a \in Adc, NEW g, Received(a, g, 30)
  PROVE  g = Wanted[a]
<1>1. PICK k \in 0..7 : FirstOf(a, g, k) /\ Between(a, 30, k)
  BY DEF Received
<1>2. k = 7
  BY <1>1, PlacesGrow DEF Between
<1>3. SubSeq(Wanted[a], 1, Len(Wanted[a])) = Wanted[a]
  BY WantedType, SubSeqFull
<1>4. Len(Wanted[a]) = 7
  BY WantedType
<1> QED BY <1>1, <1>2, <1>3, <1>4 DEF FirstOf

\* A transfer of the ADC bus has begun and its command has not gone out yet.
Going == stage["ADC"] \in {"started", "receiving"}

\* The transfers whose command has gone out.
Over == IF Going THEN sent - 1 ELSE sent

\* During the bring-up each ADC has what the transfers that are over have for
\* it, and a transfer that is going is the last that main asked for; from then
\* on it has all of it, and only NULL is sent.
BringUpInv ==
  IF mpc = "bringUp"
    THEN /\ Going => sent > 0 /\ ss["ADC"][1] = BringUp[sent][1] /\ cmd = BringUp[sent][2]
         /\ \A a \in Adc : Received(a, got[a], Over)
    ELSE got = Wanted /\ (Going => cmd = "NULL")

\* What does not touch the ADC bus or the bring-up keeps the invariant.
LEMMA BringUpElsewhere ==
  ASSUME BringUpInv, UNCHANGED <<sent, cmd, got>>, Going' = Going,
         Going => ss'["ADC"] = ss["ADC"],
         mpc' = mpc \/ (mpc # "bringUp" /\ mpc' # "bringUp")
  PROVE  BringUpInv'
<1>1. Over' = Over
  BY DEF Over
<1>2. CASE mpc = "bringUp"
  BY <1>1, <1>2 DEF BringUpInv
<1>3. CASE mpc # "bringUp"
  BY <1>3 DEF BringUpInv
<1> QED BY <1>2, <1>3

\* The command of the transfer that is going goes out: it reaches the ADC it is
\* for, and no other.
LEMMA CommandSent ==
  ASSUME TypeOK, BringUpInv, DmaSent("ADC")
  PROVE  BringUpInv'
<1> "ADC" \in Bus
  BY DEF Bus
<1>1. /\ stage["ADC"] = "receiving" /\ stage'["ADC"] = "sent"
      /\ UNCHANGED <<mpc, sent, cmd, ss>>
      /\ got' = IF cmd = "NULL" THEN got
                ELSE [got EXCEPT ![ss["ADC"][1]] = Append(got[ss["ADC"][1]], cmd)]
  BY DEF DmaSent, TypeOK, mainVars
<1>2. Going /\ ~Going'
  BY <1>1 DEF Going
<1>3. CASE mpc # "bringUp"
  BY <1>1, <1>2, <1>3 DEF BringUpInv
<1>4. CASE mpc = "bringUp"
  <2> DEFINE d == BringUp[sent][1]
  <2>1. /\ sent > 0 /\ ss["ADC"][1] = d /\ cmd = BringUp[sent][2]
        /\ \A a \in Adc : Received(a, got[a], sent - 1)
    BY <1>2, <1>4 DEF BringUpInv, Over
  <2>2. sent \in 1..30
    BY <2>1, BringUpParts DEF TypeOK
  <2>3. got \in [Adc -> Seq(Command)]
    BY DEF TypeOK
  <2>4. CASE cmd = "NULL"
    <3>1. \A a \in Adc : Received(a, got[a], sent)
      <4>1. \A a \in Adc : \A k \in 1..7 : Places(a)[k] # sent
        BY <2>1, <2>2, <2>4, BringUpPlaces
      <4> QED BY <2>1, <2>2, <4>1, NotForThis
    <3> QED BY <1>1, <1>2, <1>4, <2>4, <3>1 DEF BringUpInv, Over
  <2>5. CASE cmd # "NULL"
    <3>1. /\ d \in Adc /\ \A a \in Adc \ {d} : \A k \in 1..7 : Places(a)[k] # sent
      BY <2>1, <2>2, <2>5, BringUpPlaces
    <3>2. PICK k \in 1..7 : Places(d)[k] = sent /\ cmd = Wanted[d][k]
      BY <2>1, <2>2, <2>5, BringUpPlaces
    <3>3. got' = [got EXCEPT ![d] = Append(got[d], cmd)]
      BY <1>1, <2>1, <2>5
    <3> HIDE DEF d
    <3>4. got'[d] = Append(got[d], cmd) /\ \A a \in Adc \ {d} : got'[a] = got[a]
      BY <2>3, <3>1, <3>3
    <3>5. Received(d, got'[d], sent)
      <4>1. Received(d, got[d], sent - 1)
        BY <2>1, <3>1
      <4>2. Received(d, Append(got[d], Wanted[d][k]), sent)
        BY <2>2, <3>1, <3>2, <4>1, ForThis
      <4> QED BY <3>2, <3>4, <4>2
    <3>6. \A a \in Adc \ {d} : Received(a, got'[a], sent)
      BY <2>1, <2>2, <3>1, <3>4, NotForThis
    <3>7. \A a \in Adc : Received(a, got'[a], sent')
      BY <1>1, <3>5, <3>6
    <3> QED BY <1>1, <1>2, <1>4, <3>7 DEF BringUpInv, Over
  <2> QED BY <2>4, <2>5
<1> QED BY <1>3, <1>4

\* Every other step of a bus and its interrupts.
LEMMA BringUpSpi ==
  ASSUME TypeOK, BringUpInv, NEW b \in Bus, Spi(b)
  PROVE  BringUpInv'
<1> "ADC" \in Bus
  BY DEF Bus
<1>1. UNCHANGED <<mpc, sent, cmd, ss>>
  BY DEF Spi, TxHandler, RxHandler, DmaReceive, DmaSent, DmaDone, devVars, mainVars
<1>2. CASE TxHandler(b) \/ RxHandler(b)
  BY <1>1, <1>2, BringUpElsewhere DEF TxHandler, RxHandler, devVars, Going
<1>3. CASE DmaReceive(b)
  <2>1. got' = got /\ Going' = Going
    BY <1>3 DEF DmaReceive, devVars, Going, TypeOK
  <2> QED BY <1>1, <2>1, BringUpElsewhere
<1>4. CASE DmaDone(b)
  <2>1. got' = got /\ Going' = Going
    BY <1>4 DEF DmaDone, devVars, Going, TypeOK
  <2> QED BY <1>1, <2>1, BringUpElsewhere
<1>5. CASE DmaSent(b)
  <2>1. CASE b = "TC"
    <3>1. got' = got /\ Going' = Going
      BY <1>5, <2>1 DEF DmaSent, Going, TypeOK
    <3> QED BY <1>1, <3>1, BringUpElsewhere
  <2> QED BY <1>5, <2>1, CommandSent DEF Bus
<1> QED BY <1>2, <1>3, <1>4, <1>5 DEF Spi

\* A transfer of a measurement is a NULL command.
LEMMA BringUpFetch ==
  ASSUME TypeOK, SpiInv, BringUpInv, NEW s \in Source, NEW k, \A b \in Bus : pend[b] = {},
         CanFetch(s), Fetch(s, k), mpc # "bringUp", mpc' # "bringUp"
  PROVE  BringUpInv'
<1>1. BusOf(s) \in Bus /\ "ADC" \in Bus
  BY DEF BusOf, Bus
<1>2. got' = got /\ got = Wanted /\ (Going => cmd = "NULL")
  BY DEF Fetch, Transfer, BringUpInv
<1>3. ~rx_busy[BusOf(s)] /\ ~tx_busy[BusOf(s)]
  BY <1>1, BusFree DEF CanFetch
<1>4. /\ stage' = [stage EXCEPT ![BusOf(s)] = "started"]
      /\ cmd' = IF BusOf(s) = "ADC" THEN "NULL" ELSE cmd
  BY <1>3 DEF Fetch, Transfer
<1>5. Going' => cmd' = "NULL"
  BY <1>1, <1>2, <1>4 DEF Going, TypeOK
<1> QED BY <1>2, <1>5 DEF BringUpInv

\* A step of main.
LEMMA BringUpMain ==
  ASSUME TypeOK, SpiInv, BringUpInv, Main
  PROVE  BringUpInv'
<1>1. "ADC" \in Bus /\ "tc" \in Source
  BY DEF Bus, Source
<1>2. CASE MainBringUp
  <2>1. /\ mpc = "bringUp" /\ mpc' = "bringUp" /\ sent' = sent + 1 /\ sent \in Nat
        /\ \A b \in Bus : pend[b] = {}
        /\ Transfer("ADC", <<BringUp[sent + 1][1], 0>>, BringUp[sent + 1][2], <<"config", 0>>, 0)
    BY <1>2 DEF MainBringUp, MainAt, TypeOK
  <2>2. ~rx_busy["ADC"] /\ ~tx_busy["ADC"] /\ stage["ADC"] = "idle"
    BY <1>1, <1>2, <2>1, BusFree DEF MainBringUp
  <2>3. /\ ss' = [ss EXCEPT !["ADC"] = <<BringUp[sent + 1][1], 0>>]
        /\ stage' = [stage EXCEPT !["ADC"] = "started"]
        /\ cmd' = BringUp[sent + 1][2] /\ got' = got
    BY <2>1, <2>2 DEF Transfer
  <2>4. /\ ss'["ADC"] = <<BringUp[sent + 1][1], 0>> /\ stage'["ADC"] = "started"
    BY <1>1, <2>3 DEF TypeOK
  <2>5. Going' /\ ~Going
    BY <2>2, <2>4 DEF Going
  <2>6. \A a \in Adc : Received(a, got[a], sent)
    BY <2>1, <2>5 DEF BringUpInv, Over
  <2>7. Over' = sent
    BY <2>1, <2>5 DEF Over
  <2>8. \A a \in Adc : Received(a, got'[a], Over')
    BY <2>3, <2>6, <2>7
  <2>9. sent' > 0 /\ ss'["ADC"][1] = BringUp[sent'][1] /\ cmd' = BringUp[sent'][2]
    BY <2>1, <2>3, <2>4
  <2> QED BY <2>1, <2>8, <2>9 DEF BringUpInv
<1>3. CASE MainEnable
  <2>1. /\ mpc = "bringUp" /\ mpc' # "bringUp" /\ sent = 30 /\ UNCHANGED <<got, stage>>
        /\ \A b \in Bus : pend[b] = {}
    BY <1>3, BringUpParts DEF MainEnable, MainAt, devVars
  <2>2. ~Going
    BY <1>1, <1>3, <2>1, BusFree DEF MainEnable, Going
  <2>3. \A a \in Adc : Received(a, got[a], 30)
    BY <2>1, <2>2 DEF BringUpInv, Over
  <2>4. \A a \in Adc : got[a] = Wanted[a]
    BY <2>3, AllReceived
  <2>5. got = Wanted
    <3>1. got \in [Adc -> Seq(Command)]
      BY DEF TypeOK
    <3>2. DOMAIN Wanted = Adc /\ Wanted = [a \in Adc |-> Wanted[a]]
      BY DEF Wanted
    <3> QED BY <2>4, <3>1, <3>2
  <2>6. ~Going'
    BY <2>1, <2>2 DEF Going
  <2> QED BY <2>1, <2>5, <2>6 DEF BringUpInv
<1>4. ASSUME NEW s \in Source, MainSkip(s) PROVE BringUpInv'
  <2>1. mpc # "bringUp" /\ mpc' # "bringUp"
    BY <1>4 DEF MainSkip, MainAt, Source, Adc, Branch
  <2> QED BY <1>4, <2>1, BringUpElsewhere DEF MainSkip, spiVars, devVars, Going
<1>5. ASSUME NEW s \in Source, MainFetch(s) PROVE BringUpInv'
  <2>1. mpc # "bringUp" /\ mpc' # "bringUp"
    BY <1>5 DEF MainFetch, MainAt, Source, Adc
  <2> QED BY <1>5, <2>1, BringUpFetch DEF MainFetch, MainAt
<1>6. CASE MainFetchTc
  <2>1. mpc # "bringUp" /\ mpc' # "bringUp"
    BY <1>6 DEF MainFetchTc, MainAt
  <2> QED BY <1>1, <1>6, <2>1, BringUpFetch DEF MainFetchTc, MainAt
<1>7. CASE MainClear \/ MainCopyMs \/ MainCopyUs \/ MainCopyData \/ MainSend \/ MainTftp
  <2>1. mpc # "bringUp" /\ mpc' # "bringUp"
    BY <1>7 DEF MainClear, MainCopyMs, MainCopyUs, MainCopyData, MainSend, MainTftp, MainAt, Branch
  <2> QED BY <1>7, <2>1, BringUpElsewhere
      DEF MainClear, MainCopyMs, MainCopyUs, MainCopyData, MainSend, MainTftp, spiVars, devVars, Going
<1> QED BY <1>2, <1>3, <1>4, <1>5, <1>6, <1>7 DEF Main

\* Once the loop runs, each ADC has received exactly its own commands in their
\* order, although main ignores refused transfers and switches the slave select
\* between the two ADCs.
THEOREM BroughtUpHolds == Spec => []BroughtUp
<1>1. Init => BringUpInv
  <2> SUFFICES ASSUME Init PROVE BringUpInv
    OBVIOUS
  <2>1. mpc = "bringUp" /\ sent = 0 /\ ~Going /\ \A a \in Adc : got[a] = <<>>
    BY DEF Init, Going, Bus
  <2> QED BY <2>1, NothingReceived DEF BringUpInv, Over
<1>2. TypeOK /\ SpiInv /\ BringUpInv /\ [Next]_vars => BringUpInv'
  <2> SUFFICES ASSUME TypeOK, SpiInv, BringUpInv, [Next]_vars PROVE BringUpInv'
    OBVIOUS
  <2>1. ASSUME NEW s \in Source, DataReady(s) PROVE BringUpInv'
    BY <2>1, BringUpElsewhere DEF DataReady, spiVars, devVars, mainVars, Going
  <2>2. CASE UNCHANGED vars
    BY <2>2, BringUpElsewhere DEF vars, spiVars, devVars, mainVars, Going
  <2> QED BY <2>1, <2>2, BringUpSpi, BringUpMain DEF Next
<1>3. BringUpInv => BroughtUp
  BY DEF BringUpInv, BroughtUp
<1> QED BY <1>1, <1>2, <1>3, TypeCorrect, SpiInvariant, PTL DEF Spec
=============================================================================
