----------------------------- MODULE EthernetIf -----------------------------
(***************************************************************************)
(* The Ethernet driver (ethernetif.c on xmc_eth_mac.c) with what main.c    *)
(* and lwIP put on top of it: the receive ring and the pool of pbufs, the  *)
(* transmit ring, the pbufs that are used again for every datagram, and    *)
(* the supervision of the link.                                            *)
(*                                                                         *)
(* Two contexts use the driver.  main sends datagrams and can be           *)
(* interrupted between any two steps.  The Ethernet interrupt and the      *)
(* SysTick interrupt (link supervision) have the same priority: one runs   *)
(* to its end before the other starts.  The DMA runs all the time.         *)
(*                                                                         *)
(* What a received frame holds is chosen when the driver looks at it.      *)
(***************************************************************************)
EXTENDS Integers, Sequences

CONSTANTS
  NUM_RX,       \* ETH_LWIP_0_NUM_RX_BUF: 4 in the code
  NUM_TX,       \* ETH_LWIP_0_NUM_TX_BUF: 4 in the code
  POOL          \* PBUF_POOL_SIZE: 16 in the code

ASSUME EthernetIfAssumption == {NUM_RX, NUM_TX, POOL} \subseteq Nat \ {0}

Rx   == 0..(NUM_RX - 1)
Tx   == 0..(NUM_TX - 1)
Pbuf == {"p", "tftp_p"}        \* the two transmit pbufs of main.c
Frame == Pbuf \cup {"arp"}     \* and what lwIP sends by itself

HEADROOM == 56                 \* PBUF_TRANSPORT: room in front of the payload
UDP_HLEN == 8
IP_HLEN  == 20
ETH_HLEN == 16                 \* with ETH_PAD_SIZE

MaxDropped == 3                \* bound: dropped datagrams are counted up to this

VARIABLES
  rx_own,             \* receive descriptors that belong to the DMA
  rx_index, rx_dma,   \* next descriptor of the driver, of the DMA
  event,              \* the MAC's receive event: keeps the interrupt pending
  pool,               \* free pbufs of the receive pool
  cut,                \* history: the last turn of ethernetif_input lost its frame
  tx_own, tx_buf,     \* transmit descriptors of the DMA, and the buffers' contents
  tx_index, tx_dma,
  tx_susp,            \* the transmit DMA waits for a poll demand
  queue,              \* history: frames accepted and not yet sent
  raced,              \* history: the interrupt sent while main was sending
  room,               \* bytes left in front of each pbuf's payload
  dropped,            \* history: datagrams refused for want of room
  spoiled,            \* history: the interrupt wrote a reply into the pbuf main was
                      \* sending
  link,               \* "down", "up", or "hung" in ETH_LWIP_Error
  ipc, todo,          \* the interrupt running, and the frames it will send
  mpc, cur, buffer,   \* main in udp_sendto_if: the pbuf, and the buffer it fills
  rewritten           \* the pbuf no longer holds the datagram main is sending

rxVars   == <<rx_own, rx_index, rx_dma, event, pool, cut>>
ringVars == <<tx_own, tx_buf, tx_index, queue, raced>>
txVars   == <<ringVars, tx_dma, tx_susp>>
pbufVars == <<room, dropped, spoiled>>
mainVars == <<mpc, cur, buffer, rewritten>>
vars     == <<rxVars, txVars, pbufVars, link, ipc, todo, mainVars>>

Init ==
  /\ rx_own = [d \in Rx |-> TRUE] /\ rx_index = 0 /\ rx_dma = 0
  /\ event = FALSE /\ pool = POOL /\ cut = FALSE
  /\ tx_own = [d \in Tx |-> FALSE] /\ tx_buf = [d \in Tx |-> "none"]
  /\ tx_index = 0 /\ tx_dma = 0 /\ tx_susp = FALSE
  /\ queue = <<>> /\ raced = FALSE
  /\ room = [b \in Pbuf |-> HEADROOM] /\ dropped = [b \in Pbuf |-> 0]
  /\ spoiled = FALSE
  /\ link = "down"
  /\ ipc = "idle" /\ todo = <<>>
  /\ mpc = "idle" /\ cur = "p" /\ buffer = 0 /\ rewritten = FALSE

-----------------------------------------------------------------------------
(* The DMA hardware.                                                       *)

\* A frame arrives.  Without a free descriptor it is lost.
DmaReceive ==
  /\ link = "up" /\ rx_own[rx_dma]
  /\ rx_own' = [rx_own EXCEPT ![rx_dma] = FALSE]
  /\ rx_dma' = (rx_dma + 1) % NUM_RX
  /\ event' = TRUE
  /\ UNCHANGED <<rx_index, pool, cut, txVars, pbufVars, link, ipc, todo, mainVars>>

DmaTransmit ==
  /\ link = "up" /\ ~tx_susp /\ tx_own[tx_dma]
  /\ tx_own' = [tx_own EXCEPT ![tx_dma] = FALSE]
  /\ tx_buf' = [tx_buf EXCEPT ![tx_dma] = "none"]
  /\ tx_dma' = (tx_dma + 1) % NUM_TX
  /\ queue' = IF raced THEN queue ELSE Tail(queue)
  /\ UNCHANGED <<rxVars, tx_index, tx_susp, raced, pbufVars, link, ipc, todo, mainVars>>

\* The next descriptor is not the DMA's: it stops until a poll demand.
DmaSuspend ==
  /\ link = "up" /\ ~tx_susp /\ ~tx_own[tx_dma]
  /\ tx_susp' = TRUE
  /\ UNCHANGED <<rxVars, ringVars, tx_dma, pbufVars, link, ipc, todo, mainVars>>

-----------------------------------------------------------------------------
(* Reception: IRQ_Hdlr_108, ethernetif_input, low_level_input.             *)

Interrupt == link = "up" /\ event

\* The event is cleared before the ring is looked at.
IrqEnter ==
  /\ ipc = "idle" /\ Interrupt
  /\ ipc' = "input"
  /\ event' = FALSE
  /\ cut' = FALSE
  /\ UNCHANGED <<rx_own, rx_index, rx_dma, pool, txVars, pbufVars, link, todo, mainVars>>

InLoop == ipc = "input" /\ todo = <<>>

\* Mutant of ReturnRxDescriptor: the wrap-around is one too late.
ReturnRxDescriptorMutant ==
  /\ rx_own' = [rx_own EXCEPT ![rx_index] = TRUE]
  /\ rx_index' = (rx_index + 1) % (NUM_RX + 1)

ReturnRxDescriptor ==
  /\ rx_own' = [rx_own EXCEPT ![rx_index] = TRUE]
  /\ rx_index' = (rx_index + 1) % NUM_RX

\* No frame, and the loop ends.
IrqExit ==
  /\ InLoop /\ rx_own[rx_index]
  /\ ipc' = "idle"
  /\ UNCHANGED <<rxVars, txVars, pbufVars, link, todo, mainVars>>

\* Mutant of IrqLose: the descriptor is returned only with a pbuf filled.
IrqLoseMutant ==
  /\ InLoop /\ ~rx_own[rx_index]
  /\ ipc' = "idle" /\ cut' = TRUE
  /\ UNCHANGED <<rx_own, rx_index, rx_dma, event, pool, txVars, pbufVars, link, todo, mainVars>>

\* A frame that is bad or too long, or for which the pool has no pbuf: it is
\* dropped, and as low_level_input returns NULL the loop ends, too.
IrqLose ==
  /\ InLoop /\ ~rx_own[rx_index]
  /\ ReturnRxDescriptor
  /\ ipc' = "idle" /\ cut' = TRUE
  /\ UNCHANGED <<rx_dma, event, pool, txVars, pbufVars, link, todo, mainVars>>

\* A frame goes to lwIP, or is not for it and freed.  lwIP frees its pbuf when
\* it is done, and may answer (ARP, ICMP) or send a datagram that waited for
\* this ARP reply.
IrqFrame ==
  /\ InLoop /\ ~rx_own[rx_index] /\ pool > 0
  /\ ReturnRxDescriptor
  /\ todo' \in {<<>>, <<"arp">>}
  /\ UNCHANGED <<rx_dma, event, pool, cut, txVars, pbufVars, link, ipc, mainVars>>

\* A datagram for the TFTP port: tftp_recv sends up to two replies and does
\* not free the pbuf.
IrqTftp ==
  /\ InLoop /\ ~rx_own[rx_index] /\ pool > 0
  /\ ReturnRxDescriptor
  /\ pool' = pool - 1
  /\ todo' \in {<<>>, <<"tftp_p">>, <<"tftp_p", "tftp_p">>}
  /\ UNCHANGED <<rx_dma, event, cut, txVars, pbufVars, link, ipc, mainVars>>

-----------------------------------------------------------------------------
(* Link supervision: ethernetif_link_status, in the SysTick interrupt.     *)

\* The cable is out: interrupt, receiver and transmitter are switched off.
LinkDown ==
  /\ ipc = "idle" /\ link = "up"
  /\ link' = "down"
  /\ UNCHANGED <<rxVars, txVars, pbufVars, ipc, todo, mainVars>>

\* The cable is in: everything is switched on, and lwIP announces the address.
LinkUp ==
  /\ ipc = "idle" /\ link = "down"
  /\ link' = "up"
  /\ tx_susp' = FALSE
  /\ ipc' = "link" /\ todo' = <<"arp">>
  /\ UNCHANGED <<rxVars, ringVars, tx_dma, pbufVars, mainVars>>

\* The PHY does not answer or negotiate in time: ETH_LWIP_Error does not return.
LinkError ==
  /\ ipc = "idle" /\ link = "down"
  /\ link' = "hung"
  /\ UNCHANGED <<rxVars, txVars, pbufVars, ipc, todo, mainVars>>

-----------------------------------------------------------------------------
(* Transmission.                                                           *)

InWindow == mpc \in {"copyHead", "copyTail", "size", "return"}

\* low_level_output in an interrupt: nobody comes in between.
Output(f) ==
  /\ tx_susp' = FALSE
  /\ IF tx_own[tx_index]
       THEN UNCHANGED ringVars
       ELSE /\ tx_buf' = [tx_buf EXCEPT ![tx_index] = f]
            /\ tx_own' = [tx_own EXCEPT ![tx_index] = TRUE]
            /\ tx_index' = (tx_index + 1) % NUM_TX
            /\ raced' = (raced \/ InWindow)
            /\ queue' = IF raced' THEN <<>> ELSE Append(queue, f)

\* pbuf_header: n bytes in front of the payload, if there is room.
HasRoom(b, n) == room[b] >= n

Count(n) == IF n < MaxDropped THEN n + 1 ELSE n

\* Mutant of Headers: a failed send gives the room back.
HeadersMutant(b, r, ok) ==
  \/ room[b] >= UDP_HLEN + IP_HLEN + ETH_HLEN /\ ok /\ r = room[b] - (UDP_HLEN + IP_HLEN + ETH_HLEN)
  \/ room[b] < UDP_HLEN + IP_HLEN + ETH_HLEN /\ room[b] >= UDP_HLEN /\ ~ok /\ r = room[b]
  \/ room[b] < UDP_HLEN /\ ok /\ r = room[b]

\* The headers that udp_sendto_if, ip_output_if and etharp_output put in front
\* of pbuf b's payload leave r bytes of room; ok says whether all fitted.  If
\* there is no room for the first a pbuf for the headers is chained in front.
\* Nobody moves the payload back.
Headers(b, r, ok) ==
  \/ ok /\ HasRoom(b, UDP_HLEN + IP_HLEN + ETH_HLEN) /\ r = room[b] - UDP_HLEN - IP_HLEN - ETH_HLEN
  \/ ~ok /\ HasRoom(b, UDP_HLEN + IP_HLEN) /\ ~HasRoom(b, UDP_HLEN + IP_HLEN + ETH_HLEN)
         /\ r = room[b] - UDP_HLEN - IP_HLEN
  \/ ~ok /\ HasRoom(b, UDP_HLEN) /\ ~HasRoom(b, UDP_HLEN + IP_HLEN) /\ r = room[b] - UDP_HLEN
  \/ ok /\ ~HasRoom(b, UDP_HLEN) /\ r = room[b]

\* The interrupt sends its next frame.
IrqSendArp ==
  /\ todo # <<>> /\ Head(todo) = "arp"
  /\ Output("arp")
  /\ todo' = Tail(todo)
  /\ UNCHANGED <<rxVars, tx_dma, pbufVars, link, ipc, mainVars>>

\* tftp_err, tftp_ack: the reply is written into tftp_p, and the length set,
\* whatever main was doing with that pbuf.
WriteReply ==
  /\ rewritten' = (rewritten \/ cur = "tftp_p")
  /\ spoiled' = (spoiled \/ cur = "tftp_p")

\* The reply is written first; then it is sent, or refused, or the address is
\* not resolved.
IrqSendTftp ==
  /\ todo # <<>> /\ Head(todo) = "tftp_p"
  /\ WriteReply
  /\ \E ok \in BOOLEAN, r \in 0..HEADROOM :
       /\ Headers("tftp_p", r, ok)
       /\ room' = [room EXCEPT !["tftp_p"] = r]
       /\ dropped' = IF ok THEN dropped ELSE [dropped EXCEPT !["tftp_p"] = Count(@)]
       /\ \/ ok /\ Output("tftp_p")
          \/ UNCHANGED <<ringVars, tx_susp>>
  /\ todo' = Tail(todo)
  /\ UNCHANGED <<rxVars, tx_dma, link, ipc, mpc, cur, buffer>>

LinkDone ==
  /\ ipc = "link" /\ todo = <<>>
  /\ ipc' = "idle"
  /\ UNCHANGED <<rxVars, txVars, pbufVars, link, todo, mainVars>>

\* main runs: no interrupt is running or pending.
MainAt(l) == mpc = l /\ ipc = "idle" /\ link # "hung" /\ ~Interrupt

\* udp_sendto_if returns, and its variables are gone.
MainReturns == mpc' = "idle" /\ cur' = "p" /\ buffer' = 0 /\ rewritten' = FALSE

\* low_level_output returns.  If the frame was an ARP request of
\* etharp_output_to_arp_index or etharp_query the datagram's frame may follow.
MainSent ==
  \/ MainReturns
  \/ mpc' = "check" /\ buffer' = 0 /\ UNCHANGED <<cur, rewritten>>

\* send_data, or one of the TFTP replies of main: the pbuf is filled and
\* udp_sendto_if entered.
MainStart(b) ==
  /\ MainAt("idle")
  /\ cur' = b /\ mpc' = "udp" /\ rewritten' = FALSE
  /\ UNCHANGED <<rxVars, txVars, pbufVars, link, ipc, todo, buffer>>

\* main puts a header of n bytes in front, if it fits.
MainHeader(l, n, next) ==
  /\ MainAt(l) /\ HasRoom(cur, n)
  /\ room' = [room EXCEPT ![cur] = @ - n]
  /\ mpc' = next
  /\ UNCHANGED <<rxVars, txVars, dropped, spoiled, link, ipc, todo, cur, buffer, rewritten>>

\* No room for the UDP header: all headers go to a pbuf of their own.
MainChain ==
  /\ MainAt("udp") /\ ~HasRoom(cur, UDP_HLEN)
  /\ mpc' = "check"
  /\ UNCHANGED <<rxVars, txVars, pbufVars, link, ipc, todo, cur, buffer, rewritten>>

\* No room for the IP or the Ethernet header: the datagram is given up.
MainDrop(l, n) ==
  /\ MainAt(l) /\ ~HasRoom(cur, n)
  /\ dropped' = [dropped EXCEPT ![cur] = Count(@)]
  /\ MainReturns
  /\ UNCHANGED <<rxVars, txVars, room, spoiled, link, ipc, todo>>

MainHeaders ==
  \/ MainHeader("udp", UDP_HLEN, "ip")
  \/ MainHeader("ip", IP_HLEN, "eth")
  \/ MainHeader("eth", ETH_HLEN, "check")
  \/ MainChain
  \/ MainDrop("ip", IP_HLEN) \/ MainDrop("eth", ETH_HLEN)

\* No memory for the pbuf of the headers, no route, or etharp_output does not
\* know the hardware address yet and lwIP keeps the datagram.
MainUnresolved ==
  /\ MainAt("check")
  /\ MainReturns
  /\ UNCHANGED <<rxVars, txVars, pbufVars, link, ipc, todo>>

\* low_level_output: the ring is full.
MainFull ==
  /\ MainAt("check") /\ tx_own[tx_index]
  /\ tx_susp' = FALSE
  /\ MainSent
  /\ UNCHANGED <<rxVars, ringVars, tx_dma, pbufVars, link, ipc, todo>>

\* Mutant of MainGetBuffer: the owner of the descriptor is not looked at.
MainGetBufferMutant ==
  /\ MainAt("check")
  /\ buffer' = tx_index
  /\ mpc' = "copyHead"
  /\ UNCHANGED <<rxVars, txVars, pbufVars, link, ipc, todo, cur, rewritten>>

MainGetBuffer ==
  /\ MainAt("check") /\ ~tx_own[tx_index]
  /\ buffer' = tx_index
  /\ mpc' = "copyHead"
  /\ UNCHANGED <<rxVars, txVars, pbufVars, link, ipc, todo, cur, rewritten>>

MainCopyHead ==
  /\ MainAt("copyHead")
  /\ tx_buf' = [tx_buf EXCEPT ![buffer] = "mixed"]
  /\ mpc' = "copyTail"
  /\ UNCHANGED <<rxVars, tx_own, tx_index, queue, raced, tx_dma, tx_susp, pbufVars,
                 link, ipc, todo, cur, buffer, rewritten>>

\* If the buffer has changed since the copy began, or the pbuf since main filled
\* it, the frame is made of two.
MainCopyTail ==
  /\ MainAt("copyTail")
  /\ tx_buf' = [tx_buf EXCEPT ![buffer] = IF @ = "mixed" /\ ~rewritten THEN cur ELSE "mixed"]
  /\ mpc' = "size"
  /\ UNCHANGED <<rxVars, tx_own, tx_index, queue, raced, tx_dma, tx_susp, pbufVars,
                 link, ipc, todo, cur, buffer, rewritten>>

\* XMC_ETH_MAC_SetTxBufferSize: the length goes to the descriptor at tx_index.
MainSetSize ==
  /\ MainAt("size")
  /\ tx_buf' = [tx_buf EXCEPT ![tx_index] = IF tx_index = buffer THEN @ ELSE "mixed"]
  /\ mpc' = "return"
  /\ UNCHANGED <<rxVars, tx_own, tx_index, queue, raced, tx_dma, tx_susp, pbufVars,
                 link, ipc, todo, cur, buffer, rewritten>>

\* XMC_ETH_MAC_ReturnTxDescriptor: whatever is at tx_index becomes the DMA's.
MainReturn ==
  /\ MainAt("return")
  /\ tx_own' = [tx_own EXCEPT ![tx_index] = TRUE]
  /\ tx_index' = (tx_index + 1) % NUM_TX
  /\ queue' = IF raced THEN queue ELSE Append(queue, cur)
  /\ mpc' = "resume"
  /\ UNCHANGED <<rxVars, tx_buf, raced, tx_dma, tx_susp, pbufVars,
                 link, ipc, todo, cur, buffer, rewritten>>

\* Mutant of MainResume: no poll demand after a frame was queued.
MainResumeMutant ==
  /\ MainAt("resume")
  /\ MainReturns
  /\ UNCHANGED <<rxVars, txVars, pbufVars, link, ipc, todo>>

MainResume ==
  /\ MainAt("resume")
  /\ tx_susp' = FALSE
  /\ MainSent
  /\ UNCHANGED <<rxVars, ringVars, tx_dma, pbufVars, link, ipc, todo>>

Main ==
  \/ \E b \in Pbuf : MainStart(b)
  \/ MainHeaders
  \/ MainUnresolved \/ MainFull \/ MainGetBuffer
  \/ MainCopyHead \/ MainCopyTail \/ MainSetSize \/ MainReturn \/ MainResume

Irq ==
  \/ IrqEnter \/ IrqExit \/ IrqLose \/ IrqFrame \/ IrqTftp
  \/ LinkDown \/ LinkUp \/ LinkError \/ LinkDone
  \/ IrqSendArp \/ IrqSendTftp

Dma == DmaReceive \/ DmaTransmit \/ DmaSuspend

Next == Main \/ Irq \/ Dma

Spec == Init /\ [][Next]_vars

-----------------------------------------------------------------------------
(* Properties.                                                             *)

\* Every variable stays in its range; in particular the descriptor indices,
\* and the pool never has more pbufs than it was created with.
TypeOK ==
  /\ rx_own \in [Rx -> BOOLEAN] /\ rx_index \in Rx /\ rx_dma \in Rx
  /\ event \in BOOLEAN /\ pool \in 0..POOL /\ cut \in BOOLEAN
  /\ tx_own \in [Tx -> BOOLEAN] /\ tx_buf \in [Tx -> Frame \cup {"none", "mixed"}]
  /\ tx_index \in Tx /\ tx_dma \in Tx /\ tx_susp \in BOOLEAN
  /\ queue \in Seq(Frame) /\ raced \in BOOLEAN
  /\ room \in [Pbuf -> 0..HEADROOM] /\ dropped \in [Pbuf -> 0..MaxDropped]
  /\ spoiled \in BOOLEAN
  /\ link \in {"down", "up", "hung"}
  /\ ipc \in {"idle", "input", "link"} /\ todo \in Seq(Frame)
  /\ mpc \in {"idle", "udp", "ip", "eth", "check", "copyHead", "copyTail", "size",
              "return", "resume"}
  /\ cur \in Pbuf /\ buffer \in Tx /\ rewritten \in BOOLEAN

\* The receive interrupt is not lost.  A frame stays in the ring with nobody
\* about to look at it only when ethernetif_input ended early, at a frame that
\* was bad or found no pbuf; and then the ring has room for the next frame,
\* whose interrupt takes care of those left.  The driver is never deaf
\* because the ring is full and no interrupt will come.
FramesNotForgotten ==
  ipc = "idle" /\ ~event /\ (\E d \in Rx : ~rx_own[d]) =>
    cut /\ \E d \in Rx : rx_own[d]

\* What a buffer holds is the frame f; a TFTP frame may be mixed up once a reply
\* was written into the pbuf main was sending.
Carries(x, f, overwritten) == x = f \/ (overwritten /\ f = "tftp_p" /\ x = "mixed")

\* As long as the interrupt never sent while main was inside low_level_output
\* the transmit ring is a queue: the frames accepted and not yet sent are in
\* its buffers, whole and in order, from the DMA's descriptor up to tx_index.
\* A reply written into tftp_p under main's hands, sent or refused, spoils
\* frames of that pbuf only: never a measurement, never the ring.
RingIsQueue ==
  ~raced =>
    /\ Len(queue) <= NUM_TX
    /\ tx_index = (tx_dma + Len(queue)) % NUM_TX
    /\ \A i \in 0..(NUM_TX - 1) :
         LET d == (tx_dma + i) % NUM_TX
         IN  /\ tx_own[d] <=> i < Len(queue)
             /\ tx_own[d] => Carries(tx_buf[d], queue[i + 1], spoiled)

\* The transmit DMA never sleeps on a frame it has been given, except while
\* main is between giving it and waking the DMA.  This holds even when main
\* and the interrupt send at the same time.
TransmitAwake == tx_susp /\ tx_own[tx_dma] => mpc = "resume"

\* The pbufs are used again and again and nobody moves the payload back after
\* the headers were put in front.  Still a datagram is given up for want of
\* room at most once in the life of the data pbuf, and twice in that of the
\* TFTP pbuf, which the interrupt may use while main does.
FewDatagramsDropped == dropped["p"] <= 1 /\ dropped["tftp_p"] <= 2

-----------------------------------------------------------------------------
(* What the sources say and the code does not do.                          *)

\* udp.h:75 "The callback is responsible for freeing the pbuf if it's not used
\* any more": when no frame is being handled every pbuf is back in the pool.
BuffersReturned == InLoop \/ ipc = "idle" => pool = POOL
=============================================================================
