-------------------------- MODULE TftpServerProofs --------------------------
(***************************************************************************)
(* Proofs about TftpServer for every value of its constants: any block and *)
(* buffer size, any set of packets, any number of clients and parameters.  *)
(***************************************************************************)
EXTENDS TftpServer, ConfigCommandsProofs, SequenceTheorems, TLAPS

\* The datagrams tftp_ack and tftp_err send are well-formed.
LEMMA ReplyTypes ==
  ASSUME NEW c \in Clients, NEW n \in Nat
  PROVE  /\ tftp_ack(n, c) \in Seq(Datagram) /\ Len(tftp_ack(n, c)) = 1
         /\ tftp_err(c) \in Seq(Datagram) /\ Len(tftp_err(c)) = 1
BY DEF tftp_ack, tftp_err, Datagram, Contents, AckPkt, ErrPkt, NoBody, MsgBody

\* Answering a packet with well-formed replies keeps out and tftp_p typed.
LEMMA RespondType ==
  ASSUME NEW pkt \in Packet, NEW replies \in Seq(Datagram),
         tftp_p \in Contents, Respond(pkt, replies)
  PROVE  out' \in Seq(Datagram) /\ tftp_p' \in Contents
<1> DEFINE all == TooSmall(pkt) \o replies
<1>1. TooSmall(pkt) \in Seq(Datagram)
  BY ReplyTypes DEF TooSmall, Packet
<1>2. all \in Seq(Datagram)
  BY <1>1
<1>3. all # <<>> => all[Len(all)] \in Datagram
  BY <1>2
<1>4. all # <<>> => all[Len(all)].pkt \in Contents
  BY <1>3 DEF Datagram
<1> QED BY <1>2, <1>4 DEF Respond

-----------------------------------------------------------------------------
\* Every packet is well-formed, and a data packet that has a whole header
\* carries p->len - 4 cells.
LEMMA PacketFacts ==
  ASSUME NEW pkt \in Packets
  PROVE  /\ pkt \in Packet
         /\ pkt.from \in Clients /\ pkt.block \in Nat /\ pkt.plen \in Nat
         /\ pkt.data \in Seq(Cell)
         /\ pkt.plen >= HEADER /\ pkt.op = "DATA" => Len(pkt.data) = pkt.plen - HEADER
BY PacketsAssumption DEF Packet

\* tftp_recv keeps the types, whatever the packet.
LEMMA RecvType ==
  ASSUME TypeOK, NEW pkt \in Packets, tftp_recv(pkt)
  PROVE  TypeOK'
<1> USE DEF TypeOK, recvVars, cfgVars, mainVars
<1> DEFINE a == tftp_ack(curr_block, pkt.from)
           e == tftp_err(pkt.from)
<1>1. /\ pkt \in Packet /\ pkt.from \in Clients /\ pkt.block \in Nat
      /\ pkt.plen \in Nat /\ pkt.data \in Seq(Cell)
  BY PacketFacts
<1>2. /\ a \in Seq(Datagram) /\ e \in Seq(Datagram) /\ <<>> \in Seq(Datagram)
      /\ a \o e \in Seq(Datagram) /\ a \o a \in Seq(Datagram)
      /\ a \o <<>> \in Seq(Datagram)
  BY <1>1, ReplyTypes
<1>3. ErrPkt \in Contents
  BY DEF ErrPkt, Contents, MsgBody
<1>4. tftp_buff \o pkt.data \in Seq(Cell) /\ <<>> \in Seq(Cell)
  BY <1>1
<1>5. Apply(File(pkt), flash) \in Config
  BY <1>4, ApplyType DEF File
<1>6. \A cfg \in Config : cfg[SrcIp] \in Values
  BY ConstantsAssumption DEF Config
<1>7. ASSUME Refuse(pkt) PROVE TypeOK'
  BY <1>7, <1>1, <1>2, RespondType DEF Refuse
<1>8. ASSUME RefuseMode(pkt) PROVE TypeOK'
  <2>1. PICK r \in Seq(Datagram) : Respond(pkt, r)
    BY <1>8, <1>2 DEF RefuseMode
  <2> QED BY <1>8, <2>1, <1>1, RespondType DEF RefuseMode
<1>9. CASE RecvUnsupported(pkt)
  <2>1. CASE pkt.frag
    BY <1>9, <2>1, <1>2, <1>3 DEF RecvUnsupported
  <2>2. CASE ~pkt.frag
    BY <1>9, <2>2, <1>1, <1>2, RespondType DEF RecvUnsupported
  <2> QED BY <2>1, <2>2
<1>10. CASE RecvWrqAccept(pkt)
  BY <1>10, <1>1, <1>2, RespondType DEF RecvWrqAccept
<1>11. CASE RecvWrqRefuse(pkt)
  BY <1>11, <1>7, <1>8 DEF RecvWrqRefuse
<1>12. CASE RecvWrqAbandon(pkt)
  <2>1. out' \in Seq(Datagram) /\ tftp_p' \in Contents
    BY <1>12, <1>1, <1>2, RespondType DEF RecvWrqAbandon
  <2>2. got' \in Seq(Nat) /\ left_over' \in Nat
    BY <1>12 DEF RecvWrqAbandon, tftp_buff_index
  <2> QED BY <1>12, <2>1, <2>2 DEF RecvWrqAbandon
<1>13. CASE RecvRrqAccept(pkt)
  BY <1>13, <1>1, <1>2, RespondType DEF RecvRrqAccept
<1>14. CASE RecvRrqRefuse(pkt)
  BY <1>14, <1>7, <1>8 DEF RecvRrqRefuse
<1>15. CASE RecvAck(pkt)
  BY <1>15, <1>1, <1>2, RespondType DEF RecvAck
<1>16. CASE RecvDataRefuse(pkt)
  BY <1>16, <1>7 DEF RecvDataRefuse
<1>17. CASE RecvDataTooLarge(pkt)
  BY <1>17, <1>1, <1>2, <1>4, RespondType DEF RecvDataTooLarge, EndTransfer
<1>18. CASE RecvDataFault(pkt)
  BY <1>18, <1>1, <1>2, RespondType DEF RecvDataFault
<1>19. CASE RecvDataMore(pkt)
  BY <1>19, <1>1, <1>2, <1>4, RespondType DEF RecvDataMore
<1>20. CASE RecvDataParseError(pkt)
  <2>1. out' \in Seq(Datagram) /\ tftp_p' \in Contents
    BY <1>20, <1>1, <1>2, RespondType DEF RecvDataParseError
  <2> QED BY <1>20, <2>1, <1>4, <1>5 DEF RecvDataParseError, EndTransfer
<1>21. CASE RecvDataConfigure(pkt)
  <2>1. PICK ok \in BOOLEAN :
          /\ write_flash_config(flash', ok)
          /\ Respond(pkt, a \o (IF ok THEN a ELSE e))
    BY <1>21 DEF RecvDataConfigure
  <2>2. out' \in Seq(Datagram) /\ tftp_p' \in Contents
    <3>1. a \o (IF ok THEN a ELSE e) \in Seq(Datagram)
      BY <1>2
    <3> QED BY <2>1, <3>1, <1>1, RespondType
  <2>3. flash' \in Config /\ eeprom_buf' \in Config /\ stored' \in Config
    BY <1>21, <2>1, <1>5 DEF RecvDataConfigure, write_flash_config
  <2>4. netif_ip' \in Values
    BY <1>21, <2>3, <1>6 DEF RecvDataConfigure, local_udp_reset
  <2> QED BY <1>21, <2>2, <2>3, <2>4, <1>4 DEF RecvDataConfigure, EndTransfer
<1>22. CASE RecvDataReset(pkt)
  <2>1. PICK ok \in BOOLEAN :
          /\ write_flash_config(flash', ok)
          /\ Respond(pkt, a \o (IF ok THEN <<>> ELSE e))
    BY <1>22 DEF RecvDataReset
  <2>2. out' \in Seq(Datagram) /\ tftp_p' \in Contents
    <3>1. a \o (IF ok THEN <<>> ELSE e) \in Seq(Datagram)
      BY <1>2
    <3> QED BY <2>1, <3>1, <1>1, RespondType
  <2>3. flash' \in Config /\ eeprom_buf' \in Config /\ stored' \in Config
    BY <1>22, <2>1, <1>5 DEF RecvDataReset, write_flash_config
  <2>4. netif_ip' \in Values
    BY <1>22, <2>3, <1>6 DEF RecvDataReset, local_udp_reset
  <2> QED BY <1>22, <2>2, <2>3, <2>4, <1>4 DEF RecvDataReset, File
<1> QED BY <1>9, <1>10, <1>11, <1>12, <1>13, <1>14, <1>15, <1>16, <1>17, <1>18, <1>19,
           <1>20, <1>21, <1>22 DEF tftp_recv

-----------------------------------------------------------------------------
(* The main loop and the reader's protocol.  The type of len needs to know *)
(* that main waits for an ACK only after a full block.                     *)

ReadInv ==
  /\ mpc # "loop" => tftp_send
  /\ mpc = "wait" => IsFullBlock(len)

TypedReadInv == TypeOK /\ ReadInv

\* The steps of the main loop, the timer and a reboot keep the types.
LEMMA MainType ==
  ASSUME TypedReadInv, Main \/ TimeStampIRQ \/ Reboot
  PROVE  TypeOK'
<1> USE DEF TypedReadInv, TypeOK, recvVars, cfgVars, MainAt
<1>1. <<>> \in Seq(Datagram) /\ <<>> \in Seq(Cell)
  OBVIOUS
<1>2. CASE MainStartSend
  BY <1>1, <1>2, ConstantsAssumption DEF MainStartSend
<1>3. CASE MainFillHeader
  BY <1>1, <1>3 DEF MainFillHeader, Contents
<1>4. CASE MainFillBody
  <2>1. tftp_p' \in Contents
    <3>1. tftp_p \in Contents /\ block_num \in Nat
      OBVIOUS
    <3>2. tftp_p' = [tftp_p EXCEPT !.body = IF len = 0 THEN NoBody ELSE block_num]
      BY <1>4 DEF MainFillBody
    <3> QED BY ONLY <3>1, <3>2 DEF Contents, NoBody
  <2> QED BY <1>1, <1>4, <2>1 DEF MainFillBody
<1>5. CASE MainSend \/ MainSendError
  BY <1>1, <1>5 DEF MainSend, MainSendError
<1>0. Frame \in Contents /\ AckPkt(0) \in Contents
  <2>1. copied \in Contents /\ tftp_p \in Contents
    OBVIOUS
  <2> QED BY ONLY <2>1 DEF Frame, Contents, AckPkt, NoBody
<1>12. CASE MainSent
  <2>1. [to |-> last_client, pkt |-> Frame] \in Datagram
    BY <1>0 DEF Datagram
  <2>2. out' \in Seq(Datagram)
    BY <1>12, <2>1 DEF MainSent
  <2> QED BY <1>0, <1>12, <2>2, ConstantsAssumption DEF MainSent
<1>6. CASE MainAcked
  <2>1. len' \in 0..HELP_LEN
    BY <1>6, ConstantsAssumption DEF MainAcked, ReadInv, IsFullBlock
  <2> QED BY <1>1, <1>6, <2>1 DEF MainAcked
<1>7. CASE MainTimeout
  BY <1>1, <1>7 DEF MainTimeout, ErrPkt, Contents, MsgBody
<1>8. CASE MainErrorSent
  <2>1. [to |-> last_client, pkt |-> Frame] \in Datagram
    BY <1>0 DEF Datagram
  <2>2. out' \in Seq(Datagram)
    BY <1>8, <2>1 DEF MainErrorSent
  <2> QED BY <1>0, <1>8, <2>2 DEF MainErrorSent
<1>9. CASE MainFinish
  BY <1>1, <1>9 DEF MainFinish
<1>10. CASE TimeStampIRQ
  BY <1>1, <1>10, ConstantsAssumption DEF TimeStampIRQ
<1>11. CASE Reboot
  <2>1. tftp_send' \in BOOLEAN
    BY <1>11, Zenon DEF Reboot
  <2>2. tftp_p' \in Contents
    BY <1>11 DEF Reboot, AckPkt, Contents, NoBody
  <2>3. netif_ip' \in Values
    BY <1>11, ConstantsAssumption DEF Reboot, Config
  <2>4. /\ curr_block' \in Nat /\ ack_num' \in Nat /\ block_num' \in Nat
        /\ len' \in 0..HELP_LEN /\ waited' \in 0..(TIMEOUT + 1)
        /\ tftp_buff' \in Seq(Cell) /\ out' \in Seq(Datagram)
        /\ got' \in Seq(Nat) /\ left_over' \in Nat
    BY <1>1, <1>11, ConstantsAssumption DEF Reboot, EndTransfer
  <2> QED BY <1>0, <2>1, <2>2, <2>3, <2>4, <1>11 DEF Reboot
<1> QED BY <1>2, <1>3, <1>4, <1>5, <1>6, <1>7, <1>8, <1>9, <1>10, <1>11, <1>12 DEF Main

\* tftp_recv leaves the client of a read in progress and main's place alone.
LEMMA RecvDuringRead ==
  ASSUME TypeOK, NEW pkt \in Packets, tftp_recv(pkt)
  PROVE  /\ UNCHANGED mainVars
         /\ tftp_send => tftp_send' /\ last_client' = last_client
BY DEF tftp_recv, RecvUnsupported, RecvWrqAccept, RecvWrqRefuse, RecvWrqAbandon,
       RecvRrqAccept, RecvRrqRefuse, RecvAck, RecvDataRefuse, RecvDataTooLarge,
       RecvDataFault, RecvDataMore, RecvDataParseError, RecvDataConfigure,
       RecvDataReset, Refuse, RefuseMode, recvVars, mainVars, TypeOK

LEMMA ReadInvInductive == TypedReadInv /\ [Next]_vars => TypedReadInv'
<1> SUFFICES ASSUME TypedReadInv, [Next]_vars
             PROVE  TypedReadInv'
  OBVIOUS
<1> USE DEF TypedReadInv
<1>1. ASSUME NEW pkt \in Packets, tftp_recv(pkt)
      PROVE  TypedReadInv'
  <2>1. TypeOK'
    BY <1>1, RecvType
  <2>2. ReadInv'
    BY <1>1, RecvDuringRead DEF ReadInv, mainVars, IsFullBlock
  <2> QED BY <2>1, <2>2
<1>2. ASSUME Main \/ TimeStampIRQ \/ Reboot
      PROVE  TypedReadInv'
  <2>1. TypeOK'
    BY <1>2, MainType
  <2> USE DEF ReadInv, MainAt, recvVars
  <2>2. CASE MainStartSend
    BY <2>2, <2>1 DEF MainStartSend
  <2>3. CASE MainFillHeader
    BY <2>3, <2>1 DEF MainFillHeader
  <2>4. CASE MainFillBody
    BY <2>4, <2>1 DEF MainFillBody
  <2>5. CASE MainSend \/ MainSent
    BY <2>5, <2>1 DEF MainSend, MainSent, IsFullBlock
  <2>6. CASE MainAcked
    BY <2>6, <2>1 DEF MainAcked, TypeOK
  <2>7. CASE MainTimeout
    BY <2>7, <2>1 DEF MainTimeout
  <2>8. CASE MainSendError \/ MainErrorSent
    BY <2>8, <2>1 DEF MainSendError, MainErrorSent
  <2>9. CASE MainFinish
    BY <2>9, <2>1 DEF MainFinish
  <2>10. CASE TimeStampIRQ
    BY <2>10, <2>1 DEF TimeStampIRQ
  <2>11. CASE Reboot
    BY <2>11, <2>1 DEF Reboot
  <2> QED BY <1>2, <2>2, <2>3, <2>4, <2>5, <2>6, <2>7, <2>8, <2>9, <2>10, <2>11 DEF Main
<1>3. CASE UNCHANGED vars
  BY <1>3 DEF vars, recvVars, cfgVars, mainVars, TypeOK, ReadInv,
             IsFullBlock
<1> QED BY <1>1, <1>2, <1>3 DEF Next

\* The initial state: the server as tftp_init leaves it.
LEMMA InitTyped == Init => TypedReadInv
<1> SUFFICES ASSUME Init PROVE TypedReadInv
  OBVIOUS
<1>1. tftp_p \in Contents /\ copied \in Contents
  BY DEF Init, AckPkt, Contents, NoBody
<1>2. netif_ip \in Values
  BY ConstantsAssumption DEF Init, Config
<1>3. tftp_buff \in Seq(Cell) /\ out \in Seq(Datagram) /\ got \in Seq(Nat) /\ left_over \in Nat
  BY DEF Init
<1>4. tftp_send \in BOOLEAN
  BY Zenon DEF Init
<1>5. /\ curr_block \in Nat /\ ack_num \in Nat /\ block_num \in Nat
      /\ len \in 0..HELP_LEN /\ waited \in 0..(TIMEOUT + 1)
  BY ConstantsAssumption DEF Init
<1>6. TypeOK
  BY <1>1, <1>2, <1>3, <1>4, <1>5 DEF Init, TypeOK
<1>7. ReadInv
  BY DEF Init, ReadInv
<1> QED BY <1>6, <1>7 DEF TypedReadInv

\* Every variable keeps its type: in particular 'len', the bytes of help_msg
\* still to send, never becomes negative, for any length of the message.
THEOREM TypeCorrect == Spec => []TypeOK
<1>1. TypedReadInv => TypeOK
  BY DEF TypedReadInv
<1> QED BY <1>1, InitTyped, ReadInvInductive, PTL DEF Spec

\* Nobody takes a read in progress away from its client.
THEOREM ReadClientStableHolds == Spec => ReadClientStable
<1>1. TypedReadInv /\ [Next]_vars =>
        [mpc # "loop" /\ mpc' # "loop" => last_client' = last_client /\ tftp_send']_vars
  <2> SUFFICES ASSUME TypedReadInv, Next, mpc # "loop", mpc' # "loop"
               PROVE  last_client' = last_client /\ tftp_send'
    OBVIOUS
  <2>1. tftp_send
    BY DEF TypedReadInv, ReadInv
  <2>2. ASSUME NEW pkt \in Packets, tftp_recv(pkt)
        PROVE  last_client' = last_client /\ tftp_send'
    BY <2>1, <2>2, RecvDuringRead DEF TypedReadInv
  <2>3. CASE Main
    BY <2>1, <2>3 DEF Main, MainStartSend, MainFillHeader, MainFillBody, MainSend,
       MainSent, MainAcked, MainTimeout, MainSendError, MainErrorSent, MainFinish, recvVars
  <2>4. CASE TimeStampIRQ
    BY <2>1, <2>4 DEF TimeStampIRQ, recvVars
  <2>5. CASE Reboot
    BY <2>5 DEF Reboot
  <2> QED BY <2>2, <2>3, <2>4, <2>5 DEF Next
<1> QED BY <1>1, InitTyped, ReadInvInductive, PTL DEF Spec, ReadClientStable

-----------------------------------------------------------------------------
(* The write transfer.                                                     *)

\* The numbers of the first k blocks, in order.
Numbers(k) == [i \in 1..k |-> i]

\* One more block, and its length.
LEMMA NextNumber ==
  ASSUME NEW k \in Nat
  PROVE  /\ Numbers(k) \in Seq(Nat) /\ Len(Numbers(k)) = k
         /\ Append(Numbers(k), k + 1) = Numbers(k + 1)
         /\ (k + 1) * BLOCK_SIZE = k * BLOCK_SIZE + BLOCK_SIZE /\ k * BLOCK_SIZE \in Nat
<1>1. Numbers(k) \in Seq(Nat) /\ Len(Numbers(k)) = k
  BY DEF Numbers
<1>2. Numbers(k + 1) \in Seq(Nat) /\ Len(Numbers(k + 1)) = k + 1
  BY DEF Numbers
<1>3. \A i \in 1..(k + 1) : Append(Numbers(k), k + 1)[i] = Numbers(k + 1)[i]
  BY <1>1 DEF Numbers
<1>4. Append(Numbers(k), k + 1) = Numbers(k + 1)
  <2>1. Append(Numbers(k), k + 1) \in Seq(Nat) /\ Len(Append(Numbers(k), k + 1)) = k + 1
    BY <1>1
  <2> QED BY <1>2, <1>3, <2>1, SeqEqual
<1>5. (k + 1) * BLOCK_SIZE = k * BLOCK_SIZE + BLOCK_SIZE /\ k * BLOCK_SIZE \in Nat
  BY ConstantsAssumption
<1> QED BY <1>1, <1>4, <1>5

\* The blocks curr_block says have been received.
Received == IF curr_block = 0 THEN 0 ELSE curr_block - 1

\* BlocksOnceInOrder in these words.
LEMMA InOrderIs ==
  BlocksOnceInOrder <=>
    (mode = "run" => /\ got = Numbers(Received)
                     /\ Len(tftp_buff) = left_over + Len(got) * BLOCK_SIZE
                     /\ Len(tftp_buff) <= TFTP_BUFFER_SIZE)
BY DEF BlocksOnceInOrder, Numbers, Received, tftp_buff_index

\* tftp_recv puts blocks in the buffer one after the other.
LEMMA RecvInOrder ==
  ASSUME TypeOK, BlocksOnceInOrder, NEW pkt \in Packets, tftp_recv(pkt)
  PROVE  BlocksOnceInOrder'
<1> DEFINE InOrder == /\ got = Numbers(Received)
                      /\ Len(tftp_buff) = left_over + Len(got) * BLOCK_SIZE
                      /\ Len(tftp_buff) <= TFTP_BUFFER_SIZE
<1>1. mode = "run"
  BY DEF tftp_recv, RecvUnsupported, RecvWrqAccept, RecvWrqRefuse, RecvWrqAbandon,
         RecvRrqAccept, RecvRrqRefuse, RecvAck, RecvDataRefuse, RecvDataTooLarge,
         RecvDataFault, RecvDataMore, RecvDataParseError, RecvDataConfigure,
         RecvDataReset, Accepts, DataExpected, LastBlock
<1>2. InOrder
  BY <1>1, InOrderIs
<1> SUFFICES mode' = "run" => InOrder'
  BY InOrderIs DEF BlocksOnceInOrder, Numbers, Received, tftp_buff_index
<1>3. /\ curr_block \in Nat /\ Received \in Nat /\ tftp_buff \in Seq(Cell)
      /\ Len(tftp_buff) \in Nat /\ left_over \in Nat /\ BLOCK_SIZE \in Nat \ {0}
  BY ConstantsAssumption DEF TypeOK, Received
<1>4. Numbers(0) = <<>> /\ Len(<<>>) * BLOCK_SIZE = 0
  BY <1>3 DEF Numbers
<1>5. ASSUME UNCHANGED <<tftp_buff, curr_block, got, left_over>> PROVE InOrder'
  BY <1>5, <1>2 DEF Received
<1>6. ASSUME EndTransfer PROVE InOrder'
  BY <1>6, <1>3, <1>4, ConstantsAssumption DEF EndTransfer, Received
<1>7. CASE RecvUnsupported(pkt) \/ RecvWrqRefuse(pkt) \/ RecvRrqAccept(pkt)
             \/ RecvRrqRefuse(pkt) \/ RecvAck(pkt) \/ RecvDataRefuse(pkt) \/ RecvDataFault(pkt)
  BY <1>7, <1>5 DEF RecvUnsupported, RecvWrqRefuse, RecvRrqAccept, RecvRrqRefuse, RecvAck,
     RecvDataRefuse, RecvDataFault, Refuse, RefuseMode, recvVars
<1>8. CASE RecvWrqAccept(pkt)
  BY <1>8, <1>2 DEF RecvWrqAccept, Received
<1>9. CASE RecvWrqAbandon(pkt)
  BY <1>9, <1>2, <1>3, <1>4 DEF RecvWrqAbandon, Received, tftp_buff_index
<1>10. CASE RecvDataTooLarge(pkt)
  BY <1>10, <1>6 DEF RecvDataTooLarge
<1>11. CASE RecvDataMore(pkt)
  <2>1. Len(tftp_buff \o pkt.data) = Len(tftp_buff) + BLOCK_SIZE
    <3>1. pkt.plen - HEADER = BLOCK_SIZE /\ pkt.op = "DATA"
      BY <1>11 DEF RecvDataMore, DataExpected, Accepts
    <3>2. pkt.data \in Seq(Cell) /\ Len(pkt.data) = BLOCK_SIZE
      BY <3>1, PacketFacts, ConstantsAssumption DEF HEADER
    <3> QED BY <3>2, <1>3
  <2>2. Len(tftp_buff) + BLOCK_SIZE <= TFTP_BUFFER_SIZE
    BY <1>11, <1>3, PacketFacts, ConstantsAssumption
       DEF RecvDataMore, FileTooLarge, HEADER, tftp_buff_index
  <2>3. /\ curr_block # 0 /\ pkt.block = Received + 1 /\ Received' = Received + 1
        /\ tftp_buff' = tftp_buff \o pkt.data /\ left_over' = left_over
        /\ got' = Append(got, Received + 1)
    BY <1>11, <1>3 DEF RecvDataMore, DataExpected, Received
  <2>4. got' = Numbers(Received + 1) /\ Len(got') = Received + 1 /\ Len(got) = Received
    <3>1. got = Numbers(Received)
      BY <1>2
    <3>2. /\ Len(Numbers(Received)) = Received
          /\ Append(Numbers(Received), Received + 1) = Numbers(Received + 1)
      BY <1>3, NextNumber
    <3>3. Len(Numbers(Received + 1)) = Received + 1
      BY <1>3, NextNumber
    <3> QED BY ONLY <2>3, <3>1, <3>2, <3>3
  <2>5. Len(tftp_buff') = left_over' + Len(got') * BLOCK_SIZE
    <3>1. /\ (Received + 1) * BLOCK_SIZE = Received * BLOCK_SIZE + BLOCK_SIZE
          /\ Received * BLOCK_SIZE \in Nat
      BY <1>3, NextNumber
    <3>2. Len(tftp_buff) = left_over + Received * BLOCK_SIZE
      BY <1>2, <2>4
    <3>3. Len(tftp_buff') = left_over + Received * BLOCK_SIZE + BLOCK_SIZE
      BY <2>1, <2>3, <3>2
    <3>4. left_over' + Len(got') * BLOCK_SIZE = left_over + (Received + 1) * BLOCK_SIZE
      BY ONLY <2>3, <2>4
    <3> QED BY ONLY <3>1, <3>3, <3>4, <1>3
  <2> QED BY <2>1, <2>2, <2>3, <2>4, <2>5
<1>12. CASE RecvDataParseError(pkt) \/ RecvDataConfigure(pkt)
  BY <1>12, <1>6 DEF RecvDataParseError, RecvDataConfigure
<1>13. CASE RecvDataReset(pkt)
  BY <1>13 DEF RecvDataReset
<1> QED BY <1>7, <1>8, <1>9, <1>10, <1>11, <1>12, <1>13 DEF tftp_recv

\* Whatever packets arrive in whatever order, the buffer holds what abandoned
\* transfers left and then the blocks of this one, each once and in order.
THEOREM BlocksOnceInOrderHolds == Spec => []BlocksOnceInOrder
<1>1. Init => BlocksOnceInOrder
  <2> SUFFICES ASSUME Init PROVE BlocksOnceInOrder
    OBVIOUS
  <2>1. Numbers(0) = <<>> /\ Len(<<>>) * BLOCK_SIZE = 0
    BY ConstantsAssumption DEF Numbers
  <2> QED BY <2>1, InOrderIs, ConstantsAssumption DEF Init, Received
<1>2. TypeOK /\ BlocksOnceInOrder /\ [Next]_vars => BlocksOnceInOrder'
  <2> SUFFICES ASSUME TypeOK, BlocksOnceInOrder, [Next]_vars
               PROVE  BlocksOnceInOrder'
    OBVIOUS
  <2>1. ASSUME UNCHANGED <<tftp_buff, curr_block, got, left_over, mode>>
        PROVE  BlocksOnceInOrder'
    BY <2>1 DEF BlocksOnceInOrder, tftp_buff_index
  <2>2. ASSUME NEW pkt \in Packets, tftp_recv(pkt) PROVE BlocksOnceInOrder'
    BY <2>2, RecvInOrder
  <2>3. CASE Main
    BY <2>1, <2>3 DEF Main, MainStartSend, MainFillHeader, MainFillBody, MainSend, MainSent,
       MainAcked, MainTimeout, MainSendError, MainErrorSent, MainFinish, recvVars
  <2>4. CASE TimeStampIRQ
    BY <2>1, <2>4 DEF TimeStampIRQ, recvVars
  <2>5. CASE Reboot
    <3>1. tftp_buff' = <<>> /\ got' = <<>> /\ left_over' = 0 /\ curr_block' = 0
      BY <2>5 DEF Reboot, EndTransfer
    <3>2. Numbers(0) = <<>> /\ Len(<<>>) * BLOCK_SIZE = 0
      BY ConstantsAssumption DEF Numbers
    <3> QED BY <3>1, <3>2, ConstantsAssumption DEF BlocksOnceInOrder, Numbers, tftp_buff_index
  <2>6. CASE UNCHANGED vars
    BY <2>1, <2>6 DEF vars, recvVars
  <2> QED BY <2>2, <2>3, <2>4, <2>5, <2>6 DEF Next
<1> QED BY <1>1, <1>2, TypeCorrect, PTL DEF Spec

-----------------------------------------------------------------------------
(* What clients are told.                                                  *)

\* Two replies one after the other.
LEMMA TwoReplies ==
  ASSUME NEW x \in Datagram, NEW y \in Datagram
  PROVE  <<x>> \o <<y>> = <<x, y>>
<1> DEFINE s == <<x>> \o <<y>>
           t == <<x, y>>
<1>1. <<x>> \in Seq(Datagram) /\ <<y>> \in Seq(Datagram) /\ t \in Seq(Datagram)
  OBVIOUS
<1>2. s \in Seq(Datagram) /\ Len(s) = 2 /\ Len(t) = 2
  BY <1>1
<1>3. s[1] = x /\ s[2] = y /\ t[1] = x /\ t[2] = y
  BY <1>1
<1>4. \A i \in 1..Len(s) : s[i] = t[i]
  BY <1>2, <1>3
<1>5. s = t
  <2> HIDE DEF s, t
  <2> QED BY <1>1, <1>2, <1>4, SeqEqual
<1> QED BY <1>5

\* The step of ReplyTellsTheTruth.
Truthful ==
  /\ Len(out') = 2 /\ out'[2].pkt.kind = "ACK" => stored' = flash'
  /\ stored' # stored => ~HasError(out')

\* The replies of tftp_recv to the last block of a file and the state it
\* leaves agree.
LEMMA FileReplies ==
  ASSUME TypeOK, NEW pkt \in Packets,
         RecvDataParseError(pkt) \/ RecvDataConfigure(pkt) \/ RecvDataReset(pkt)
  PROVE  Truthful
<1> DEFINE c == pkt.from
           A == [to |-> c, pkt |-> AckPkt(curr_block)]
           E == [to |-> c, pkt |-> ErrPkt]
<1>1. /\ A.pkt.kind = "ACK" /\ E.pkt.kind = "ERR"
      /\ tftp_ack(curr_block, c) = <<A>> /\ tftp_err(c) = <<E>>
  BY DEF AckPkt, ErrPkt, tftp_ack, tftp_err
<1>2. LastBlock(pkt)
  BY DEF RecvDataParseError, RecvDataConfigure, RecvDataReset
<1>3. \A r : Respond(pkt, r) /\ r \in Seq(Datagram) => out' = r
  BY <1>2, PacketFacts DEF Respond, TooSmall, LastBlock, HEADER
<1>4. /\ <<A>> \o <<E>> = <<A, E>> /\ <<A>> \o <<A>> = <<A, A>> /\ <<A>> \o <<>> = <<A>>
      /\ <<A, E>> \in Seq(Datagram) /\ <<A, A>> \in Seq(Datagram) /\ <<A>> \in Seq(Datagram)
  <2>1. A \in Datagram /\ E \in Datagram
    BY PacketFacts DEF Datagram, Contents, AckPkt, ErrPkt, NoBody, MsgBody, TypeOK
  <2>2. <<A>> \in Seq(Datagram) /\ <<A, E>> \in Seq(Datagram) /\ <<A, A>> \in Seq(Datagram)
    BY <2>1
  <2>3. <<A>> \o <<E>> = <<A, E>> /\ <<A>> \o <<A>> = <<A, A>>
    BY <2>1, TwoReplies
  <2>4. <<A>> \o <<>> = <<A>>
    BY <2>2, ConcatEmptySeq
  <2> QED BY <2>2, <2>3, <2>4
<1>5. CASE RecvDataParseError(pkt)
  <2>1. out' = <<A, E>> /\ stored' = stored
    BY <1>5, <1>1, <1>3, <1>4 DEF RecvDataParseError
  <2> QED BY <2>1, <1>1 DEF Truthful
<1>6. CASE RecvDataConfigure(pkt)
  <2>2. PICK ok \in BOOLEAN :
          /\ write_flash_config(flash', ok)
          /\ Respond(pkt, <<A>> \o (IF ok THEN <<A>> ELSE <<E>>))
    BY <1>6, <1>1 DEF RecvDataConfigure
  <2>3. CASE ok
    <3>1. out' = <<A, A>> /\ stored' = flash'
      BY <2>2, <2>3, <1>3, <1>4 DEF write_flash_config
    <3>2. ~HasError(out')
      BY <3>1, <1>1 DEF HasError
    <3> QED BY <3>1, <3>2 DEF Truthful
  <2>4. CASE ~ok
    <3>1. out' = <<A, E>> /\ stored' = stored
      BY <2>2, <2>4, <1>3, <1>4 DEF write_flash_config
    <3> QED BY <3>1, <1>1 DEF Truthful
  <2> QED BY <2>3, <2>4
<1>7. CASE RecvDataReset(pkt)
  <2>1. PICK ok \in BOOLEAN :
          /\ write_flash_config(flash', ok)
          /\ Respond(pkt, <<A>> \o (IF ok THEN <<>> ELSE <<E>>))
    BY <1>7, <1>1 DEF RecvDataReset
  <2>2. CASE ok
    <3>1. out' = <<A>>
      BY <2>1, <2>2, <1>3, <1>4
    <3> QED BY <3>1, <1>1 DEF Truthful, HasError
  <2>3. CASE ~ok
    <3>1. out' = <<A, E>> /\ stored' = stored
      BY <2>1, <2>3, <1>3, <1>4 DEF write_flash_config
    <3> QED BY <3>1, <1>1 DEF Truthful
  <2> QED BY <2>2, <2>3
<1> QED BY <1>5, <1>6, <1>7

\* Any other packet leaves flash memory alone and is never answered with a
\* second ACK.
LEMMA OtherReplies ==
  ASSUME TypeOK, NEW pkt \in Packets, tftp_recv(pkt),
         ~RecvDataParseError(pkt), ~RecvDataConfigure(pkt), ~RecvDataReset(pkt)
  PROVE  Truthful
<1> DEFINE c == pkt.from
           A == [to |-> c, pkt |-> AckPkt(curr_block)]
           E == [to |-> c, pkt |-> ErrPkt]
<1>1. /\ A.pkt.kind = "ACK" /\ E.pkt.kind = "ERR"
      /\ tftp_ack(curr_block, c) = <<A>> /\ tftp_err(c) = <<E>>
  BY DEF AckPkt, ErrPkt, tftp_ack, tftp_err
<1>2. stored' = stored
  BY DEF tftp_recv, RecvUnsupported, RecvWrqAccept, RecvWrqRefuse, RecvWrqAbandon,
     RecvRrqAccept, RecvRrqRefuse, RecvAck, RecvDataRefuse, RecvDataTooLarge,
     RecvDataFault, RecvDataMore, Refuse, RefuseMode, cfgVars
<1>3. /\ <<E>> \o <<E>> = <<E, E>> /\ <<>> \o <<E>> = <<E>> /\ <<E>> \o <<>> = <<E>>
      /\ <<>> \o <<A>> = <<A>> /\ <<>> \o <<>> = <<>>
  <2>1. A \in Datagram /\ E \in Datagram
    BY PacketFacts DEF Datagram, Contents, AckPkt, ErrPkt, NoBody, MsgBody, TypeOK
  <2>2. <<A>> \in Seq(Datagram) /\ <<E>> \in Seq(Datagram) /\ <<>> \in Seq(Datagram)
    BY <2>1
  <2>3. <<E>> \o <<E>> = <<E, E>>
    BY <2>1, TwoReplies
  <2> QED BY <2>2, <2>3, ConcatEmptySeq
<1>4. /\ Respond(pkt, <<E>>) => out' \in {<<E>>, <<E, E>>}
      /\ Respond(pkt, <<>>) => out' \in {<<>>, <<E>>}
      /\ Respond(pkt, <<A>>) /\ pkt.plen >= HEADER => out' = <<A>>
  <2>1. TooSmall(pkt) \in {<<>>, <<E>>} /\ (pkt.plen >= HEADER => TooSmall(pkt) = <<>>)
    BY <1>1, PacketFacts DEF TooSmall, HEADER
  <2>2. \A r : Respond(pkt, r) => out' = TooSmall(pkt) \o r
    BY DEF Respond
  <2> QED BY <2>1, <2>2, <1>3
<1>5. out' \in {<<E>>, <<E, E>>, <<>>, <<A>>}
  <2>1. ASSUME Refuse(pkt) \/ RefuseMode(pkt) PROVE out' \in {<<E>>, <<E, E>>, <<>>}
    BY <2>1, <1>1, <1>4 DEF Refuse, RefuseMode
  <2>2. CASE RecvUnsupported(pkt) \/ RecvWrqRefuse(pkt) \/ RecvRrqRefuse(pkt) \/ RecvDataRefuse(pkt)
    BY <2>1, <2>2, <1>1, <1>4 DEF RecvUnsupported, RecvWrqRefuse, RecvRrqRefuse, RecvDataRefuse
  <2>3. CASE RecvWrqAbandon(pkt) \/ RecvDataTooLarge(pkt)
    BY <2>3, <1>1, <1>4 DEF RecvWrqAbandon, RecvDataTooLarge
  <2>4. CASE RecvRrqAccept(pkt) \/ RecvAck(pkt) \/ RecvDataFault(pkt)
    BY <2>4, <1>4 DEF RecvRrqAccept, RecvAck, RecvDataFault
  <2>5. CASE RecvWrqAccept(pkt)
    BY <2>5, <1>1, <1>4, PacketFacts DEF RecvWrqAccept, ModeRefused, HEADER
  <2>6. CASE RecvDataMore(pkt)
    BY <2>6, <1>1, <1>4, PacketFacts, ConstantsAssumption DEF RecvDataMore, HEADER
  <2> QED BY <2>2, <2>3, <2>4, <2>5, <2>6 DEF tftp_recv
<1> QED BY <1>1, <1>2, <1>5 DEF Truthful

\* A file acknowledged twice is in flash memory, and flash memory never changes under an error reply: for any packets and any save failures.
THEOREM ReplyTellsTheTruthHolds == Spec => ReplyTellsTheTruth
<1>1. TypeOK /\ [Next]_vars => [Truthful]_vars
  <2> SUFFICES ASSUME TypeOK, Next PROVE Truthful
    OBVIOUS
  <2>1. ASSUME NEW pkt \in Packets, tftp_recv(pkt) PROVE Truthful
    BY <2>1, FileReplies, OtherReplies
  <2>2. CASE Main \/ TimeStampIRQ \/ Reboot
    <3>1. stored' = stored /\ Len(out') # 2
      BY <2>2 DEF Main, MainStartSend, MainFillHeader, MainFillBody, MainSend, MainSent,
         MainAcked, MainTimeout, MainSendError, MainErrorSent, MainFinish, TimeStampIRQ, Reboot, cfgVars
    <3> QED BY <3>1 DEF Truthful
  <2> QED BY <2>1, <2>2 DEF Next
<1> QED BY <1>1, TypeCorrect, PTL DEF Spec, ReplyTellsTheTruth, Truthful

=============================================================================
