----------------------------- MODULE TftpServer -----------------------------
(***************************************************************************)
(* The TFTP configuration server of main.c.                                *)
(*                                                                         *)
(* Two contexts run it.  tftp_recv is lwIP's receive callback and runs to  *)
(* completion inside the Ethernet interrupt: each way through it is one    *)
(* action Recv...(pkt).  The main loop answers read requests with          *)
(* tftp_send_data; an interrupt may come between any two of its steps, so  *)
(* each step that touches shared state is an action Main....               *)
(*                                                                         *)
(* The environment hands tftp_recv any packet of Packets at any time.  That*)
(* is every loss, duplication, delay and reordering of datagrams, and any  *)
(* mix of clients, at once.                                                *)
(*                                                                         *)
(* The flash-emulated EEPROM is represented by what a save and a boot do   *)
(* to it: eeprom_buf is the RAM copy that E_EEPROM_XMC4_WriteArray         *)
(* compares with, stored is the block that the next boot would load.       *)
(***************************************************************************)
EXTENDS ConfigCommands

CONSTANTS
  Clients,            \* (address, port) pairs that datagrams come from
  Packets,            \* the datagrams the environment may deliver
  BLOCK_SIZE,         \* 512 in the code
  TFTP_BUFFER_SIZE,   \* 4096 in the code
  HELP_LEN,           \* strlen(help_msg): 1000 in the code
  TIMEOUT,            \* milliseconds to wait for an ACK: 2000 in the code
  SrcIp               \* the parameter that holds the DAQ's own address

HEADER == 4           \* opcode and block number

Opcodes == {"WRQ", "DATA", "RRQ", "ACK", "other"}

\* What tftp_recv looks at in a datagram.  plen is p->len; frag says that
\* p->len # p->tot_len; octet says that the mode string is "octet"; the data
\* of a packet shorter than its header is empty.
Packet == [from : Clients, op : Opcodes, plen : Nat, frag : BOOLEAN,
           block : Nat, octet : BOOLEAN, data : Seq(Cell)]

ASSUME ConstantsAssumption ==
  /\ BLOCK_SIZE \in Nat \ {0}
  /\ TFTP_BUFFER_SIZE \in Nat \ {0}
  /\ HELP_LEN \in Nat
  /\ TIMEOUT \in Nat
  /\ SrcIp \in Params
  /\ Clients # {}

ASSUME PacketsAssumption ==
  \A pkt \in Packets :
    /\ pkt \in Packet
    /\ pkt.plen >= HEADER /\ pkt.op = "DATA" => Len(pkt.data) = pkt.plen - HEADER

VARIABLES
  curr_block,    \* block expected next; 0 when no write request is in progress
  tftp_buff,     \* the first tftp_buff_index bytes of the buffer, as cells
  tftp_send,     \* a read request waits for, or is being served by, main
  ack_num,       \* block number of the last ACK received
  last_client,   \* last_addr, last_port: whom the read request came from
  tftp_p,        \* contents of the one transmit pbuf all replies share
  flash,         \* the configuration in RAM
  netif_ip,      \* the address the network interface has, and listens on
  eeprom_buf,    \* the EEPROM driver's RAM copy of the configuration
  stored,        \* the configuration the next boot will load
  mpc,           \* where main is in tftp_send_data
  block_num,     \* tftp_send_data's block_num, before its increment
  len,           \* tftp_send_data's len: bytes still to send
  waited,        \* millisec - start in the ACK wait, saturating at TIMEOUT + 1
  copied,        \* the header of the datagram low_level_output is copying for main
  got,           \* history: the numbers of the blocks put in tftp_buff since the
                 \* write request, in order
  left_over,     \* history: how much of tftp_buff is of abandoned transfers
  mode,          \* "run", "resetting" (spinning in adc_soft_reset) or "fault"
  out            \* the datagrams the last step sent, in order

recvVars == <<curr_block, tftp_buff, got, left_over, tftp_send, last_client>>
cfgVars  == <<flash, netif_ip, eeprom_buf, stored>>
mainVars == <<mpc, block_num, len, waited, copied>>
vars     == <<recvVars, ack_num, cfgVars, mainVars, tftp_p, mode, out>>

tftp_buff_index == Len(tftp_buff)

-----------------------------------------------------------------------------
(* Datagrams the server sends.  body names the bytes after the header:     *)
(* none, an error message, or the part of help_msg that goes in block n.   *)

NoBody   == 0
MsgBody  == -1
Contents == [kind : {"ACK", "ERR", "DATA"}, num : Nat, body : Int]
Datagram == [to : Clients, pkt : Contents]

AckPkt(n) == [kind |-> "ACK", num |-> n, body |-> NoBody]
ErrPkt    == [kind |-> "ERR", num |-> 0, body |-> MsgBody]

tftp_ack(n, c) == <<[to |-> c, pkt |-> AckPkt(n)]>>
tftp_err(c)    == <<[to |-> c, pkt |-> ErrPkt]>>

\* The size check of tftp_recv sends its error and goes on.
TooSmall(pkt) == IF pkt.plen < HEADER THEN tftp_err(pkt.from) ELSE <<>>

\* tftp_recv sends these replies to one packet.  Each is put together in
\* tftp_p, which keeps the last one.
Respond(pkt, replies) ==
  LET all == TooSmall(pkt) \o replies
  IN  /\ out' = all
      /\ tftp_p' = IF all = <<>> THEN tftp_p ELSE all[Len(all)].pkt

\* The server is running and this packet was not refused as a fragment.
Accepts(pkt, op) == mode = "run" /\ ~pkt.frag /\ pkt.op = op

Refuse(pkt) ==
  /\ Respond(pkt, tftp_err(pkt.from))
  /\ UNCHANGED <<recvVars, ack_num, cfgVars, mainVars, mode>>

-----------------------------------------------------------------------------
Init ==
  /\ curr_block = 0
  /\ tftp_buff = <<>>
  /\ got = <<>> /\ left_over = 0
  /\ tftp_send = FALSE
  /\ ack_num = 0
  /\ last_client \in Clients
  /\ tftp_p = AckPkt(0)
  /\ stored \in Config
  /\ flash = stored
  /\ eeprom_buf = stored
  /\ netif_ip = stored[SrcIp]
  /\ mpc = "loop"
  /\ block_num = 1
  /\ len = 0
  /\ waited = 0
  /\ copied = AckPkt(0)
  /\ mode = "run"
  /\ out = <<>>

\* A fragmented datagram, or an opcode the server does not know.
RecvUnsupported(pkt) ==
  /\ mode = "run"
  /\ pkt.frag \/ pkt.op = "other"
  /\ IF pkt.frag
       THEN out' = tftp_err(pkt.from) /\ tftp_p' = ErrPkt
       ELSE Respond(pkt, tftp_err(pkt.from))
  /\ UNCHANGED <<recvVars, ack_num, cfgVars, mainVars, mode>>

\* tftp_check_octet_mode: a packet below four bytes fails without a reply.
ModeRefused(pkt) == pkt.plen < HEADER \/ ~pkt.octet

RefuseMode(pkt) ==
  /\ ModeRefused(pkt)
  /\ Respond(pkt, IF pkt.plen < HEADER THEN <<>> ELSE tftp_err(pkt.from))
  /\ UNCHANGED <<recvVars, ack_num, cfgVars, mainVars, mode>>

\* A write request that starts a transfer.
RecvWrqAccept(pkt) ==
  /\ Accepts(pkt, "WRQ")
  /\ curr_block = 0 /\ ~tftp_send /\ ~ModeRefused(pkt)
  /\ Respond(pkt, tftp_ack(curr_block, pkt.from))
  /\ curr_block' = curr_block + 1
  /\ UNCHANGED <<tftp_buff, got, left_over, tftp_send, last_client, ack_num, cfgVars,
                 mainVars, mode>>

RecvWrqRefuse(pkt) ==
  /\ Accepts(pkt, "WRQ")
  /\ curr_block = 0
  /\ \/ tftp_send /\ Refuse(pkt)
     \/ ~tftp_send /\ RefuseMode(pkt)

\* A write request during a transfer ends the transfer.  The bytes received
\* so far stay in the buffer.
RecvWrqAbandon(pkt) ==
  /\ Accepts(pkt, "WRQ")
  /\ curr_block # 0
  /\ Respond(pkt, tftp_err(pkt.from))
  /\ curr_block' = 0
  /\ got' = <<>> /\ left_over' = tftp_buff_index
  /\ UNCHANGED <<tftp_buff, tftp_send, last_client, ack_num, cfgVars, mainVars, mode>>

\* Mutant: the busy check is missing.
RecvRrqAcceptMutant(pkt) ==
  /\ Accepts(pkt, "RRQ")
  /\ ~ModeRefused(pkt)
  /\ Respond(pkt, <<>>)
  /\ last_client' = pkt.from
  /\ tftp_send' = TRUE
  /\ UNCHANGED <<curr_block, tftp_buff, got, left_over, ack_num, cfgVars, mainVars, mode>>

\* A read request: main will serve it.
RecvRrqAccept(pkt) ==
  /\ Accepts(pkt, "RRQ")
  /\ ~tftp_send /\ ~ModeRefused(pkt)
  /\ Respond(pkt, <<>>)
  /\ last_client' = pkt.from
  /\ tftp_send' = TRUE
  /\ UNCHANGED <<curr_block, tftp_buff, got, left_over, ack_num, cfgVars, mainVars, mode>>

RecvRrqRefuse(pkt) ==
  /\ Accepts(pkt, "RRQ")
  /\ \/ tftp_send /\ Refuse(pkt)
     \/ ~tftp_send /\ RefuseMode(pkt)

RecvAck(pkt) ==
  /\ Accepts(pkt, "ACK")
  /\ Respond(pkt, <<>>)
  /\ ack_num' = pkt.block
  /\ UNCHANGED <<recvVars, cfgVars, mainVars, mode>>

-----------------------------------------------------------------------------
(* Data packets.                                                           *)

\* Data that changes nothing: no transfer, busy, too long, wrong block.
RecvDataRefuse(pkt) ==
  /\ Accepts(pkt, "DATA")
  /\ \/ curr_block = 0
     \/ tftp_send
     \/ pkt.plen - HEADER > BLOCK_SIZE
     \/ pkt.block # curr_block
  /\ Refuse(pkt)

\* Mutant: a block that was received before is taken again.
DataExpectedMutant(pkt) ==
  /\ Accepts(pkt, "DATA")
  /\ curr_block # 0 /\ ~tftp_send
  /\ pkt.plen - HEADER <= BLOCK_SIZE
  /\ pkt.block <= curr_block

\* The packet passed every check before the one of the buffer size.
DataExpected(pkt) ==
  /\ Accepts(pkt, "DATA")
  /\ curr_block # 0 /\ ~tftp_send
  /\ pkt.plen - HEADER <= BLOCK_SIZE
  /\ pkt.block = curr_block

\* tftp_buff_index + p->len - 4 >= TFTP_BUFFER_SIZE in unsigned arithmetic:
\* a negative sum wraps around and is too large as well.
FileTooLarge(pkt) ==
  LET sum == tftp_buff_index + pkt.plen - HEADER
  IN  sum < 0 \/ sum >= TFTP_BUFFER_SIZE

\* tftp_buff_index = 0 and curr_block = 0.
EndTransfer ==
  /\ tftp_buff' = <<>>
  /\ got' = <<>> /\ left_over' = 0
  /\ curr_block' = 0

RecvDataTooLarge(pkt) ==
  /\ DataExpected(pkt)
  /\ FileTooLarge(pkt)
  /\ Respond(pkt, tftp_err(pkt.from))
  /\ EndTransfer
  /\ UNCHANGED <<tftp_send, last_client, ack_num, cfgVars, mainVars, mode>>

\* A packet shorter than its header that gets here makes memcpy copy
\* (size_t)(p->len - 4) bytes, far past the end of memory: the processor
\* faults and nothing runs until the next reset.
RecvDataFault(pkt) ==
  /\ DataExpected(pkt)
  /\ ~FileTooLarge(pkt)
  /\ pkt.plen < HEADER
  /\ Respond(pkt, <<>>)
  /\ mode' = "fault"
  /\ UNCHANGED <<recvVars, ack_num, cfgVars, mainVars>>

\* A full block: append it and expect the next one.
RecvDataMore(pkt) ==
  /\ DataExpected(pkt)
  /\ ~FileTooLarge(pkt)
  /\ pkt.plen - HEADER = BLOCK_SIZE
  /\ Respond(pkt, tftp_ack(curr_block, pkt.from))
  /\ tftp_buff' = tftp_buff \o pkt.data
  /\ got' = Append(got, pkt.block)
  /\ curr_block' = curr_block + 1
  /\ UNCHANGED <<left_over, tftp_send, last_client, ack_num, cfgVars, mainVars, mode>>

\* A short block ends the file.
LastBlock(pkt) ==
  /\ DataExpected(pkt)
  /\ ~FileTooLarge(pkt)
  /\ pkt.plen >= HEADER
  /\ pkt.plen - HEADER < BLOCK_SIZE

File(pkt) == tftp_buff \o pkt.data

\* parse_config_commands stops at a refused command.  What was executed
\* before stays in RAM; it is neither saved nor given to the interface.
RecvDataParseError(pkt) ==
  /\ LastBlock(pkt)
  /\ ~AllExecuted(File(pkt))
  /\ flash' = Apply(File(pkt), flash)
  /\ Respond(pkt, tftp_ack(curr_block, pkt.from) \o tftp_err(pkt.from))
  /\ EndTransfer
  /\ UNCHANGED <<tftp_send, last_client, ack_num, netif_ip, eeprom_buf, stored,
                 mainVars, mode>>

\* local_udp_reset gives the interface the address in 'flash'.
local_udp_reset(cfg) == netif_ip' = cfg[SrcIp]

\* Mutant: an unchanged RAM buffer counts as saved.
write_flash_configMutant(cfg, ok) ==
  /\ eeprom_buf' = cfg
  /\ stored' = IF ok /\ cfg # eeprom_buf THEN cfg ELSE stored

\* write_flash_config: E_EEPROM_XMC4_WriteArray copies cfg to its RAM buffer
\* and says whether that changed anything; only then is the block programmed,
\* which succeeds or not.  ok is the result.
write_flash_config(cfg, ok) ==
  /\ eeprom_buf' = cfg
  /\ ok => cfg # eeprom_buf
  /\ stored' = IF ok THEN cfg ELSE stored

\* Every command was executed and none is a reset.
RecvDataConfigure(pkt) ==
  /\ LastBlock(pkt)
  /\ AllExecuted(File(pkt)) /\ ~ResetAsked(File(pkt))
  /\ flash' = Apply(File(pkt), flash)
  /\ local_udp_reset(flash')
  /\ \E ok \in BOOLEAN :
       /\ write_flash_config(flash', ok)
       /\ Respond(pkt, tftp_ack(curr_block, pkt.from) \o
                         (IF ok THEN tftp_ack(curr_block, pkt.from)
                                ELSE tftp_err(pkt.from)))
  /\ EndTransfer
  /\ UNCHANGED <<tftp_send, last_client, ack_num, mainVars, mode>>

\* Every command was executed and one is a reset: adc_soft_reset spins on a
\* flag inside the interrupt and parse_config_commands does not return.
RecvDataReset(pkt) ==
  /\ LastBlock(pkt)
  /\ AllExecuted(File(pkt)) /\ ResetAsked(File(pkt))
  /\ flash' = Apply(File(pkt), flash)
  /\ local_udp_reset(flash')
  /\ \E ok \in BOOLEAN :
       /\ write_flash_config(flash', ok)
       /\ Respond(pkt, tftp_ack(curr_block, pkt.from) \o
                         (IF ok THEN <<>> ELSE tftp_err(pkt.from)))
  /\ mode' = "resetting"
  /\ tftp_buff' = File(pkt)
  /\ UNCHANGED <<curr_block, got, left_over, tftp_send, last_client, ack_num, mainVars>>

tftp_recv(pkt) ==
  \/ RecvUnsupported(pkt)
  \/ RecvWrqAccept(pkt) \/ RecvWrqRefuse(pkt) \/ RecvWrqAbandon(pkt)
  \/ RecvRrqAccept(pkt) \/ RecvRrqRefuse(pkt)
  \/ RecvAck(pkt)
  \/ RecvDataRefuse(pkt) \/ RecvDataTooLarge(pkt) \/ RecvDataFault(pkt)
  \/ RecvDataMore(pkt) \/ RecvDataParseError(pkt)
  \/ RecvDataConfigure(pkt) \/ RecvDataReset(pkt)

-----------------------------------------------------------------------------
(* The main loop: tftp_send_data(help_msg, &last_addr, last_port).         *)

MainAt(l) == mode = "run" /\ mpc = l

\* Mutant: off by one.
IsFullBlockMutant(n) == n >= BLOCK_SIZE - 1

\* With n bytes of help_msg left, the next block is a full one and not the last.
IsFullBlock(n) == n > BLOCK_SIZE - 1

\* if(tftp_send): enter tftp_send_data.
MainStartSend ==
  /\ MainAt("loop") /\ tftp_send
  /\ mpc' = "header"
  /\ block_num' = 1
  /\ ack_num' = 1
  /\ len' = HELP_LEN
  /\ out' = <<>>
  /\ UNCHANGED <<recvVars, cfgVars, waited, copied, tftp_p, mode>>

\* memcpy of the header.
MainFillHeader ==
  /\ MainAt("header")
  /\ tftp_p' = [tftp_p EXCEPT !.kind = "DATA", !.num = block_num]
  /\ mpc' = "body"
  /\ out' = <<>>
  /\ UNCHANGED <<recvVars, ack_num, cfgVars, block_num, len, waited, copied, mode>>

\* memcpy of this block's part of help_msg, and the packet's length.
MainFillBody ==
  /\ MainAt("body")
  /\ tftp_p' = [tftp_p EXCEPT !.body = IF len = 0 THEN NoBody ELSE block_num]
  /\ mpc' = "send"
  /\ out' = <<>>
  /\ UNCHANGED <<recvVars, ack_num, cfgVars, block_num, len, waited, copied, mode>>

\* udp_sendto_if: low_level_output begins to copy tftp_p into the frame.
MainSend ==
  /\ MainAt("send")
  /\ copied' = tftp_p
  /\ mpc' = "copy"
  /\ out' = <<>>
  /\ UNCHANGED <<recvVars, ack_num, cfgVars, block_num, len, waited, tftp_p, mode>>

\* What leaves: the header copied first and the body that tftp_p has by now.
\* A reply built in between makes the two belong to different datagrams.
Frame == [copied EXCEPT !.body = tftp_p.body]

\* The copy ends; then the wait for the ACK starts or the function returns.
MainSent ==
  /\ MainAt("copy")
  /\ out' = <<[to |-> last_client, pkt |-> Frame]>>
  /\ mpc' = IF IsFullBlock(len) THEN "wait" ELSE "return"
  /\ waited' = 0
  /\ block_num' = block_num + 1
  /\ copied' = AckPkt(0)
  /\ UNCHANGED <<recvVars, ack_num, cfgVars, len, tftp_p, mode>>

\* The ACK of the block just sent is there: go on with the next block.
MainAcked ==
  /\ MainAt("wait")
  /\ ack_num = block_num - 1
  /\ len' = len - BLOCK_SIZE
  /\ mpc' = "header"
  /\ out' = <<>>
  /\ UNCHANGED <<recvVars, ack_num, cfgVars, block_num, waited, copied, tftp_p, mode>>

\* Mutant: only a client that never acknowledged anything times out.
MainTimeoutMutant ==
  /\ MainAt("wait")
  /\ ack_num = 1 /\ ack_num # block_num - 1
  /\ waited > TIMEOUT
  /\ tftp_p' = ErrPkt
  /\ mpc' = "error"
  /\ out' = <<>>
  /\ UNCHANGED <<recvVars, ack_num, cfgVars, block_num, len, waited, copied, mode>>

\* No ACK in time: put an error together, which the next two steps send, and return.
MainTimeout ==
  /\ MainAt("wait")
  /\ ack_num # block_num - 1
  /\ waited > TIMEOUT
  /\ tftp_p' = ErrPkt
  /\ mpc' = "error"
  /\ out' = <<>>
  /\ UNCHANGED <<recvVars, ack_num, cfgVars, block_num, len, waited, copied, mode>>

MainSendError ==
  /\ MainAt("error")
  /\ copied' = tftp_p
  /\ mpc' = "errorCopy"
  /\ out' = <<>>
  /\ UNCHANGED <<recvVars, ack_num, cfgVars, block_num, len, waited, tftp_p, mode>>

MainErrorSent ==
  /\ MainAt("errorCopy")
  /\ out' = <<[to |-> last_client, pkt |-> Frame]>>
  /\ mpc' = "return"
  /\ copied' = AckPkt(0)
  /\ UNCHANGED <<recvVars, ack_num, cfgVars, block_num, len, waited, tftp_p, mode>>

\* tftp_send = 0 after tftp_send_data returned.
MainFinish ==
  /\ MainAt("return")
  /\ tftp_send' = FALSE
  /\ mpc' = "loop"
  /\ out' = <<>>
  /\ UNCHANGED <<curr_block, tftp_buff, got, left_over, last_client, ack_num, cfgVars,
                 block_num, len, waited, copied, tftp_p, mode>>

Main == MainStartSend \/ MainFillHeader \/ MainFillBody \/ MainSend \/ MainSent
          \/ MainAcked \/ MainTimeout \/ MainSendError \/ MainErrorSent \/ MainFinish

\* TimeStampIRQ: one more millisecond.  Only the ACK wait looks at it.
TimeStampIRQ ==
  /\ MainAt("wait")
  /\ waited <= TIMEOUT
  /\ waited' = waited + 1
  /\ out' = <<>>
  /\ UNCHANGED <<recvVars, ack_num, cfgVars, mpc, block_num, len, copied, tftp_p, mode>>

\* A power cycle at any moment: RAM starts over and load_flash_config loads
\* the stored configuration.
Reboot ==
  /\ EndTransfer
  /\ tftp_send' = FALSE
  /\ ack_num' = 0
  /\ last_client' \in Clients
  /\ tftp_p' = AckPkt(0)
  /\ stored' = stored
  /\ flash' = stored
  /\ eeprom_buf' = stored
  /\ netif_ip' = stored[SrcIp]
  /\ mpc' = "loop"
  /\ block_num' = 1
  /\ len' = 0
  /\ waited' = 0
  /\ copied' = AckPkt(0)
  /\ mode' = "run"
  /\ out' = <<>>

Next ==
  \/ \E pkt \in Packets : tftp_recv(pkt)
  \/ Main
  \/ TimeStampIRQ
  \/ Reboot

Spec == Init /\ [][Next]_vars

\* The main loop goes on and time passes: interrupts are short, so the
\* processor always returns to main, and the timer is a hardware counter.
Fairness == WF_vars(Main) /\ WF_vars(TimeStampIRQ)

FairSpec == Spec /\ Fairness

-----------------------------------------------------------------------------
(* Properties.                                                             *)

\* Every variable stays in its range; in particular tftp_send_data's len never
\* goes below zero, where memcpy would be given a huge size.
TypeOK ==
  /\ curr_block \in Nat
  /\ tftp_buff \in Seq(Cell)
  /\ got \in Seq(Nat) /\ left_over \in Nat
  /\ tftp_send \in BOOLEAN
  /\ ack_num \in Nat
  /\ last_client \in Clients
  /\ tftp_p \in Contents
  /\ flash \in Config
  /\ netif_ip \in Values
  /\ eeprom_buf \in Config
  /\ stored \in Config
  /\ mpc \in {"loop", "header", "body", "send", "copy", "wait", "error", "errorCopy",
              "return"}
  /\ block_num \in Nat
  /\ len \in 0..HELP_LEN
  /\ waited \in 0..(TIMEOUT + 1)
  /\ copied \in Contents
  /\ mode \in {"run", "resetting", "fault"}
  /\ out \in Seq(Datagram)

\* Lost ACKs make clients send blocks again, and datagrams overtake one
\* another; still the buffer gets block 1, 2, 3, ... of a transfer, each once and
\* in this order, behind what abandoned transfers have left there, and what is
\* put there fits.  (After RecvDataFault, a memcpy far past the buffer, there is
\* nothing to be said.)
BlocksOnceInOrder ==
  mode = "run" =>
    /\ got = [i \in 1..(IF curr_block = 0 THEN 0 ELSE curr_block - 1) |-> i]
    /\ tftp_buff_index = left_over + Len(got) * BLOCK_SIZE
    /\ tftp_buff_index <= TFTP_BUFFER_SIZE

HasError(replies) == \E i \in 1..Len(replies) : replies[i].pkt.kind = "ERR"

\* What the client is told about a file is what happened: the second ACK of
\* the last block means that the whole configuration in RAM is in flash, and
\* flash memory never changes in a step that answers with an error.
ReplyTellsTheTruth ==
  [][/\ Len(out') = 2 /\ out'[2].pkt.kind = "ACK" => stored' = flash'
     /\ stored' # stored => ~HasError(out')]_vars

\* While main serves a read request no packet changes whom it is sending to,
\* nor clears tftp_send under it.
ReadClientStable ==
  [][mpc # "loop" /\ mpc' # "loop" => last_client' = last_client /\ tftp_send']_vars

\* A read request never keeps the server busy for ever, whatever ACKs are
\* lost: tftp_send falls back to 0.
ReadEnds == tftp_send ~> (~tftp_send \/ mode # "run")

-----------------------------------------------------------------------------
(* What comments say of the server and the code does not do: TLC finds     *)
(* them violated.                                                          *)

\* main.c:488 "reset and abandon the current WRQ": an abandoned transfer
\* leaves nothing behind, so the buffer holds the blocks accepted since the
\* last write request and nothing else.
BufferHoldsOnlyThisTransfer ==
  mode = "run" => tftp_buff_index = (IF curr_block = 0 THEN 0
                                     ELSE (curr_block - 1) * BLOCK_SIZE)

\* main.c:153 "the TFTP server will continue to listen on the old address until
\* the system is reset", main.c:646 "don't do this anymore, require a reset": only
\* a start changes the interface's address.
AddressKeptUntilReset == [][Reboot \/ netif_ip' = netif_ip]_vars
=============================================================================
