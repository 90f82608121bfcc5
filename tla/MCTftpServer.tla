---------------------------- MODULE MCTftpServer ----------------------------
(* An instance of TftpServer for TLC: blocks of two cells, a buffer of     *)
(* three blocks, and one parameter, the address.  Ports are not needed     *)
(* here: MCConfigParser has them.                                          *)
EXTENDS TftpServer

MCParams  == {"ip"}
MCPorts   == {}
MCValues  == {1, 2}
MCCut     == [v \in MCValues |-> 1]
MCSrcIp   == "ip"
MCClients == {"c1", "c2"}

Cmd(k, p, v) == [kind |-> k, param |-> p, val |-> v]
Whole(c)     == [part |-> "whole", cmd |-> c]
HeadOf(c)    == [part |-> "head", cmd |-> c]
TailOf(c)    == [part |-> "tail", cmd |-> c]

Ip(v)     == Cmd("set", "ip", v)
ResetCmd  == Cmd("reset", "ip", 1)
BadCmd    == Cmd("bad", "ip", 1)

Pkt(c, op, plen, block, octet, data) ==
  [from |-> c, op |-> op, plen |-> plen, frag |-> FALSE, block |-> block,
   octet |-> octet, data |-> data]

Data(c, n, cells) == Pkt(c, "DATA", HEADER + Len(cells), n, FALSE, cells)
Wrq(c) == Pkt(c, "WRQ", 12, 0, TRUE, <<>>)
Rrq(c) == Pkt(c, "RRQ", 12, 0, TRUE, <<>>)
Ack(c, n) == Pkt(c, "ACK", 4, n, FALSE, <<>>)

FullBlocks  == {<<Whole(Ip(2)), HeadOf(Ip(1))>>}
ShortBlocks == {<<>>, <<TailOf(Ip(1))>>, <<Whole(BadCmd)>>, <<Whole(ResetCmd)>>,
                <<Whole(Ip(2))>>}
TooLong     == {<<Whole(Ip(2)), Whole(Ip(2)), Whole(Ip(2))>>}

\* Packets no client should send, each kind once.
Odd == {Pkt("c1", "other", 4, 0, FALSE, <<>>),
        [Wrq("c1") EXCEPT !.frag = TRUE],
        Pkt("c1", "WRQ", 12, 0, FALSE, <<>>),
        Pkt("c1", "RRQ", 12, 0, FALSE, <<>>),
        Pkt("c1", "WRQ", 3, 0, TRUE, <<>>),
        Pkt("c1", "DATA", 2, 1, FALSE, <<>>),
        Pkt("c1", "DATA", 3, 2, FALSE, <<>>)}

\* A writer's blocks in any order and number, two readers and the ACKs of one
\* of them, and packets no client should send.
MCPackets ==
  {Wrq("c1"), Rrq("c1"), Rrq("c2")} \cup Odd
    \cup {Data("c1", n, d) : n \in 1..3, d \in FullBlocks \cup ShortBlocks}
    \cup {Data("c1", 1, d) : d \in TooLong}
    \cup {Ack("c1", n) : n \in 0..3}
=============================================================================
