--------------------------- MODULE MCConfigParser ---------------------------
(* ConfigParser on every file of up to four cells over two parameters.     *)
EXTENDS ConfigParser

MCParams == {"ip", "port"}
MCPorts  == {"port"}
MCValues == {1, 2}
MCCut    == [v \in MCValues |-> 1]
MCStart  == [q \in MCParams |-> 1]

MCCommands == {[kind |-> "set", param |-> "ip", val |-> 1],
               [kind |-> "set", param |-> "ip", val |-> 2],
               [kind |-> "set", param |-> "port", val |-> 2]}
Other      == {[kind |-> "reset", param |-> "ip", val |-> 1],
               [kind |-> "bad", param |-> "ip", val |-> 1]}

MCCells == [part : {"whole", "head", "tail"}, cmd : MCCommands]
             \cup [part : {"whole"}, cmd : Other]

MCFiles == UNION {[1..n -> MCCells] : n \in 0..4}
=============================================================================
