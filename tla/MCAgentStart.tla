--------------------------- MODULE MCAgentStart ---------------------------
EXTENDS AgentStart

CONSTANTS e1, e2

Setup(m, s) == [mode |-> m, ifs |-> s]

\* A pair and a single interface, under every pinning mode.
AllSetups == {Setup(m, s) : m \in {"auto", "require", "disable"}, s \in {<<e1, e2>>, <<e2>>}}

\* One interface is up and promiscuous, the other one is down and offloads.
MCOriginal == [i \in {e1, e2} |-> IF i = e1 THEN {"up", "promisc"} ELSE {"gro"}]

===========================================================================
