------------------------------ MODULE MCPorts ------------------------------
EXTENDS Ports

CONSTANTS r1, r2

TwoRuns == {r1, r2}

Port(n, p, t) == [num |-> n, proto |-> p, text |-> t]
P80 == Port(80, "tcp", "80")
P80tcp == Port(80, "tcp", "80/tcp")
P80udp == Port(80, "udp", "80/udp")
NoPort == Port(0, "tcp", "http")

\* Nothing; one port; its two protocols, either first; one port by two names; one string
\* twice; a string that is no port.
EveryList == {<<>>, <<P80>>, <<P80udp, P80tcp>>, <<P80, P80tcp>>, <<P80, P80>>, <<NoPort, P80udp>>}

TwoPorts == 1 .. 2
=============================================================================
