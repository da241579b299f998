----------------------------- MODULE MCPollWait -----------------------------
EXTENDS PollWait

Ask(k, m, n, w) == [kind |-> k, mapping |-> m, known |-> n, want |-> w]

\* The strategies that resolve an address, in both networking modes, and with a port that
\* is not valid or not published.
Resolving == {Ask(k, m, n, 0) : k \in {"port", "udp", "http", "sql"}, m \in BOOLEAN, n \in BOOLEAN}

\* The ones that only ask the daemon.
Asking(kinds) == {Ask(k, FALSE, TRUE, 0) : k \in kinds}

EveryAsk == Resolving \cup Asking({"exec", "health", "exit", "file"})

JustExit == Asking({"exit"})
ExecWantsOne == {Ask("exec", FALSE, TRUE, 1)}
=============================================================================
