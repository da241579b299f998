---------------------------- MODULE MCLifecycle ----------------------------
EXTENDS Lifecycle

CONSTANTS r1, r2, k1, k2

OneRun == {r1}
TwoRuns == {r1, r2}
OneCaller == {k1}
TwoCallers == {k1, k2}

Ask(n, b, k, v, f, l) ==
  [network |-> n, build |-> b, keep |-> k, valid |-> v, files |-> f, logs |-> l]

\* Everything, the same with the image kept, the bare minimum, and a request that is
\* refused after its network was made.
EveryShape ==
  { Ask(TRUE, TRUE, FALSE, TRUE, TRUE, TRUE),
    Ask(TRUE, TRUE, TRUE, TRUE, FALSE, FALSE),
    Ask(FALSE, FALSE, FALSE, TRUE, FALSE, FALSE),
    Ask(TRUE, FALSE, FALSE, FALSE, FALSE, FALSE) }

BareShape == { Ask(FALSE, FALSE, FALSE, TRUE, FALSE, FALSE) }
=============================================================================
