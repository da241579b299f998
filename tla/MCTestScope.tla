---------------------------- MODULE MCTestScope ----------------------------
EXTENDS TestScope

CONSTANTS t1, t2

TwoTests == {t1, t2}
AllCallers == TwoTests \X {"defer", "cleanup"}
CleanupCallers == TwoTests \X {"cleanup"}

Style(o, f, d, g) == [own |-> o, first |-> f, defers |-> d, registers |-> g]

\* The network example; the same with the error looked at last; the README example, which
\* defers Terminate and registers nothing; everything, with the network registered last.
FourStyles == { Style(TRUE, TRUE, FALSE, "late"), Style(TRUE, TRUE, FALSE, "early"),
                Style(FALSE, FALSE, TRUE, "never"), Style(TRUE, FALSE, TRUE, "early") }

BareShape == { [network |-> FALSE, build |-> FALSE, keep |-> FALSE,
                valid |-> TRUE, files |-> FALSE, logs |-> FALSE] }
=============================================================================
