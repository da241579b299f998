----------------------------- MODULE MCLogWait -----------------------------
EXTENDS LogWait

UpToTwo == 0 .. 2
=============================================================================
