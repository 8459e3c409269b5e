----------------------------- MODULE MCFailover -----------------------------
EXTENDS FailoverProperties

MCEast == <<"e1", "e2", "e3">>
MCWest == <<"w1", "w2", "w3">>
MCHome == [r \in Writes \cup Reads |-> IF r = "wr" THEN MCWest ELSE MCEast]
=============================================================================
