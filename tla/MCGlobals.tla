------------------------------ MODULE MCGlobals ------------------------------
\* Two workers, a register of two words, a long and a short password.
EXTENDS Globals

CONSTANTS t1, t2, long, other, short

MCThread == {t1, t2}

MCPassword == {long, other, short}

=============================================================================
