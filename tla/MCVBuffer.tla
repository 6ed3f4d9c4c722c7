----------------------------- MODULE MCVBuffer -----------------------------
EXTENDS VBuffer

\* A short and a long string of bytes, each byte told apart.
MCData == {<<1>>, <<2, 3>>}
MCSizes == 1..2
=============================================================================
