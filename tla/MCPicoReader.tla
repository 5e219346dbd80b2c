---------------------------- MODULE MCPicoReader ----------------------------
EXTENDS PicoReader

\* Two cards, the second with a zero byte in its uid.
TwoCards == {<<1, 2>>, <<2, 0>>}

OneCard == {<<1, 2>>}
=============================================================================
