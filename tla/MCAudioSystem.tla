--------------------------- MODULE MCAudioSystem ----------------------------
EXTENDS AudioSystemProps, TLC

CONSTANTS b1, b2, p1, p2

\* b1 ends within the first period, b2 with it.
TwoBuffers == {b1, b2}
MCFrames == (b1 :> 1) @@ (b2 :> 2)
OneBuffer == {b1}
ShortFrames == (b1 :> 1)
=============================================================================
