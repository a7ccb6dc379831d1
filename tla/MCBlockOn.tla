----------------------------- MODULE MCBlockOn -----------------------------
(* Three sources, two on threads of their own: one of those makes progress *)
(* twice, and the inline one yields once.                                  *)
EXTENDS BlockOn

CONSTANTS timer, channel, yield

MCSources == {timer, channel, yield}
MCWork == [s \in MCSources |-> IF s = channel THEN 2 ELSE 1]
=============================================================================
