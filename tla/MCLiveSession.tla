--------------------------- MODULE MCLiveSession ---------------------------
(* LiveSession on a small instance.                                        *)
EXTENDS LiveSession
CONSTANTS h1, h2
MCHandles1 == {h1}
MCHandles2 == {h1, h2}
=============================================================================
