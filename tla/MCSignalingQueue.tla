-------------------------- MODULE MCSignalingQueue --------------------------
(* Model-checking instance of SignalingQueue: two producers, two          *)
(* consumers and a 3-byte queue, so that messages wrap around the end of  *)
(* the ring, producers block on a full queue, and one signal on a        *)
(* condition variable has two candidate waiters.                          *)
EXTENDS SignalingQueue

MCSizes == {1, 2, 4}         \* 4 is rejected, 2 wraps at offset 2
MCDestSizes == {1, 3}         \* 1 is too small for a 2-byte message
=============================================================================
