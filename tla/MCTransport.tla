---------------------------- MODULE MCTransport ----------------------------
(* Model-checking instances of Transport.  Payloads of 1 or 2 bytes make  *)
(* frames of 5 or 6 bytes; a 6-byte socket buffer that polls writable     *)
(* with 4 bytes free makes every frame go out in several writes and      *)
(* arrive in several reads, and a 2-byte inbound queue holds one message  *)
(* of each size, so the receive loop blocks in Add.                        *)
EXTENDS Transport, TLC

MCMsgSizes == {1, 2}
MCMsgSizes1 == {1}
MCMaxMsgs1 == [m \in 0 .. 0 |-> 2]           \* one map worker, two outputs
MCMaxMsgs22 == (0 :> 1 @@ 1 :> 0)             \* two map workers, one output
MCMaxMsgs2 == [m \in 0 .. 1 |-> 1]           \* two map workers, one output each
MCNoMsgs2 == [m \in 0 .. 1 |-> 0]            \* terminator propagation only
=============================================================================
