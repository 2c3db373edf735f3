------------------------------ MODULE MCShuffle ------------------------------
(***************************************************************************)
(* Two mappers and two reducers.  Sizes are the default flags scaled down: *)
(* the queue is as large as mr_max_map_output_size (32 MB each by          *)
(* default), the pool a little larger.                                     *)
(***************************************************************************)
EXTENDS Shuffle, TLC

(* Two keys JSHash sends to different reducers, one with a byte that is  *)
(* negative as a signed char.                                             *)
MCKeys == {<<1>>, <<1, 200>>}
(* One byte; ten bytes, which passes MapOutput's check but not the queue;  *)
(* sixteen, which MapOutput rejects with a one-byte key.                   *)
MCValues == {<<7>>, [i \in 1..10 |-> 7], [i \in 1..16 |-> 7]}
MCShards == {-1, 0, 1, 2}
=============================================================================
