----------------------- MODULE MCSortedBufferIterator -----------------------
(* Model-checking instance of SortedBufferIterator: a key that is a prefix *)
(* of another, a byte above 127, and values of 0, 1 and 12 bytes, so that  *)
(* flushes happen at several fill levels, run files share keys, the merge  *)
(* sifts, pops and ties, and one pair cannot fit the pool at all.          *)
EXTENDS SortedBufferIterator

MCKeys == {<<1>>, <<1, 200>>, <<200>>}
MCBigValue == [i \in 1..12 |-> 7]
MCValues == {<<>>, <<7>>, MCBigValue}
=============================================================================
