------------------------------ MODULE MCRunFile ------------------------------
(***************************************************************************)
(* The empty piece and pieces of 127, 128, 16384 and 32 MB - 1 bytes,     *)
(* whose size varints take 1, 2, 3 and 4 bytes; the last is just under the *)
(* largest a map output may carry.                                         *)
(***************************************************************************)
EXTENDS RunFile

MB == 1024 * 1024

MCKeyPieces == {EmptyPiece, [id |-> "k1", size |-> 127], [id |-> "k2", size |-> 16384]}
MCValuePieces == {EmptyPiece, [id |-> "v1", size |-> 128], [id |-> "v2", size |-> 32 * MB - 1]}

(* Under the default flags MapOutput accepts key and value sizes up to a   *)
(* total of mr_max_map_output_size = 32 MB, so an empty key with a 32 MB   *)
(* value reaches the SortedBuffer and its run file.                        *)
MCMaxValuePieces == {[id |-> "v3", size |-> 32 * MB]}
=============================================================================
