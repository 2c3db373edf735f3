----------------------------- MODULE MCWordCount -----------------------------
(***************************************************************************)
(* Two map workers and two reduce workers.  Files are byte strings of up   *)
(* to three bytes over "a", "b", space and newline, so that a shard has    *)
(* several words, repeated words, runs of spaces, several lines, a line    *)
(* longer than a 3-byte buffer and a last line with or without its         *)
(* newline; "a" and "b" hash to different reducers.  Record shards hold up *) 
(* to two records.  A map worker's pattern matches one file of these.     *)
(***************************************************************************)
EXTENDS WordCount, TLC

MCBytes == {97, 98, SP, NL}
MCTextFiles == UNION {[1..n -> MCBytes] : n \in 0..3}
(* The text shards that end in a newline (or are empty).                   *)
MCTerminatedTextFiles == {t \in MCTextFiles : t = <<>> \/ t[Len(t)] = NL}
MCProtoFiles ==
    UNION {[1..n -> {[key |-> <<>>, value |-> v] : v \in {<<97>>, <<97, SP, 98>>}}] : n \in 0..2}
MCTextInputs == {<<t>> : t \in MCTextFiles}
MCTerminatedTextInputs == {<<t>> : t \in MCTerminatedTextFiles}
MCProtoInputs == {<<t>> : t \in MCProtoFiles}

(* Shards for the passing run, read with a 6-byte line buffer (lines of   *)
(* up to 4 bytes before the newline fit).  Each ends with a newline and    *)
(* sends some word to each reducer: a batch reducer with no input has no   *)
(* spill file and crashes, and a last line without a newline is lost       *)
(* (MCWordCount_Job.cfg shows both).  Between them: two words on a line,   *)
(* a DOS line end, a line of 5 bytes that fills the buffer without its     *)
(* newline and is skipped with the newline chunk after it, an empty line, *)
(* a word repeated in a shard, a run of spaces in a line that fills the    *)
(* buffer exactly; and every pair of them shares words.                    *)
MCPassFiles ==
    { <<97, SP, 98, NL>>,                          \* "a b"
      <<98, SP, 97, CR, NL>>,                      \* "b a" CRLF
      <<97, 97, 98, 97, 98, NL, 98, SP, 97, NL>>,  \* "aabab" (skipped), "b a"
      <<NL, 98, 98, SP, 98, NL>>,                  \* "", "bb b"
      <<97, SP, 97, NL, 98, NL>>,                  \* "a a", "b"
      <<97, SP, SP, 98, NL>> }                     \* "a  b"

(* The map workers are interchangeable: nothing in the job depends on     *)
(* which one holds which shard, and BatchReduce's concatenation order of   *)
(* their spill files does not change a sum.                                *)
(* The inputs of the passing run: each shard alone, and two patterns that *)
(* match two files: an empty file before "a b", and a file that ends in a  *)
(* 5-byte line with no newline (too long, and skipped) before "b a", whose *)
(* first line a reader that kept reading_a_long_line_ would skip too.      *)
MCPassInputs ==
    {<<t>> : t \in MCPassFiles} \cup
    { << <<>>, <<97, SP, 98, NL>> >>,
      << <<97, 97, 98, 97, 98>>, <<98, SP, 97, NL>> >> }

MCMapperSymmetry == Permutations(Mappers)
=============================================================================
