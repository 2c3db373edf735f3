------------------------------- MODULE Readers -------------------------------
(***************************************************************************)
(* The readers CREATE_READER(InputFormat()) makes for MapWork: TextReader   *)
(* and ProtoRecordReader (reader.cc), the latter reading with              *)
(* protofile::ReadRecord (protofile.cc).  Each Read is an operator from    *)
(* the reader's state to the outcome of the call; the job model           *)
(* (WordCount) keeps one reader's state per map worker.                    *)
(*                                                                         *)
(* A text file is a sequence of bytes; a protofile is the sequence of      *)
(* records WriteRecord wrote, each a [key, value] pair of byte strings.     *)
(***************************************************************************)
EXTENDS Integers, Sequences

NL == 10
CR == 13

(* fgets(line_, n, stream) from position p: up to n-1 characters, ending   *)
(* after the first newline.                                                *)
FgetsLength(t, p, n) ==
    LET avail == Len(t) - p + 1
        nl == {i \in 0..(n - 2) : i < avail /\ t[p + i] = NL}
    IN  IF nl # {} THEN (CHOOSE i \in nl : \A j \in nl : i <= j) + 1
        ELSE IF avail < n - 1 THEN avail ELSE n - 1

(* The value of a complete line: the newline, and a CR before it, removed. *)
StripLine(s) ==
    LET c == SubSeq(s, 1, Len(s) - 1) IN
    IF Len(c) > 0 /\ c[Len(c)] = CR THEN SubSeq(c, 1, Len(c) - 1) ELSE c

(* TextReader::Read at stream position p (1-based: ftell + 1) with         *)
(* reading_a_long_line_ = long and buffer size n: "eof" when fgets finds   *)
(* nothing; otherwise the key is the offset before fgets.  A chunk without *)
(* a newline is part of a too-long line and gives an empty value; the      *)
(* chunk that ends such a line is skipped too; otherwise the value is the  *)
(* line.  reading_a_long_line_ ends up set exactly when the chunk has no   *)
(* newline.                                                                 *)
TextRead(t, p, long, n) ==
    IF p > Len(t) THEN [status |-> "eof"]
    ELSE LET k == FgetsLength(t, p, n)
             chunk == SubSeq(t, p, p + k - 1)
             isLine == chunk[k] = NL /\ ~long
         IN  [status |-> "record", pos |-> p + k, long |-> chunk[k] # NL,
              key |-> p - 1, value |-> IF isLine THEN StripLine(chunk) ELSE <<>>]

(* ProtoRecordReader::Read, i.e. ReadRecord: CHECK_EQ(fread of the 4-byte  *)
(* size, 1), then the feof test that was meant to end the loop; then the   *)
(* record.  At the end of the file fread returns 0 and the CHECK fires.    *)
ProtoRead(t, p) ==
    IF p > Len(t) THEN [status |-> "abort"]
    ELSE [status |-> "record", pos |-> p + 1, long |-> FALSE,
          key |-> t[p].key, value |-> t[p].value]

-----------------------------------------------------------------------------
(* The reference: the lines of a text file, each with the offset it starts *)
(* at; a last line needs no newline.                                       *)
RECURSIVE TextLines(_, _)
TextLines(t, off) ==
    IF t = <<>> THEN <<>>
    ELSE LET nls == {i \in 1..Len(t) : t[i] = NL}
             e == IF nls = {} THEN Len(t) ELSE CHOOSE i \in nls : \A j \in nls : i <= j
         IN  <<[key |-> off, text |-> SubSeq(t, 1, e)]>> \o TextLines(SubSeq(t, e + 1, Len(t)), off + e)

LineContent(l) == IF l.text[Len(l.text)] = NL THEN SubSeq(l.text, 1, Len(l.text) - 1) ELSE l.text
LineValue(l) ==
    LET c == LineContent(l) IN
    IF Len(c) > 0 /\ c[Len(c)] = CR THEN SubSeq(c, 1, Len(c) - 1) ELSE c

(* What Map should see of an input: every line whose content, CR included, *)
(* leaves room in a buffer of n bytes for its newline and the terminating  *)
(* NUL (longer lines are skipped, as the reader's comment promises); every *)
(* record of a protofile, in order.                                        *)
ExpectedValues(fmt, t, n) ==
    IF fmt = "text"
    THEN LET fits(l) == Len(LineContent(l)) <= n - 2
             ls == SelectSeq(TextLines(t, 0), fits)
         IN  [i \in 1..Len(ls) |-> LineValue(ls[i])]
    ELSE [i \in 1..Len(t) |-> t[i].value]
=============================================================================
