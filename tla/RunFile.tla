------------------------------- MODULE RunFile -------------------------------
(***************************************************************************)
(* The encoding of one run file: SortedBuffer::Flush writes each group     *)
(* with WriteMemoryPiece and WriteVarint32 (sorted_buffer.cc,              *)
(* memory_piece.cc, varint32.cc), and the reduce worker's iterator reads   *)
(* it back with LoadKey and LoadValue, which call ReadMemoryPiece and      *)
(* ReadVarint32 (sorted_buffer_iterator.cc).                               *)
(*                                                                         *)
(* A file is a sequence of items: a byte [b] of a varint, or the data of   *)
(* a piece, a record [id, size] standing for its size bytes, which         *)
(* fwrite and fread copy verbatim.  The sizes and varints are what can go  *)
(* wrong, so they are real; the contents are names.                        *)
(***************************************************************************)
EXTENDS Integers, Sequences

CONSTANTS
    KeyPieces,      \* the keys a group may have, as [id, size] records
    ValuePieces,    \* the values
    MaxGroups,      \* bound on the groups of a file
    MaxValues       \* bound on the values of a group

SX == INSTANCE SequencesExt

kMaxBufferSize == 32 * 1024 * 1024     \* ReadMemoryPiece's static buffer
EOF == -1                              \* getc at end of file

VARIABLES
    groups,    \* the groups Flush is given, [key, values]
    file,      \* the file's items
    cursor,    \* the next item fread or getc returns
    eof,       \* feof(input)
    rest,      \* num_rest_values
    read,      \* the groups the reader has loaded so far
    phase      \* "write", "key", "value", "end" (LoadKey false), "fatal", "desync"

vars == <<groups, file, cursor, eof, rest, read, phase>>

(* A file item: [b |-> byte] for a byte of a varint, or a piece's data.   *)
IsData(x) == "id" \in DOMAIN x
Byte(b) == [b |-> b]

(* CodedOutputStream::WriteVarint32ToArray: seven bits per byte, low bits *)
(* first, the high bit set on every byte but the last.                    *)
RECURSIVE EncodeVarint32(_)
EncodeVarint32(v) ==
    IF v < 128 THEN <<Byte(v)>> ELSE <<Byte((v % 128) + 128)>> \o EncodeVarint32(v \div 128)

(* WriteMemoryPiece: the size as a varint, then the bytes if there are any. *)
WriteMemoryPiece(p) == EncodeVarint32(p.size) \o (IF p.size > 0 THEN <<p>> ELSE <<>>)

(* The body of Flush's grouping loop: key, count, values.                 *)
WriteGroup(g) ==
    WriteMemoryPiece(g.key) \o EncodeVarint32(Len(g.values))
      \o SX!FlattenSeq([i \in 1..Len(g.values) |-> WriteMemoryPiece(g.values[i])])

WriteRun(gs) == SX!FlattenSeq([i \in 1..Len(gs) |-> WriteGroup(gs[i])])

(* getc: the item at i, or EOF past the end.                              *)
GetByte(i) == IF i > Len(file) THEN Byte(EOF) ELSE file[i]

(* Faulty variant: the fourth byte shifted by 14 instead of 21.           *)
RECURSIVE ReadVarint32Shift14(_, _, _)
ReadVarint32Shift14(i, k, acc) ==
    LET c == GetByte(i)
        b == c.b IN
    IF IsData(c) THEN [ok |-> FALSE, desync |-> TRUE]
    ELSE IF b = EOF THEN [ok |-> FALSE, next |-> i + 1, eof |-> TRUE]
    ELSE IF k = 10 THEN [ok |-> FALSE, next |-> i, eof |-> FALSE]
    ELSE LET acc2 == IF k < 3 THEN acc + (b % 128) * 128^k
                     ELSE IF k = 3 THEN acc + (b % 128) * 128^2
                     ELSE IF k = 4 THEN acc + (b % 16) * 2^28 ELSE acc
         IN  IF b < 128 THEN [ok |-> TRUE, value |-> acc2, next |-> i + 1]
             ELSE ReadVarint32Shift14(i + 1, k + 1, acc2)

(* ReadVarint32's unrolled loop from item i, byte k of the varint: the     *)
(* first four bytes add their low seven bits, the fifth is shifted by 28   *)
(* whole, bytes six to ten are skipped, and an eleventh is corrupt data.   *)
(* getc keeps returning EOF, (uint32)-1 with its high bit set, once the    *)
(* file is exhausted, so the loop then runs to its limit and fails: that   *)
(* is taken in one step.  Reading a byte where data was written means the  *)
(* reader has lost its place in the file.                                 *)
RECURSIVE ReadVarint32(_, _, _)
ReadVarint32(i, k, acc) ==
    LET c == GetByte(i)
        b == c.b IN
    IF IsData(c) THEN [ok |-> FALSE, desync |-> TRUE]
    ELSE IF b = EOF THEN [ok |-> FALSE, next |-> i + 1, eof |-> TRUE]
    ELSE IF k = 10 THEN [ok |-> FALSE, next |-> i, eof |-> FALSE]
    ELSE LET acc2 == IF k < 4 THEN acc + (b % 128) * 128^k
                     ELSE IF k = 4 THEN acc + (b % 16) * 2^28 ELSE acc
         IN  IF b < 128 THEN [ok |-> TRUE, value |-> acc2, next |-> i + 1]
             ELSE ReadVarint32(i + 1, k + 1, acc2)

(* ReadVarint32 at the cursor, after its ferror/feof test.                 *)
ReadVarint32At(i) == IF eof THEN [ok |-> FALSE, next |-> i, eof |-> TRUE]
                     ELSE ReadVarint32(i, 0, 0)

EmptyPiece == [id |-> "none", size |-> 0]

(* ReadMemoryPiece: a varint size, FATAL at kMaxBufferSize or more, then   *)
(* fread of size bytes, which fails short at end of file.                  *)
ReadMemoryPiece(i) ==
    LET v == ReadVarint32At(i) IN
    IF "desync" \in DOMAIN v THEN [status |-> "desync"]
    ELSE IF ~v.ok THEN [status |-> "false", next |-> v.next, eof |-> v.eof]
    ELSE IF v.value >= kMaxBufferSize THEN [status |-> "fatal"]
    ELSE IF v.value = 0 THEN [status |-> "ok", piece |-> EmptyPiece, next |-> v.next, eof |-> FALSE]
    ELSE IF v.next > Len(file) THEN [status |-> "false", next |-> v.next, eof |-> TRUE]
    ELSE IF ~IsData(file[v.next]) \/ file[v.next].size # v.value
         THEN [status |-> "desync"]
    ELSE [status |-> "ok", piece |-> file[v.next], next |-> v.next + 1, eof |-> FALSE]

Group == [key : KeyPieces, values : UNION {[1..n -> ValuePieces] : n \in 1..MaxValues}]

(* Flush with the sorted groups gs: the file is written and closed, and   *)
(* the reduce worker's iterator opens it.                                  *)
Flush ==
    /\ phase = "write"
    /\ file' = WriteRun(groups)
    /\ cursor' = 1 /\ eof' = FALSE
    /\ phase' = "key"
    /\ UNCHANGED <<groups, rest, read>>

(* LoadKey: ReadMemoryPiece of the key (false ends the file), then the     *)
(* value count, which must be read and positive or it is LOG(FATAL).      *)
LoadKey ==
    /\ phase = "key"
    /\ LET k == ReadMemoryPiece(cursor) IN
       CASE k.status \in {"fatal", "desync"} ->
              phase' = k.status /\ UNCHANGED <<cursor, eof, rest, read>>
         [] k.status = "false" ->
              phase' = "end" /\ cursor' = k.next /\ eof' = k.eof /\ UNCHANGED <<rest, read>>
         [] OTHER ->
              LET n == IF k.eof THEN [ok |-> FALSE, next |-> k.next, eof |-> TRUE]
                       ELSE ReadVarint32(k.next, 0, 0)
              IN  IF "desync" \in DOMAIN n THEN phase' = "desync" /\ UNCHANGED <<cursor, eof, rest, read>>
                  ELSE IF ~n.ok \/ n.value = 0
                  THEN phase' = "fatal" /\ UNCHANGED <<cursor, eof, rest, read>>
                  ELSE /\ cursor' = n.next /\ eof' = FALSE
                       /\ rest' = n.value
                       /\ read' = Append(read, [key |-> k.piece, values |-> <<>>])
                       /\ phase' = "value"
    /\ UNCHANGED <<groups, file>>

(* LoadValue: with values left, ReadMemoryPiece of the next one, whose     *)
(* failure is LOG(FATAL); with none left the iterator goes on to LoadKey.  *)
LoadValue ==
    /\ phase = "value"
    /\ IF rest = 0
       THEN phase' = "key" /\ UNCHANGED <<cursor, eof, rest, read>>
       ELSE LET v == ReadMemoryPiece(cursor) IN
            IF v.status # "ok"
            THEN /\ phase' = (IF v.status = "desync" THEN "desync" ELSE "fatal")
                 /\ UNCHANGED <<cursor, eof, rest, read>>
            ELSE /\ cursor' = v.next /\ eof' = v.eof
                 /\ rest' = rest - 1
                 /\ read' = [read EXCEPT ![Len(read)].values = Append(@, v.piece)]
                 /\ UNCHANGED phase
    /\ UNCHANGED <<groups, file>>

Init ==
    /\ groups \in UNION {[1..n -> Group] : n \in 0..MaxGroups}
    /\ file = <<>> /\ cursor = 1 /\ eof = FALSE
    /\ rest = 0 /\ read = <<>> /\ phase = "write"

Next ==
    \/ Flush \/ LoadKey \/ LoadValue
    \/ phase \in {"end", "fatal", "desync"} /\ UNCHANGED vars   \* the file is done

Spec == Init /\ [][Next]_vars

-----------------------------------------------------------------------------
(* A run file reads back as it was written: the reader never loses its     *)
(* place or dies, and when LoadKey finds the end of the file it has loaded *)
(* every group with its key and values, in order, empty pieces and         *)
(* multi-byte varints included.                                            *)
RoundTrip ==
    /\ phase \notin {"fatal", "desync"}
    /\ phase = "end" => read = groups
=============================================================================
