------------------------------ MODULE WordCount ------------------------------
(***************************************************************************)
(* A whole word-count job (demo/wordcount.cc on the runtime): each map     *)
(* worker runs MapWork over its input shard, reading it with the reader   *)
(* of the input format (Readers) and calling WordCountMapper or           *)
(* WordCountMapperWithCombiner; Mapper::Output routes each word by         *)
(* Shard = JSHash(key) % R (SimpleHash); each reduce worker runs           *)
(* ReduceWork with WordCountReducer (incremental mode) or                  *)
(* WordCountBatchReducer (batch mode), and ReducerBase::Output writes      *)
(* output file 0 in text or protofile format.  A map worker's input is    *)
(* the list of files its input pattern matched, mapped one after another.  *)
(*                                                                         *)
(* Transport and spill are the in-order, lossless per-pair delivery that   *)
(* Transport, SortedBuffer and SortedBufferIterator check; MapOutput's     *)
(* size limits are far above the words here (Shuffle checks them).  Bytes *)
(* are ints 0..255, strings sequences of them, values the decimal strings *)
(* the demo formats and parses.                                            *)
(***************************************************************************)
EXTENDS Integers, Sequences, FiniteSets, Readers, SimpleHash

CONSTANTS
    Mappers,        \* the map worker processes
    NumReducers,    \* NumReduceWorkers()
    TextInputs,     \* lists of text files an input pattern may match
    ProtoInputs,    \* lists of protofiles an input pattern may match
    Formats,        \* values of mr_input_format
    OutputFormats,  \* values of mr_output_format
    LineLengths,    \* values of mr_max_input_line_length
    MapperClasses,  \* values of mr_mapper_class
    Modes,          \* "incremental" or "batch" (mr_batch_reduction)
    Launches        \* "reducers_first": map workers start once every reduce
                    \* worker listens, as socket_communicator_test's sleeps
                    \* arrange; "any": in any order

Reducers == 0..(NumReducers - 1)
SP == 32

SX == INSTANCE SequencesExt

VARIABLES
    format, outFormat, maxLen, mapperClass, mode,  \* the job's flags
    launch,     \* the order the job's processes are started in
    input,      \* mapper -> the files its mr_input_filepattern matched
    file,       \* mapper -> the file MapWork is at (i_file + 1)
    connected,  \* mapper -> how many reducers InitSender has connected to
    accepted,   \* reducer -> how many connections InitReceiver has accepted
    pos,        \* mapper -> the reader's stream position
    long,       \* mapper -> TextReader's reading_a_long_line_
    combined,   \* mapper -> WordCountMapperWithCombiner's combined_results
    mphase,     \* mapper -> "init" (InitSender), "map", "done" (MapWork
                \* returned), "abort"
    sent,       \* mapper -> reducer -> pairs sent or spilled to it
    recvd,      \* reducer -> mapper -> how many of those it has received
    table,      \* reducer -> partial_reduce_results: key -> int accumulator
    rphase,     \* reducer -> "init", "accept" (InitReceiver), "start",
                \* "recv", "done", "abort"
    out         \* reducer -> lines written to output file 0

vars == <<format, outFormat, maxLen, mapperClass, mode, launch, input, connected, accepted, file,
          pos, long, combined, mphase, sent, recvd, table, rphase, out>>
setup == <<launch, connected, accepted>>

(* std::string order: bytes as unsigned char, a proper prefix first.       *)
RECURSIVE KeyLess(_, _)
KeyLess(x, y) ==
    IF x = <<>> THEN y # <<>>
    ELSE IF y = <<>> THEN FALSE
    ELSE IF Head(x) # Head(y) THEN Head(x) < Head(y)
    ELSE KeyLess(Tail(x), Tail(y))

SortedKeys(S) == SX!SetToSortSeq(S, KeyLess)

(* ostringstream << int, for the non-negative counts of the demo.          *)
RECURSIVE Decimal(_)
Decimal(n) == IF n < 10 THEN <<48 + n>> ELSE Decimal(n \div 10) \o <<48 + (n % 10)>>

(* istringstream >> int on a string of digits.                              *)
ParseInt(s) == SX!FoldLeft(LAMBDA acc, d : acc * 10 + d - 48, 0, s)

(* SplitStringUsing(full, " "): the single-delimiter loop skips a run of   *)
(* delimiters, then takes everything up to the next one as a word.         *)
RECURSIVE SplitStringUsing(_, _)
SplitStringUsing(s, c) ==
    IF s = <<>> THEN <<>>
    ELSE IF Head(s) = c THEN SplitStringUsing(Tail(s), c)
    ELSE LET d == SX!SelectInSeq(s, LAMBDA x : x = c)
             n == IF d = 0 THEN Len(s) ELSE d - 1
         IN  <<SubSeq(s, 1, n)>> \o SplitStringUsing(SubSeq(s, n + 1, Len(s)), c)

Pair(k, v) == [key |-> k, value |-> v]

(* Mapper::Output for each pair of ps, in order: MapOutput to             *)
(* Shard(key, NumReduceWorkers()), which Sends or Inserts it.              *)
Emit(m, ps) ==
    sent' = [sent EXCEPT ![m] =
               [r \in Reducers |-> @[r] \o SelectSeq(ps, LAMBDA p : JSHashMod(p.key, NumReducers) = r)]]

(* WordCountMapper::Map: Output(word, "1") for every word of the value.    *)
(* WordCountMapperWithCombiner::Map: ++combined_results[word].              *)
Map(m, value) ==
    LET words == SplitStringUsing(value, SP) IN
    IF mapperClass = "WordCountMapper"
    THEN /\ Emit(m, [i \in 1..Len(words) |-> Pair(words[i], <<49>>)])
         /\ UNCHANGED combined
    ELSE /\ combined' = [combined EXCEPT ![m] =
                LET c == @ IN
                [w \in DOMAIN c \cup SX!ToSet(words) |->
                   (IF w \in DOMAIN c THEN c[w] ELSE 0) +
                   Cardinality({i \in 1..Len(words) : words[i] = w})]]
         /\ UNCHANGED sent

(* Mapper::Flush after the shard's last record: nothing for               *)
(* WordCountMapper; WordCountMapperWithCombiner Outputs every combined     *)
(* count, in the std::map's key order, and clears the map.                  *)
Flush(m) ==
    IF mapperClass = "WordCountMapper"
    THEN UNCHANGED <<sent, combined>>
    ELSE LET ks == SortedKeys(DOMAIN combined[m]) IN
         /\ Emit(m, [i \in 1..Len(ks) |-> Pair(ks[i], Decimal(combined[m][ks[i]]))])
         /\ combined' = [combined EXCEPT ![m] = [w \in {} |-> 0]]

(* Connection set-up of the communicator (incremental mode only; a batch  *)
(* job exchanges spill files instead).  InitReceiver: Bind and Listen on   *)
(* the reducer's address (addresses are distinct and free), then a        *)
(* blocking Accept per map worker.  Connections the kernel has completed   *)
(* wait in the listen backlog until Accept takes them, also those of a    *)
(* map worker that has died since.                                         *)
ReduceListen(r) ==
    /\ rphase[r] = "init"
    /\ rphase' = [rphase EXCEPT ![r] = "accept"]
    /\ UNCHANGED <<format, outFormat, maxLen, mapperClass, mode, setup, input, file, pos, long, combined,
                   mphase, sent, recvd, table, out>>

Backlog(r) == Cardinality({m \in Mappers : connected[m] > r}) - accepted[r]

ReduceAccept(r) ==
    /\ rphase[r] = "accept"
    /\ Backlog(r) > 0
    /\ accepted' = [accepted EXCEPT ![r] = @ + 1]
    /\ IF accepted[r] + 1 = Cardinality(Mappers)
       THEN rphase' = [rphase EXCEPT ![r] = "start"]
       ELSE UNCHANGED rphase
    /\ UNCHANGED <<format, outFormat, maxLen, mapperClass, mode, launch, input, connected, file, pos, long,
                   combined, mphase, sent, recvd, table, out>>

(* InitSender's loop, one reducer per step, in index order:                *)
(* CHECK(sockets_[i]->Connect(...)).  connect succeeds only while reducer i *)
(* listens, i.e. between its Listen and the end of its Accept loop; it is  *)
(* tried once, and a refused connection aborts the map worker.  After the  *)
(* last one the send loop starts and Initialize goes on to MapWork.        *)
MapConnect(m) ==
    /\ mphase[m] = "init"
    /\ launch = "reducers_first" => \A r \in Reducers : rphase[r] # "init"
    /\ IF rphase[connected[m]] = "accept"
       THEN /\ connected' = [connected EXCEPT ![m] = @ + 1]
            /\ IF connected[m] + 1 = NumReducers
               THEN mphase' = [mphase EXCEPT ![m] = "map"]
               ELSE UNCHANGED mphase
       ELSE /\ mphase' = [mphase EXCEPT ![m] = "abort"]
            /\ UNCHANGED connected
    /\ UNCHANGED <<format, outFormat, maxLen, mapperClass, mode, launch, input, accepted, file, pos, long,
                   combined, sent, recvd, table, rphase, out>>

(* FilepatternMatcher(InputFilepattern()).NoError(): glob returns          *)
(* GLOB_NOMATCH for a pattern that matches no file.                        *)
NoError(m) == input[m] # <<>>

(* Faulty variant: one reader for all files, so reading_a_long_line_     *)
(* carries over from the previous file.                                    *)
OpenReaderKeepLong(m) == pos' = [pos EXCEPT ![m] = 1] /\ long' = long

(* CREATE_READER and reader->Open for the next file: a new TextReader      *)
(* starts at the file's beginning with reading_a_long_line_ false.         *)
OpenReader(m) == pos' = [pos EXCEPT ![m] = 1] /\ long' = [long EXCEPT ![m] = FALSE]

(* One turn of MapWork: a pattern that matched nothing is LOG(FATAL);      *)
(* otherwise reader->Read on the current file, a new reader for each file. *)
(* On a record, Map; when Read returns false, Flush, and the next file     *)
(* (fresh reader, Start is empty in both mappers) or MapWork returns;      *)
(* ReadRecord aborts instead.                                              *)
MapRead(m) ==
    /\ mphase[m] = "map"
    /\ IF ~NoError(m)
       THEN /\ mphase' = [mphase EXCEPT ![m] = "abort"]
            /\ UNCHANGED <<file, pos, long, combined, sent>>
       ELSE LET t == input[m][file[m]]
                res == IF format = "text" THEN TextRead(t, pos[m], long[m], maxLen)
                       ELSE ProtoRead(t, pos[m])
            IN  CASE res.status = "record" ->
                       /\ pos' = [pos EXCEPT ![m] = res.pos]
                       /\ long' = [long EXCEPT ![m] = res.long]
                       /\ Map(m, res.value)
                       /\ UNCHANGED <<mphase, file>>
                  [] res.status = "eof" /\ file[m] < Len(input[m]) ->
                       /\ Flush(m)
                       /\ file' = [file EXCEPT ![m] = @ + 1]
                       /\ OpenReader(m)
                       /\ UNCHANGED mphase
                  [] res.status = "eof" ->
                       /\ Flush(m)
                       /\ mphase' = [mphase EXCEPT ![m] = "done"]
                       /\ UNCHANGED <<file, pos, long>>
                  [] res.status = "abort" ->
                       /\ mphase' = [mphase EXCEPT ![m] = "abort"]
                       /\ UNCHANGED <<file, pos, long, combined, sent>>
    /\ UNCHANGED <<format, outFormat, maxLen, mapperClass, mode, setup, input, recvd, table, rphase, out>>

(* ReducerBase::Output(key, value) is ReduceOutput(0, key, value): in text *)
(* format WriteText prints the value and a newline, and the key is         *)
(* dropped; in protofile format WriteRecord writes the pair as one record  *)
(* (its size prefix and protobuf encoding abstracted).  An entry of the    *)
(* file says whether it is one of the reducer's header and footer lines.   *)
WriteText(value) == value \o <<NL>>
WriteRecord(key, value) == [key |-> key, value |-> value]
ReduceOutput(banner, key, value) ==
    [banner |-> banner,
     item |-> IF outFormat = "text" THEN WriteText(value) ELSE WriteRecord(key, value)]
Line(key, value) == ReduceOutput(FALSE, key, value)
Banner(s) == ReduceOutput(TRUE, <<>>, <<s>>)

(* GetReducer()->Start(): WordCountReducer writes its header line;         *)
(* WordCountBatchReducer writes nothing.                                    *)
ReduceStart(r) ==
    /\ rphase[r] = "start"
    /\ rphase' = [rphase EXCEPT ![r] = "recv"]
    /\ out' = [out EXCEPT ![r] = IF mode = "incremental"
                                 THEN Append(@, Banner("Following lines are reduce outputs:"))
                                 ELSE @]
    /\ UNCHANGED <<format, outFormat, maxLen, mapperClass, mode, setup, input, file, pos, long, combined,
                   mphase, sent, recvd, table>>

(* Faulty variant: BeginReduce for every message, replacing the partial    *)
(* result of a key already in the table.                                   *)
ReduceReceiveAlwaysBegin(r, m) ==
    /\ mode = "incremental" /\ rphase[r] = "recv"
    /\ recvd[r][m] < Len(sent[m][r])
    /\ LET p == sent[m][r][recvd[r][m] + 1]
           t == table[r]
       IN  table' = [table EXCEPT ![r] =
                       [x \in DOMAIN t \cup {p.key} |-> IF x = p.key THEN ParseInt(p.value) ELSE t[x]]]
    /\ recvd' = [recvd EXCEPT ![r][m] = @ + 1]
    /\ UNCHANGED <<format, outFormat, maxLen, mapperClass, mode, setup, input, file, pos, long, combined,
                   mphase, sent, rphase, out>>

(* One turn of the incremental loop: the next message from mapper m; a     *)
(* new key gets BeginReduce (new int parsed from the value), a known key   *)
(* PartialReduce (parse and add).                                           *)
ReduceReceive(r, m) ==
    /\ mode = "incremental" /\ rphase[r] = "recv"
    /\ recvd[r][m] < Len(sent[m][r])
    /\ LET p == sent[m][r][recvd[r][m] + 1]
           t == table[r]
       IN  table' = [table EXCEPT ![r] =
                       IF p.key \in DOMAIN t
                       THEN [t EXCEPT ![p.key] = @ + ParseInt(p.value)]
                       ELSE [x \in DOMAIN t \cup {p.key} |->
                               IF x = p.key THEN ParseInt(p.value) ELSE t[x]]]
    /\ recvd' = [recvd EXCEPT ![r][m] = @ + 1]
    /\ UNCHANGED <<format, outFormat, maxLen, mapperClass, mode, setup, input, file, pos, long, combined,
                   mphase, sent, rphase, out>>

(* End of stream: WordCountReducer::EndReduce for every table entry in key *)
(* order writes "key count", then Flush writes the trailer line.           *)
ReduceEnd(r) ==
    /\ mode = "incremental" /\ rphase[r] = "recv"
    /\ \A m \in Mappers : mphase[m] \in {"done", "abort"} /\ recvd[r][m] = Len(sent[m][r])
    /\ LET ks == SortedKeys(DOMAIN table[r]) IN
       out' = [out EXCEPT ![r] =
                 @ \o [i \in 1..Len(ks) |-> Line(ks[i], ks[i] \o <<SP>> \o Decimal(table[r][ks[i]]))]
                   \o <<Banner("Above lines are reduce outputs.")>>]
    /\ rphase' = [rphase EXCEPT ![r] = "done"]
    /\ UNCHANGED <<format, outFormat, maxLen, mapperClass, mode, setup, input, file, pos, long, combined,
                   mphase, sent, recvd, table>>

(* Batch mode, once every map worker has succeeded and its spill files are *)
(* with the reducer: the iterator over them gives each key once, in order, *)
(* with all its values, and WordCountBatchReducer::Reduce writes the sum.  *)
(* A reducer no map worker sent anything has no spill file, and the        *)
(* iterator over zero files dereferences files_[0].                        *)
BatchReduce(r) ==
    /\ mode = "batch" /\ rphase[r] = "recv"
    /\ \A m \in Mappers : mphase[m] = "done"
    /\ LET ps == SX!FlattenSeq([i \in 1..Cardinality(Mappers) |-> sent[SX!SetToSeq(Mappers)[i]][r]])
           ks == SortedKeys({ps[i].key : i \in 1..Len(ps)})
           Sum(k) == SX!FoldLeft(LAMBDA acc, p : acc + (IF p.key = k THEN ParseInt(p.value) ELSE 0), 0, ps)
       IN  IF ps = <<>>
           THEN rphase' = [rphase EXCEPT ![r] = "abort"] /\ UNCHANGED out
           ELSE /\ out' = [out EXCEPT ![r] =
                           @ \o [i \in 1..Len(ks) |-> Line(ks[i], ks[i] \o <<SP>> \o Decimal(Sum(ks[i])))]]
                /\ rphase' = [rphase EXCEPT ![r] = "done"]
    /\ UNCHANGED <<format, outFormat, maxLen, mapperClass, mode, setup, input, file, pos, long, combined,
                   mphase, sent, recvd, table>>

Init ==
    /\ format \in Formats /\ outFormat \in OutputFormats /\ maxLen \in LineLengths
    /\ mapperClass \in MapperClasses /\ mode \in Modes /\ launch \in Launches
    /\ input \in [Mappers -> IF format = "text" THEN TextInputs ELSE ProtoInputs]
    /\ file = [m \in Mappers |-> 1]
    /\ connected = [m \in Mappers |-> 0]
    /\ accepted = [r \in Reducers |-> 0]
    /\ pos = [m \in Mappers |-> 1]
    /\ long = [m \in Mappers |-> FALSE]
    /\ combined = [m \in Mappers |-> [w \in {} |-> 0]]
    /\ mphase = [m \in Mappers |-> IF mode = "incremental" THEN "init" ELSE "map"]
    /\ sent = [m \in Mappers |-> [r \in Reducers |-> <<>>]]
    /\ recvd = [r \in Reducers |-> [m \in Mappers |-> 0]]
    /\ table = [r \in Reducers |-> [w \in {} |-> 0]]
    /\ rphase = [r \in Reducers |-> IF mode = "incremental" THEN "init" ELSE "start"]
    /\ out = [r \in Reducers |-> <<>>]

(* The job has stopped: every worker has returned or died, or a map       *)
(* worker died, so that a reducer waits in Accept for it, or batch         *)
(* reducers are never started.                                             *)
Stopped ==
    /\ \A m \in Mappers : mphase[m] \in {"done", "abort"}
    /\ \/ \A r \in Reducers : rphase[r] \in {"done", "abort"}
       \/ \E m \in Mappers : mphase[m] = "abort"
    /\ UNCHANGED vars

Next ==
    \/ \E m \in Mappers : MapConnect(m) \/ MapRead(m)
    \/ \E r \in Reducers : ReduceListen(r) \/ ReduceAccept(r)
    \/ \E r \in Reducers : ReduceStart(r) \/ ReduceEnd(r) \/ BatchReduce(r)
    \/ \E r \in Reducers, m \in Mappers : ReduceReceive(r, m)
    \/ Stopped

Spec == Init /\ [][Next]_vars

-----------------------------------------------------------------------------
(* The reference: the words of a value are its maximal runs of bytes other *)
(* than the space, counted over what Map should see of every file of      *)
(* every map worker.                                                       *)
WordStarts(v) == {i \in 1..Len(v) : v[i] # SP /\ (i = 1 \/ v[i - 1] = SP)}
WordAt(v, i) == LET e == {j \in i..Len(v) : \A l \in i..j : v[l] # SP}
                IN  SubSeq(v, i, CHOOSE j \in e : \A l \in e : l <= j)
Seen(m) == SX!FlattenSeq([i \in 1..Len(input[m]) |-> ExpectedValues(format, input[m][i], maxLen)])
Occurrences == UNION {{<<m, i, s>> : s \in WordStarts(Seen(m)[i])} :
                        <<m, i>> \in UNION {{<<m, i>> : i \in 1..Len(Seen(m))} : m \in Mappers}}
WordOf(o) == WordAt(Seen(o[1])[o[2]], o[3])
AllWords == {WordOf(o) : o \in Occurrences}
Total(w) == Cardinality({o \in Occurrences : WordOf(o) = w})

(* The spec's output formats: text is the value and a newline, the key   *)
(* omitted; protofile is a record carrying the key and the value.          *)
OutputEntry(k, v) ==
    [banner |-> FALSE,
     item |-> IF outFormat = "text" THEN v \o <<NL>> ELSE [key |-> k, value |-> v]]
ExpectedOut(r) ==
    LET ks == SortedKeys({w \in AllWords : JSHashMod(w, NumReducers) = r}) IN
    [i \in 1..Len(ks) |-> OutputEntry(ks[i], ks[i] \o <<SP>> \o Decimal(Total(ks[i])))]

CountLines(r) == SelectSeq(out[r], LAMBDA l : ~l.banner)

JobDone == \A m \in Mappers : mphase[m] = "done" /\ \A r \in Reducers : rphase[r] = "done"

(* The job computes word counts, as the spec's seed scenarios say: no      *)
(* worker dies, and when all have finished, the count lines of reducer     *)
(* r's output file are "word count" for exactly the words hashed to r,     *)
(* in ascending key order, each counted over every line of every file     *)
(* (lines too long for the buffer excepted).                               *)
JobOutputCorrect ==
    /\ \A m \in Mappers : mphase[m] # "abort"
    /\ \A r \in Reducers : rphase[r] # "abort"
    /\ JobDone => \A r \in Reducers : CountLines(r) = ExpectedOut(r)
=============================================================================
