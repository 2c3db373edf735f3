------------------------------- MODULE Shuffle -------------------------------
(***************************************************************************)
(* The map side's routing of outputs and the incremental reducer's table   *)
(* (mapreduce_lite.cc): the user's Mapper calls Output, OutputToShard or   *)
(* OutputToAllShards; MapOutput checks the pair and hands it to the        *)
(* communicator (incremental mode) or to the SortedBuffer of each target   *)
(* reducer (batch mode); in map-only mode Output writes output file 0.     *)
(* An incremental reducer takes each message it receives into its          *)
(* partial-reduce table (BeginReduce or PartialReduce) and, at end of      *)
(* stream, calls EndReduce for every key in the table's order.             *)
(*                                                                         *)
(* The transport is the in-order, lossless delivery the Transport module   *)
(* checks: a reducer receives from each mapper what it was sent, in order, *)
(* interleaved in any way across mappers.  The SortedBuffer is what it     *)
(* keeps per reducer; its spilling is modelled in SortedBuffer.  Keys and  *)
(* values are byte strings, so their sizes and their std::string order     *)
(* are real.                                                               *)
(***************************************************************************)
EXTENDS Integers, Sequences, FiniteSets, SimpleHash

CONSTANTS
    Mappers,        \* the map worker processes
    NumReducers,    \* NumReduceWorkers()
    Keys,           \* keys the user's Map may emit, byte strings
    Values,         \* values it may emit
    Shards,         \* shard arguments the user may pass to OutputToShard
    MaxOutput,      \* mr_max_map_output_size
    QueueSize,      \* the mapper's message queue, in bytes
    PoolSize,       \* the SortedBuffer pool, in bytes
    Modes,          \* job modes: "incremental", "batch", "maponly"
    MaxCalls        \* bound on the output calls of all mappers together

SX == INSTANCE SequencesExt

Reducers == 0..(NumReducers - 1)
SizeofUint32 == 4

VARIABLES
    mode,       \* FLAGS_mr_batch_reduction and mr_map_only, as one of Modes
    mphase,     \* mapper -> "map", "done" (MapWork returned), "fatal"
    emitted,    \* history: the output calls, [m, op, shard, key, value]
    count,      \* mapper -> g_count_map_output
    sent,       \* mapper -> reducer -> pairs sent or inserted to it
    written,    \* mapper -> pairs written to output file 0 (map-only)
    recvd,      \* reducer -> messages Receive returned, [from, key, value]
    table,      \* reducer -> partial_reduce_results: key -> values reduced
    rphase,     \* reducer -> "recv", "done" (EndReduce loop finished)
    out         \* reducer -> EndReduce calls, [key, values]

vars == <<mode, mphase, emitted, count, sent, written, recvd, table, rphase, out>>

(* std::string order: bytes as unsigned char, a proper prefix first.       *)
RECURSIVE KeyLess(_, _)
KeyLess(x, y) ==
    IF x = <<>> THEN y # <<>>
    ELSE IF y = <<>> THEN FALSE
    ELSE IF Head(x) # Head(y) THEN Head(x) < Head(y)
    ELSE KeyLess(Tail(x), Tail(y))

Pair(k, v) == [key |-> k, value |-> v]

(* Mapper::Shard: JSHash is unsigned, so the remainder is in [0, n).       *)
Shard(key, n) == JSHashMod(key, n)

(* Faulty variant: the fan-out loop stops one reducer short.              *)
MapOutputLastShardSkipped(m, id, k, v, inc) ==
    LET size == Len(k) + Len(v) + 2 * SizeofUint32
        targets == IF id >= 0 THEN {id} ELSE Reducers \ {NumReducers - 1}
        fatal == \/ ~(id < NumReducers)
                 \/ size > MaxOutput + 2 * SizeofUint32
                 \/ mode = "incremental" /\ size > QueueSize
                 \/ mode = "batch" /\ size > PoolSize
    IN  IF fatal
        THEN mphase' = [mphase EXCEPT ![m] = "fatal"] /\ UNCHANGED <<sent, count>>
        ELSE /\ sent' = [sent EXCEPT ![m] =
                           [r \in Reducers |-> IF r \in targets THEN Append(@[r], Pair(k, v))
                                               ELSE @[r]]]
             /\ count' = [count EXCEPT ![m] = @ + inc]
             /\ UNCHANGED mphase

(* MapOutput(reduce_worker_id, key, value): CHECK_LT against the reducer   *)
(* count (the CHECK_LE(0, id) is commented out), LOG(FATAL) when the pair  *)
(* and its two sizes exceed MapOutputBufferSize(), then for the one        *)
(* target, or for every reducer when the id is negative: Send, fatal when  *)
(* the message is larger than the queue (Add returns -1), or Insert, fatal *)
(* when even an empty pool cannot hold the pair.  The caller's counter     *)
(* increment inc follows a MapOutput that returns.                         *)
MapOutput(m, id, k, v, inc) ==
    LET size == Len(k) + Len(v) + 2 * SizeofUint32
        targets == IF id >= 0 THEN {id} ELSE Reducers
        fatal == \/ ~(id < NumReducers)
                 \/ size > MaxOutput + 2 * SizeofUint32
                 \/ mode = "incremental" /\ size > QueueSize
                 \/ mode = "batch" /\ size > PoolSize
    IN  IF fatal
        THEN mphase' = [mphase EXCEPT ![m] = "fatal"] /\ UNCHANGED <<sent, count>>
        ELSE /\ sent' = [sent EXCEPT ![m] =
                           [r \in Reducers |-> IF r \in targets THEN Append(@[r], Pair(k, v))
                                               ELSE @[r]]]
             /\ count' = [count EXCEPT ![m] = @ + inc]
             /\ UNCHANGED mphase

(* A call of the user's Map on mapper m: recorded, within the bound.       *)
Call(m, op, s, k, v) ==
    /\ mphase[m] = "map"
    /\ Len(emitted) < MaxCalls
    /\ emitted' = Append(emitted, [m |-> m, op |-> op, shard |-> s, key |-> k, value |-> v])

(* Mapper::Output: ReduceOutput(0, ...) in map-only mode, else MapOutput   *)
(* to Shard(key, NumReduceWorkers()).                                      *)
Output(m, k, v) ==
    /\ Call(m, "Output", -1, k, v)
    /\ IF mode = "maponly"
       THEN /\ written' = [written EXCEPT ![m] = Append(@, Pair(k, v))]
            /\ count' = [count EXCEPT ![m] = @ + 1]
            /\ UNCHANGED <<mphase, sent>>
       ELSE MapOutput(m, Shard(k, NumReducers), k, v, 1) /\ UNCHANGED written
    /\ UNCHANGED <<mode, recvd, table, rphase, out>>

(* Mapper::OutputToShard: fatal in map-only mode.                          *)
OutputToShard(m, s, k, v) ==
    /\ Call(m, "OutputToShard", s, k, v)
    /\ IF mode = "maponly"
       THEN mphase' = [mphase EXCEPT ![m] = "fatal"] /\ UNCHANGED <<sent, count>>
       ELSE MapOutput(m, s, k, v, 1)
    /\ UNCHANGED <<mode, written, recvd, table, rphase, out>>

(* Mapper::OutputToAllShards: MapOutput(-1, ...), counted once per reducer. *)
OutputToAllShards(m, k, v) ==
    /\ Call(m, "OutputToAllShards", -1, k, v)
    /\ IF mode = "maponly"
       THEN mphase' = [mphase EXCEPT ![m] = "fatal"] /\ UNCHANGED <<sent, count>>
       ELSE MapOutput(m, -1, k, v, NumReducers)
    /\ UNCHANGED <<mode, written, recvd, table, rphase, out>>

(* MapWork has read all its input; Finalize declares end of stream.        *)
MapperDone(m) ==
    /\ mphase[m] = "map"
    /\ mphase' = [mphase EXCEPT ![m] = "done"]
    /\ UNCHANGED <<mode, emitted, count, sent, written, recvd, table, rphase, out>>

ReceivedFrom(r, m) == SelectSeq(recvd[r], LAMBDA x : x.from = m)

(* Faulty variant: BeginReduce for every value, without the find.        *)
ReduceReceiveAlwaysBegin(r, m) ==
    /\ mode = "incremental" /\ rphase[r] = "recv"
    /\ Len(ReceivedFrom(r, m)) < Len(sent[m][r])
    /\ LET p == sent[m][r][Len(ReceivedFrom(r, m)) + 1]
           t == table[r]
       IN  /\ recvd' = [recvd EXCEPT ![r] = Append(@, [from |-> m, key |-> p.key, value |-> p.value])]
           /\ table' = [table EXCEPT ![r] =
                          [x \in DOMAIN t \cup {p.key} |-> IF x = p.key THEN <<p.value>> ELSE t[x]]]
    /\ UNCHANGED <<mode, mphase, emitted, count, sent, written, rphase, out>>

(* One turn of ReduceWork's incremental loop: Receive returns the next     *)
(* message of some mapper; a key not in the table gets BeginReduce, a key  *)
(* in it PartialReduce.                                                    *)
ReduceReceive(r, m) ==
    /\ mode = "incremental" /\ rphase[r] = "recv"
    /\ Len(ReceivedFrom(r, m)) < Len(sent[m][r])
    /\ LET p == sent[m][r][Len(ReceivedFrom(r, m)) + 1]
           t == table[r]
       IN  /\ recvd' = [recvd EXCEPT ![r] = Append(@, [from |-> m, key |-> p.key, value |-> p.value])]
           /\ table' = [table EXCEPT ![r] =
                          IF p.key \in DOMAIN t
                          THEN [t EXCEPT ![p.key] = Append(@, p.value)]
                          ELSE [x \in DOMAIN t \cup {p.key} |->
                                  IF x = p.key THEN <<p.value>> ELSE t[x]]]
    /\ UNCHANGED <<mode, mphase, emitted, count, sent, written, rphase, out>>

(* Receive returns 0 once every mapper has ended its stream and all its    *)
(* messages are taken; EndReduce is then called for each entry of the      *)
(* std::map, in key order.                                                 *)
ReduceEnd(r) ==
    /\ mode = "incremental" /\ rphase[r] = "recv"
    /\ \A m \in Mappers : mphase[m] # "map" /\ Len(ReceivedFrom(r, m)) = Len(sent[m][r])
    /\ LET ks == SX!SetToSortSeq(DOMAIN table[r], KeyLess)
       IN  out' = [out EXCEPT ![r] = [i \in 1..Len(ks) |-> [key |-> ks[i], values |-> table[r][ks[i]]]]]
    /\ rphase' = [rphase EXCEPT ![r] = "done"]
    /\ UNCHANGED <<mode, mphase, emitted, count, sent, written, recvd, table>>

Init ==
    /\ mode \in Modes
    /\ mphase = [m \in Mappers |-> "map"]
    /\ emitted = <<>>
    /\ count = [m \in Mappers |-> 0]
    /\ sent = [m \in Mappers |-> [r \in Reducers |-> <<>>]]
    /\ written = [m \in Mappers |-> <<>>]
    /\ recvd = [r \in Reducers |-> <<>>]
    /\ table = [r \in Reducers |-> [k \in {} |-> <<>>]]
    /\ rphase = [r \in Reducers |-> "recv"]
    /\ out = [r \in Reducers |-> <<>>]

(* Every process has ended: the mappers, and in incremental mode the       *)
(* reducers (in batch mode theirs is SortedBufferIterator's loop).          *)
Ended ==
    /\ \A m \in Mappers : mphase[m] # "map"
    /\ mode = "incremental" => \A r \in Reducers : rphase[r] = "done"
    /\ UNCHANGED vars

Next ==
    \/ \E m \in Mappers, k \in Keys, v \in Values :
          \/ Output(m, k, v)
          \/ \E s \in Shards : OutputToShard(m, s, k, v)
          \/ OutputToAllShards(m, k, v)
    \/ \E m \in Mappers : MapperDone(m)
    \/ \E r \in Reducers, m \in Mappers : ReduceReceive(r, m)
    \/ \E r \in Reducers : ReduceEnd(r)
    \/ Ended

Spec == Init /\ [][Next]_vars

-----------------------------------------------------------------------------
(* The reducers a call is meant for (spec 4.5): hash(key) mod R for        *)
(* Output, shard i for OutputToShard(i), all of them for -1 and for        *)
(* OutputToAllShards.                                                      *)
SpecTargets(c) ==
    CASE c.op = "Output" -> {JSHashMod(c.key, NumReducers)}
      [] c.op = "OutputToShard" -> IF c.shard = -1 THEN Reducers ELSE {c.shard} \cap Reducers
      [] OTHER -> Reducers

(* Mapper m's calls that returned: all but a last, fatal one.              *)
Completed(m) ==
    LET cs == SelectSeq(emitted, LAMBDA c : c.m = m)
    IN  IF mphase[m] = "fatal" THEN SubSeq(cs, 1, Len(cs) - 1) ELSE cs

PairsOf(cs) == [i \in 1..Len(cs) |-> Pair(cs[i].key, cs[i].value)]

(* Whatever a mapper's calls, in any mode: each reducer has been handed,   *)
(* in call order, exactly one copy of each pair of a returned call meant   *)
(* for it (OutputToAllShards: one copy for every reducer), and in map-only *)
(* mode output file 0 holds exactly the pairs of Output.                   *)
RoutedAsAsked ==
    \A m \in Mappers :
        LET cs == Completed(m) IN
        /\ \A r \in Reducers :
              sent[m][r] = PairsOf(SelectSeq(cs, LAMBDA c : mode # "maponly" /\ r \in SpecTargets(c)))
        /\ written[m] = PairsOf(SelectSeq(cs, LAMBDA c : mode = "maponly"))

(* When an incremental reducer has run its EndReduce loop, it has called   *)
(* EndReduce once for each key it was sent, in ascending key order, and    *)
(* the table entry it passed holds every value sent to it under that key,  *)
(* in the order Receive returned them: BeginReduce on the first value and  *)
(* PartialReduce on each later one lose and duplicate nothing.             *)
ReduceComplete ==
    \A r \in Reducers : rphase[r] = "done" =>
        LET o == out[r]
            ValuesOf(k) == LET g == SelectSeq(recvd[r], LAMBDA x : x.key = k)
                           IN  [i \in 1..Len(g) |-> g[i].value]
            outPairs == SX!FlattenSeq([i \in 1..Len(o) |->
                          [j \in 1..Len(o[i].values) |-> Pair(o[i].key, o[i].values[j])]])
            sentPairs == SX!FlattenSeq([m \in 1..Cardinality(Mappers) |->
                           sent[SX!SetToSeq(Mappers)[m]][r]])
        IN  /\ \A i, j \in 1..Len(o) : i < j => KeyLess(o[i].key, o[j].key)
            /\ \A i \in 1..Len(o) : o[i].values = ValuesOf(o[i].key)
            /\ SX!ToBag(outPairs) = SX!ToBag(sentPairs)
=============================================================================
