---------------------------- MODULE SortedBuffer ----------------------------
(***************************************************************************)
(* The map-side spill of batch mode: one SortedBuffer (sorted_buffer.cc)   *)
(* with its NaiveMemoryAllocator (memory_allocator.cc), fed by MapOutput   *)
(* and flushed by its destructor at the end of MapWork.                    *)
(*                                                                         *)
(* Keys and values are byte strings (sequences of 0..255), so that the     *)
(* lexicographic order of MemoryPieceLessThan, prefixes included, and the  *)
(* byte sizes the allocator charges are both real.  A run file is the      *)
(* sequence of groups [key, values] that one Flush writes; the varint and  *)
(* length prefixes of the file format are left out (their encoding is not  *)
(* what these properties are about).                                       *)
(***************************************************************************)
EXTENDS Naturals, Sequences, FiniteSets, Functions

CONSTANTS
    Keys,         \* the keys a mapper may emit, as byte strings
    Values,       \* the values it may emit
    PoolSize,     \* in_memory_buffer_size: bytes of the allocator's pool
    MaxInserts    \* bound on the number of MapOutput calls

ASSUME PoolSize \in Nat /\ MaxInserts \in Nat

SX == INSTANCE SequencesExt

SizeofPieceSize == 4            \* sizeof(PieceSize), PieceSize is uint32

Pair == [key : Keys, value : Values]

VARIABLES
    allocated,    \* allocator_->allocated_size_
    kvList,       \* key_value_list_: the pairs inserted since the last Flush
    runs,         \* the run files written so far; count_files_ = Len(runs)
    inputs,       \* history: every pair passed to Insert, in order
    mapPhase      \* "map" (MapWork running), "closed" (buffer deleted), "fatal"

mapVars == <<allocated, kvList, runs, inputs, mapPhase>>

(* Faulty variant: the bytes compared as signed char.                     *)
PieceLessThanSigned(x, y) ==
    LET n == IF Len(x) < Len(y) THEN Len(x) ELSE Len(y)
        sgn(b) == IF b > 127 THEN b - 256 ELSE b
    IN  \/ \E i \in 1..n : sgn(x[i]) < sgn(y[i]) /\ \A j \in 1..(i-1) : x[j] = y[j]
        \/ (\A j \in 1..n : x[j] = y[j]) /\ Len(x) < Len(y)

(* MemoryPieceLessThan: unsigned byte-wise comparison, then shorter first. *)
PieceLessThan(x, y) ==
    LET n == IF Len(x) < Len(y) THEN Len(x) ELSE Len(y)
    IN  \/ \E i \in 1..n : x[i] < y[i] /\ \A j \in 1..(i-1) : x[j] = y[j]
        \/ (\A j \in 1..n : x[j] = y[j]) /\ Len(x) < Len(y)

(* Faulty variant: the sizes are not compared, so a prefix is equal.      *)
PieceEqualPrefix(x, y) ==
    LET n == IF Len(x) < Len(y) THEN Len(x) ELSE Len(y)
    IN  \A j \in 1..n : x[j] = y[j]

(* MemoryPieceEqual: the same bytes and the same size. *)
PieceEqual(x, y) ==
    LET n == IF Len(x) < Len(y) THEN Len(x) ELSE Len(y)
    IN  (\A j \in 1..n : x[j] = y[j]) /\ Len(x) = Len(y)

(* std::string comparison of two keys, used by compare_ on top_key: the   *)
(* bytes compare as unsigned char, and a proper prefix is smaller.        *)
RECURSIVE StringLess(_, _)
StringLess(x, y) ==
    IF x = <<>> THEN y # <<>>
    ELSE IF y = <<>> THEN FALSE
    ELSE IF Head(x) # Head(y) THEN Head(x) < Head(y)
    ELSE StringLess(Tail(x), Tail(y))

(* Faulty variant: the two size prefixes are not charged.                 *)
HaveNoPrefixes(a, klen, vlen) == a + klen + vlen <= PoolSize

(* Faulty variant: a pair that fills the pool exactly is refused.         *)
HaveStrict(a, klen, vlen) == a + klen + vlen + 2 * SizeofPieceSize < PoolSize

(* NaiveMemoryAllocator::Have(size) and Have(key_length, value_length).   *)
HaveOne(a, size) == size + SizeofPieceSize + a <= PoolSize
Have(a, klen, vlen) == a + klen + vlen + 2 * SizeofPieceSize <= PoolSize

(* Allocate(size) bumps the pool by the piece and its size prefix.        *)
Allocate(a, size) == a + size + SizeofPieceSize

(* The orders std::sort may leave: it is not stable, so pairs with equal  *)
(* keys may come out in any order.                                        *)
SortedOrders(list) ==
    { s \in { [i \in 1..Len(list) |-> list[p[i]]] :
                 p \in Bijection(1..Len(list), 1..Len(list)) } :
        \A i, j \in 1..Len(s) : i < j => ~PieceLessThan(s[j].key, s[i].key) }

(* The grouping loop of Flush: a maximal run of equal keys, as compared   *)
(* with the first pair of the run, becomes one group.                     *)
RECURSIVE Groups(_)
Groups(s) ==
    IF s = <<>> THEN <<>>
    ELSE LET n == CHOOSE n \in 1..Len(s) :
                    /\ \A i \in 1..n : PieceEqual(s[1].key, s[i].key)
                    /\ n < Len(s) => ~PieceEqual(s[1].key, s[n+1].key)
         IN  <<[key |-> s[1].key,
                values |-> [i \in 1..n |-> s[i].value]]>>
             \o Groups(SubSeq(s, n+1, Len(s)))

(* The run files after Flush with sorted contents s: nothing is written   *)
(* when the pool is empty.                                                *)
FlushedRuns(s) == IF allocated = 0 THEN runs ELSE Append(runs, Groups(s))

(* Insert(key, value): append when the pair fits; otherwise Flush, and a  *)
(* pair that still does not fit is LOG(FATAL).  The two Allocate calls    *)
(* CHECK their own Have(size).                                            *)
Insert(k, v) ==
    /\ mapPhase = "map"
    /\ Len(inputs) < MaxInserts
    /\ inputs' = Append(inputs, [key |-> k, value |-> v])
    /\ LET store(a, list) ==
             IF HaveOne(a, Len(k)) /\ HaveOne(Allocate(a, Len(k)), Len(v))
             THEN /\ allocated' = Allocate(Allocate(a, Len(k)), Len(v))
                  /\ kvList' = Append(list, [key |-> k, value |-> v])
                  /\ UNCHANGED mapPhase
             ELSE /\ mapPhase' = "fatal"      \* CHECK(Allocate(...)) fails
                  /\ UNCHANGED <<allocated, kvList>>
       IN IF Have(allocated, Len(k), Len(v))
          THEN store(allocated, kvList) /\ UNCHANGED runs
          ELSE \E s \in SortedOrders(kvList) :
                 /\ runs' = FlushedRuns(s)
                 /\ IF Have(0, Len(k), Len(v))
                    THEN store(0, <<>>)
                    ELSE /\ mapPhase' = "fatal"
                         /\ allocated' = 0 /\ kvList' = <<>>

(* The destructor's Flush, run by STLDeleteElementsAndClear at the end of *)
(* MapWork.                                                               *)
Close ==
    /\ mapPhase = "map"
    /\ \E s \in SortedOrders(kvList) : runs' = FlushedRuns(s)
    /\ allocated' = 0
    /\ kvList' = <<>>
    /\ mapPhase' = "closed"
    /\ UNCHANGED inputs

MapInit ==
    /\ allocated = 0
    /\ kvList = <<>>
    /\ runs = <<>>
    /\ inputs = <<>>
    /\ mapPhase = "map"

MapNext ==
    \/ \E k \in Keys, v \in Values : Insert(k, v)
    \/ Close

(* The map worker has exited, normally or by LOG(FATAL).                  *)
MapStopped == mapPhase \in {"closed", "fatal"} /\ UNCHANGED mapVars

MapSpec == MapInit /\ [][MapNext \/ MapStopped]_mapVars /\ WF_mapVars(Close)

-----------------------------------------------------------------------------
(* Every pair of a run file, in file order.                               *)
RunPairs(run) ==
    SX!FlattenSeq([g \in 1..Len(run) |->
                     [i \in 1..Len(run[g].values) |->
                        [key |-> run[g].key, value |-> run[g].values[i]]]])

AllRunPairs == SX!FlattenSeq([r \in 1..Len(runs) |-> RunPairs(runs[r])])

MapTypeOK ==
    /\ allocated \in 0..PoolSize
    /\ kvList \in Seq(Pair)
    /\ inputs \in Seq(Pair) /\ Len(inputs) <= MaxInserts
    /\ mapPhase \in {"map", "closed", "fatal"}

(* Each Flush writes a run file whose groups have strictly increasing keys *)
(* and at least one value each, which the iterator's LoadKey CHECKs.       *)
RunsSorted ==
    \A r \in 1..Len(runs) :
        /\ runs[r] # <<>>
        /\ \A g \in 1..Len(runs[r]) : runs[r][g].values # <<>>
        /\ \A g, h \in 1..Len(runs[r]) :
              g < h => StringLess(runs[r][g].key, runs[r][h].key)

(* Insert and Flush lose and duplicate nothing: the pairs in the run files *)
(* and in memory are exactly the pairs inserted, as multisets.             *)
RunsComplete ==
    mapPhase # "fatal" =>
        SX!ToBag(inputs) = SX!ToBag(AllRunPairs \o kvList)

(* The bytes a pair costs the allocator: both pieces and their prefixes.  *)
PairBytes(p) == Len(p.key) + Len(p.value) + 2 * SizeofPieceSize
RunBytes(run) == SX!FoldLeft(LAMBDA acc, p : acc + PairBytes(p), 0, RunPairs(run))

(* Flush spills only a full pool, and never an overfull one: every run     *)
(* file fits in PoolSize bytes, and the pair inserted right after the run's *)
(* pairs (the one whose Insert flushed it) would not have fit beside them.  *)
(* A wrong fill test makes the spill come early or the pool overflow, and  *)
(* only a sequence of inserts that meets the pool's edge exactly shows it.  *)
SpillOnlyWhenFull ==
    \A r \in 1..Len(runs) :
        LET next == Len(SX!FlattenSeq([i \in 1..r |-> RunPairs(runs[i])])) + 1
        IN  /\ RunBytes(runs[r]) <= PoolSize
            /\ next <= Len(inputs) =>
                   RunBytes(runs[r]) + PairBytes(inputs[next]) > PoolSize
=============================================================================
