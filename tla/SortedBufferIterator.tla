------------------------- MODULE SortedBufferIterator -------------------------
(***************************************************************************)
(* Batch reduction: the reduce worker merges the run files of the map-side *)
(* SortedBuffer with SortedBufferIteratorImpl (sorted_buffer_iterator.cc)  *)
(* and calls the user's Reduce once per key (ReduceWork, batch branch, in  *)
(* mapreduce_lite.cc).  The reducer starts once the map worker has closed  *)
(* its buffer; moving the files to the reducer is the scheduler's job and  *)
(* is not modelled.                                                        *)
(*                                                                         *)
(* A file's read position is its current group g and num_rest_values;     *)
(* top_key and top_value are the group's key and the last value read.      *)
(* files_ is the sequence heap of file indices, and heapSize is heap_size_.*)
(***************************************************************************)
EXTENDS SortedBuffer, Bags

VARIABLES
    pos,          \* file index -> [g, rest]: the reader state of each file
    heap,         \* files_, as a sequence of file indices
    heapSize,     \* heap_size_
    currentKey,   \* current_key_
    done,         \* done_
    redPhase,     \* the driver: "wait", "loop", "user", "discard", "done", "crashed"
    reduced,      \* history: the set of keys Reduce was called with
    visited       \* history: [key(), value()] at every Next, user's or discard's

iterVars == <<pos, heap, heapSize, currentKey, done, redPhase, reduced, visited>>
vars == <<mapVars, iterVars>>

TopKey(ps, f) == runs[f][ps[f].g].key
TopValue(ps, f) ==
    LET vals == runs[f][ps[f].g].values IN vals[Len(vals) - ps[f].rest]

(* compare_(a, b): a's top key is greater, which makes files_ a min-heap.  *)
Greater(ps, a, b) == StringLess(TopKey(ps, b), TopKey(ps, a))

IsHeap(ps, h, n) == \A i \in 2..n : ~Greater(ps, h[i \div 2], h[i])

Swap(h, i, j) == [h EXCEPT ![i] = h[j], ![j] = h[i]]

(* Faulty variant: the larger child is taken as min_child.                *)
RECURSIVE SiftFromMaxChild(_, _, _, _)
SiftFromMaxChild(ps, h, n, p) ==
    IF 2 * p + 1 <= n
    THEN LET m == IF Greater(ps, h[2 * p], h[2 * p + 1]) THEN 2 * p ELSE 2 * p + 1
         IN  IF Greater(ps, h[p], h[m]) THEN SiftFromMaxChild(ps, Swap(h, p, m), n, m) ELSE h
    ELSE IF 2 * p <= n /\ Greater(ps, h[p], h[2 * p]) THEN Swap(h, p, 2 * p) ELSE h

(* SiftDown, with 1-based positions: the children of p are 2p and 2p+1.   *)
RECURSIVE SiftFrom(_, _, _, _)
SiftFrom(ps, h, n, p) ==
    IF 2 * p + 1 <= n
    THEN LET m == IF Greater(ps, h[2 * p], h[2 * p + 1]) THEN 2 * p + 1 ELSE 2 * p
         IN  IF Greater(ps, h[p], h[m]) THEN SiftFrom(ps, Swap(h, p, m), n, m) ELSE h
    ELSE IF 2 * p <= n /\ Greater(ps, h[p], h[2 * p]) THEN Swap(h, p, 2 * p) ELSE h

SiftDown(ps, h, n) == SiftFrom(ps, h, n, 1)

Perms(n) == { [i \in 1..n |-> p[i]] : p \in Bijection(1..n, 1..n) }

(* std::make_heap and std::pop_heap: their exact arrangement is the        *)
(* library's, so any heap-ordered arrangement is allowed.  pop_heap moves  *)
(* the top to position n and re-heaps the first n-1.                       *)
MakeHeaps(ps, n) == { h \in Perms(n) : IsHeap(ps, h, n) }
PopHeaps(ps, h, n) ==
    { h2 \in Perms(Len(h)) :
        /\ h2[n] = h[1]
        /\ \A i \in (n+1)..Len(h) : h2[i] = h[i]
        /\ IsHeap(ps, h2, n - 1) }

(* Initialize: LoadKey and LoadValue on every file, make_heap, then       *)
(* current_key_ = files_[0]->top_key.  With no files, files_[0] indexes   *)
(* an empty vector whose storage is null: the read faults.                *)
Initialize ==
    /\ mapPhase = "closed" /\ redPhase = "wait"
    /\ IF Len(runs) = 0
       THEN /\ redPhase' = "crashed"
            /\ UNCHANGED <<pos, heap, heapSize, currentKey, done, reduced, visited>>
       ELSE LET ps == [f \in 1..Len(runs) |->
                         [g |-> 1, rest |-> Len(runs[f][1].values) - 1]]
            IN  \E h \in MakeHeaps(ps, Len(runs)) :
                  /\ pos' = ps /\ heap' = h /\ heapSize' = Len(runs)
                  /\ currentKey' = TopKey(ps, h[1])
                  /\ done' = FALSE
                  /\ redPhase' = "loop"
                  /\ UNCHANGED <<reduced, visited>>
    /\ UNCHANGED mapVars

(* Faulty variant: num_rest_values >= 0.                                  *)
HasRestValuesOffByOne(ps, f) == ps[f].rest >= 0

(* LoadValue succeeds while the file has values left under its key.       *)
HasRestValues(ps, f) == ps[f].rest > 0

(* Faulty variant: done_ only when the heap is empty.                     *)
DoneAfterHeapEmptyOnly(ps, h, n) == n = 0

(* The test after both refill branches of Next: the heap is empty or its  *)
(* top file has moved on to another key.                                  *)
DoneAfter(ps, h, n) == n = 0 \/ TopKey(ps, h[1]) # currentKey

(* SortedBufferIteratorImpl::Next, recording the value it moves past.     *)
(* LoadValue on the top file; else LoadKey, LoadValue and SiftDown; else  *)
(* pop_heap.  done_ is set when the heap is empty or its top key differs. *)
IterNext ==
    LET top == heap[1] IN
    /\ visited' = Append(visited, [key |-> currentKey, value |-> TopValue(pos, top)])
    /\ \/ /\ HasRestValues(pos, top)
          /\ pos' = [pos EXCEPT ![top].rest = @ - 1]
          /\ UNCHANGED <<heap, heapSize, done>>
       \/ /\ ~HasRestValues(pos, top)
          /\ pos[top].g < Len(runs[top])
          /\ LET ps == [pos EXCEPT ![top] =
                          [g |-> @.g + 1, rest |-> Len(runs[top][@.g + 1].values) - 1]]
                 h == SiftDown(ps, heap, heapSize)
             IN  /\ pos' = ps /\ heap' = h
                 /\ done' = DoneAfter(ps, h, heapSize)
                 /\ UNCHANGED heapSize
       \/ /\ ~HasRestValues(pos, top)
          /\ pos[top].g = Len(runs[top])
          /\ \E h \in PopHeaps(pos, heap, heapSize) :
               /\ heap' = h /\ heapSize' = heapSize - 1
               /\ done' = DoneAfter(pos, h, heapSize - 1)
          /\ UNCHANGED pos
    /\ UNCHANGED <<currentKey, redPhase, reduced>>

(* The loop test !FinishedAll(), then Reduce(key(), &iterator).           *)
LoopTest ==
    /\ redPhase = "loop"
    /\ IF heapSize = 0
       THEN redPhase' = "done" /\ UNCHANGED reduced
       ELSE redPhase' = "user" /\ reduced' = reduced \cup {currentKey}
    /\ UNCHANGED <<mapVars, pos, heap, heapSize, currentKey, done, visited>>

(* The user's Reduce reads value() and calls Next() while !Done() ...      *)
UserNext == redPhase = "user" /\ ~done /\ IterNext /\ UNCHANGED mapVars

(* ... and may return at any point.                                       *)
UserReturn ==
    /\ redPhase = "user" /\ redPhase' = "discard"
    /\ UNCHANGED <<mapVars, pos, heap, heapSize, currentKey, done, reduced, visited>>

(* NextKey: DiscardRestValues calls Next until Done() ...                  *)
Discard == redPhase = "discard" /\ ~done /\ IterNext /\ UNCHANGED mapVars

(* Faulty variant: done_ is not cleared.                                   *)
NextKeyNoReset ==
    /\ redPhase = "discard" /\ done
    /\ currentKey' = TopKey(pos, heap[1])
    /\ redPhase' = "loop"
    /\ UNCHANGED <<mapVars, pos, heap, heapSize, done, reduced, visited>>

(* ... then current_key_ = files_[0]->top_key and done_ = false.          *)
NextKey ==
    /\ redPhase = "discard" /\ done
    /\ currentKey' = TopKey(pos, heap[1])
    /\ done' = FALSE
    /\ redPhase' = "loop"
    /\ UNCHANGED <<mapVars, pos, heap, heapSize, reduced, visited>>

Init ==
    /\ MapInit
    /\ pos = <<>> /\ heap = <<>> /\ heapSize = 0
    /\ currentKey = <<>> /\ done = FALSE
    /\ redPhase = "wait" /\ reduced = {} /\ visited = <<>>

ReduceStep == Initialize \/ LoopTest \/ UserNext \/ UserReturn \/ Discard \/ NextKey

(* Both workers have exited, or the map worker died and the reducer waits *)
(* for files that never come.                                             *)
Stopped ==
    /\ mapPhase = "fatal" \/ redPhase \in {"done", "crashed"}
    /\ UNCHANGED vars

Next ==
    \/ MapNext /\ UNCHANGED iterVars
    \/ ReduceStep
    \/ Stopped

Spec == Init /\ [][Next]_vars /\ WF_vars(Close /\ UNCHANGED iterVars) /\ WF_vars(ReduceStep)

-----------------------------------------------------------------------------
IterTypeOK ==
    /\ MapTypeOK
    /\ redPhase \in {"wait", "loop", "user", "discard", "done", "crashed"}
    /\ heapSize \in 0..Len(heap)
    /\ \A f \in DOMAIN pos : pos[f].g \in 1..Len(runs[f]) /\ pos[f].rest \in Nat
    /\ done \in BOOLEAN
    /\ reduced \subseteq Keys /\ visited \in Seq(Pair)

(* Reduce is called once per key, in ascending key order: each call's key *)
(* is greater than every key Reduce was called with before, so the heap   *)
(* merge never offers a key twice or a smaller key after a larger one.    *)
ReduceKeysAscending ==
    [][redPhase = "loop" /\ redPhase' = "user" =>
         \A k \in reduced : StringLess(k, currentKey)]_vars

(* Every value the iterator moves past is a value inserted under the key   *)
(* key() reports, and when the loop ends the values moved past are exactly *)
(* the pairs the mapper inserted, and Reduce saw every key.                *)
VisitedComplete ==
    /\ SX!ToBag(visited) \sqsubseteq SX!ToBag(inputs)
    /\ redPhase = "done" =>
         /\ SX!ToBag(visited) = SX!ToBag(inputs)
         /\ reduced = { inputs[i].key : i \in DOMAIN inputs }

(* Once the map worker has closed its buffer, the reduce worker's loop    *)
(* ends: DiscardRestValues and NextKey always reach the next key.         *)
ReduceTerminates ==
    (mapPhase = "closed") ~> (redPhase \in {"done", "crashed"})
=============================================================================
