------------------------------ MODULE QueueOps ------------------------------
(* Operators on the contents of a SignalingQueue                          *)
(* (src/mapreduce_lite/signaling_queue.cc), shared by the abstract queue  *)
(* and by Transport, which keeps one queue per destination at a map      *)
(* worker and one inbound queue at a reduce worker.                       *)
EXTENDS Naturals, Sequences, FiniteSets

(* The bytes a sequence of messages occupies; a message is a record with  *)
(* a size field.                                                           *)
RECURSIVE UsedBytes(_)
UsedBytes(msgs) ==
    IF msgs = <<>> THEN 0 ELSE Head(msgs).size + UsedBytes(Tail(msgs))

(* free_size_ of a queue of capacity cap holding msgs.                    *)
FreeBytes(cap, msgs) == cap - UsedBytes(msgs)

(* finished_producers_.size() >= num_producers_                            *)
NoMoreAdd(finished, numProducers) == Cardinality(finished) >= numProducers

(* EmptyAndNoMoreAdd(): the queue is empty and every producer signaled.   *)
EmptyAndNoMoreAdd(msgs, finished, numProducers) ==
    msgs = <<>> /\ NoMoreAdd(finished, numProducers)

=============================================================================
