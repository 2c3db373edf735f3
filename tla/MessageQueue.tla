---------------------------- MODULE MessageQueue ----------------------------
(***************************************************************************)
(* What a SignalingQueue (src/mapreduce_lite/signaling_queue.h) promises,  *)
(* stated without its ring buffer, mutex or condition variables: a FIFO    *)
(* of messages whose total size in bytes never exceeds the capacity, and  *)
(* which is closed to production once NumProducers distinct producer ids  *)
(* have signaled.                                                          *)
(*                                                                         *)
(* SignalingQueue is shown to implement this specification.              *)
(***************************************************************************)
EXTENDS QueueOps

(***************************************************************************)
(* The abstract queue.                                                     *)
(***************************************************************************)
CONSTANTS
    Capacity,      \* queue_size_ in bytes
    Msgs,          \* the messages producers may add, records [id, size]
    ProducerIds,   \* the ids producers pass to Signal
    NumProducers   \* num_producers_

VARIABLES
    queue,         \* the messages in the queue, oldest first
    signaled       \* the ids that have called Signal

absVars == <<queue, signaled>>

AbsInit ==
    /\ queue = <<>>
    /\ signaled = {}

(* A message enters only while the queue is open and it fits.             *)
AbsAdd ==
    \E m \in Msgs :
        /\ ~NoMoreAdd(signaled, NumProducers)
        /\ m.size <= FreeBytes(Capacity, queue)
        /\ queue' = Append(queue, m)
        /\ UNCHANGED signaled

(* Only the oldest message leaves (returned or, for a too small           *)
(* destination buffer, discarded).                                         *)
AbsRemove ==
    /\ queue # <<>>
    /\ queue' = Tail(queue)
    /\ UNCHANGED signaled

AbsSignal ==
    \E p \in ProducerIds :
        /\ signaled' = signaled \cup {p}
        /\ UNCHANGED queue

AbsNext == AbsAdd \/ AbsRemove \/ AbsSignal

AbsSpec == AbsInit /\ [][AbsNext]_absVars
=============================================================================
