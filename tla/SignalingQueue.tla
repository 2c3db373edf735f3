--------------------------- MODULE SignalingQueue ---------------------------
(***************************************************************************)
(* SignalingQueue (src/mapreduce_lite/signaling_queue.cc): a circular byte *)
(* buffer shared by producer and consumer threads.  Every public method    *)
(* runs under one mutex, so each step below is one critical section; a    *)
(* thread that waits on cond_not_full_ or cond_not_empty_ releases the    *)
(* mutex and later, once signaled (or spuriously woken), runs the rest of *)
(* its while loop in a step of its own.                                    *)
(*                                                                         *)
(* Data is abstracted to message identities: byte k of message m is the   *)
(* record [msg |-> m.id, off |-> k], so that what Remove copies out of the *)
(* ring can be compared with what Add copied in.                           *)
(***************************************************************************)
EXTENDS Naturals, Sequences, FiniteSets

CONSTANTS
    Producers,     \* producer threads; each signals with its own id
    Consumers,     \* consumer threads
    QueueSize,     \* queue_size_ in bytes
    NumProducers,  \* num_producers_
    Sizes,         \* sizes producers pass to Add (may be invalid)
    DestSizes,     \* max_size of the consumers' destination buffers
    MaxCalls,      \* bound on the Add calls of each producer
    Lost           \* what the history records for a Remove that returned -1

ASSUME /\ QueueSize \in Nat \ {0}
       /\ NumProducers \in Nat \ {0}
       /\ MaxCalls \in Nat
       /\ Producers \cap Consumers = {}

VARIABLES
    ring,        \* queue_: the byte at each offset of the buffer
    freeSize,    \* free_size_
    writePtr,    \* write_pointer_
    positions,   \* message_positions_: <<start, length>>, oldest first
    finished,    \* finished_producers_
    pc,          \* where each thread is (see Init)
    pending,     \* producer -> the message its blocked Add will write
    calls,       \* producer -> Add calls made so far
    dest,        \* consumer -> max_size of its blocked Remove
    addedLog,    \* history: the messages written, in order
    removedLog   \* history: the bytes each Remove returned, or Lost

vars == <<ring, freeSize, writePtr, positions, finished, pc, pending, calls,
          dest, addedLog, removedLog>>

Offsets == 0 .. QueueSize - 1
Threads == Producers \cup Consumers
Byte(id, k) == [msg |-> id, off |-> k]
ZeroByte == Byte(<<>>, 0)                   \* a byte of the memset buffer
Payload(m) == [k \in 1 .. m.size |-> Byte(m.id, k - 1)]
ValidSizes == {s \in Sizes : 0 < s /\ s <= QueueSize}
AllMsgs == [id : Producers \X (1 .. MaxCalls), size : ValidSizes]

AllSignaled == Cardinality(finished) >= NumProducers

Init ==
    /\ ring = [i \in Offsets |-> ZeroByte]   \* memset(queue_, '\0', ...)
    /\ freeSize = QueueSize
    /\ writePtr = 0
    /\ positions = <<>>
    /\ finished = {}
    /\ pc = [t \in Threads |-> "idle"]
    /\ pending = [p \in Producers |-> [id |-> <<p, 0>>, size |-> 0]]
    /\ calls = [p \in Producers |-> 0]
    /\ dest = [c \in Consumers |-> QueueSize]
    /\ addedLog = <<>>
    /\ removedLog = <<>>

(* Condition variable Signal(): one waiting thread (if any) becomes       *)
(* runnable.  The result is the set of possible pc functions.             *)
WakeOne(pcv, waiting, woken) ==
    LET W == {t \in Threads : pcv[t] = waiting}
    IN IF W = {} THEN {pcv}
       ELSE {[pcv EXCEPT ![t] = woken] : t \in W}

(* The copy into the ring and the update of write_pointer_, with the two  *)
(* branches of Add (whole message fits before the end, or it wraps).      *)
RingAfterWrite(m) ==
    LET s == m.size
        bytes == Payload(m)
        part == QueueSize - writePtr
    IN IF writePtr + s <= QueueSize
       THEN [i \in Offsets |-> IF writePtr <= i /\ i < writePtr + s
                               THEN bytes[i - writePtr + 1] ELSE ring[i]]
       ELSE [i \in Offsets |-> IF i >= writePtr THEN bytes[i - writePtr + 1]
                               ELSE IF i < s - part THEN bytes[part + i + 1]
                               ELSE ring[i]]

WritePtrAfterWrite(m) ==
    IF writePtr + m.size <= QueueSize
    THEN IF writePtr + m.size = QueueSize THEN 0 ELSE writePtr + m.size
    ELSE m.size - (QueueSize - writePtr)

(* The tail of Add once the message fits: record its position, take the   *)
(* space, copy, and signal cond_not_empty_.  The caller sets pc[p] idle.  *)
WriteMessage(p, m) ==
    /\ positions' = Append(positions, <<writePtr, m.size>>)
    /\ freeSize' = freeSize - m.size
    /\ ring' = RingAfterWrite(m)
    /\ writePtr' = WritePtrAfterWrite(m)
    /\ addedLog' = Append(addedLog, m)
    /\ pc' \in WakeOne([pc EXCEPT ![p] = "idle"], "waitEmpty", "wokeEmpty")

(* Faulty variant: the wrapped part is read one byte too far on.        *)
ContentsWrapOffByOne(pos) ==
    LET start == pos[1]
        len == pos[2]
        part == QueueSize - start
    IN IF start + len <= QueueSize
       THEN [k \in 1 .. len |-> ring[start + k - 1]]
       ELSE [k \in 1 .. len |-> IF k <= part THEN ring[start + k - 1]
                                ELSE ring[k - part]]

(* The bytes of the live message at pos, read the way Remove reads them.  *)
Contents(pos) ==
    LET start == pos[1]
        len == pos[2]
        part == QueueSize - start
    IN IF start + len <= QueueSize
       THEN [k \in 1 .. len |-> ring[start + k - 1]]
       ELSE [k \in 1 .. len |-> IF k <= part THEN ring[start + k - 1]
                                ELSE ring[k - part - 1]]

(* Faulty variant: free_size_ is given back one byte too much.          *)
ReadMessageFreeTooMuch(c, maxSize) ==
    LET pos == Head(positions)
    IN /\ removedLog' = Append(removedLog,
                               IF pos[2] > maxSize THEN Lost ELSE Contents(pos))
       /\ freeSize' = freeSize + pos[2] + 1
       /\ positions' = Tail(positions)
       /\ pc' \in WakeOne([pc EXCEPT ![c] = "idle"], "waitFull", "wokeFull")
       /\ UNCHANGED <<ring, writePtr, finished, pending, calls, dest, addedLog>>

(* The tail of Remove once a message is present: copy it out (or return  *)
(* -1 when it exceeds max_size, dropping it all the same), free its      *)
(* space, pop it, and signal cond_not_full_.                              *)
ReadMessage(c, maxSize) ==
    LET pos == Head(positions)
    IN /\ removedLog' = Append(removedLog,
                               IF pos[2] > maxSize THEN Lost ELSE Contents(pos))
       /\ freeSize' = freeSize + pos[2]
       /\ positions' = Tail(positions)
       /\ pc' \in WakeOne([pc EXCEPT ![c] = "idle"], "waitFull", "wokeFull")
       /\ UNCHANGED <<ring, writePtr, finished, pending, calls, dest, addedLog>>

-----------------------------------------------------------------------------
(* Add with a size it rejects before taking the lock: larger than the     *)
(* queue, or not positive.                                                 *)
AddInvalid(p, s) ==
    /\ pc[p] = "idle"
    /\ p \notin finished
    /\ calls[p] < MaxCalls
    /\ s > QueueSize \/ s <= 0
    /\ calls' = [calls EXCEPT ![p] = @ + 1]
    /\ UNCHANGED <<ring, freeSize, writePtr, positions, finished, pc, pending,
                   dest, addedLog, removedLog>>

(* Add(src, size, is_blocking) with a valid size, up to its first wait.   *)
(* A producer adds nothing after its own Signal (the contract stated in   *)
(* signaling_queue.h, kept by both users in socket_communicator.cc), so  *)
(* with NumProducers distinct producers the "closed, return -1" branch    *)
(* cannot be taken and is left out.                                       *)
AddCall(p, s, blocking) ==
    LET m == [id |-> <<p, calls[p] + 1>>, size |-> s]
    IN
    /\ pc[p] = "idle"
    /\ p \notin finished
    /\ calls[p] < MaxCalls
    /\ 0 < s /\ s <= QueueSize
    /\ calls' = [calls EXCEPT ![p] = @ + 1]
    /\ \/ /\ s > freeSize
          /\ ~blocking                            \* return 0
          /\ UNCHANGED <<ring, freeSize, writePtr, positions, finished, pc,
                         pending, dest, addedLog, removedLog>>
       \/ /\ s > freeSize
          /\ blocking                             \* cond_not_full_.Wait
          /\ pc' = [pc EXCEPT ![p] = "waitFull"]
          /\ pending' = [pending EXCEPT ![p] = m]
          /\ UNCHANGED <<ring, freeSize, writePtr, positions, finished, dest,
                         addedLog, removedLog>>
       \/ /\ s <= freeSize
          /\ WriteMessage(p, m)
          /\ UNCHANGED <<finished, pending, dest, removedLog>>

(* Faulty variant: a woken producer writes without re-testing (an if    *)
(* where the code has a while).                                           *)
AddRetryNoRecheck(p) ==
    /\ pc[p] = "wokeFull"
    /\ WriteMessage(p, pending[p])
    /\ UNCHANGED <<finished, pending, calls, dest, removedLog>>

(* A producer woken on cond_not_full_ re-tests while (size > free_size_). *)
AddRetry(p) ==
    /\ pc[p] = "wokeFull"
    /\ \/ /\ pending[p].size > freeSize
          /\ pc' = [pc EXCEPT ![p] = "waitFull"]
          /\ UNCHANGED <<ring, freeSize, writePtr, positions, finished,
                         pending, calls, dest, addedLog, removedLog>>
       \/ /\ pending[p].size <= freeSize
          /\ WriteMessage(p, pending[p])
          /\ UNCHANGED <<finished, pending, calls, dest, removedLog>>

(* Faulty variant: the last Signal does not broadcast.                    *)
SignalNoBroadcast(p) ==
    /\ pc[p] = "idle"
    /\ finished' = finished \cup {p}
    /\ UNCHANGED <<ring, freeSize, writePtr, positions, pc, pending, calls,
                   dest, addedLog, removedLog>>

(* Signal(producer_id); the last one broadcasts on cond_not_empty_.       *)
Signal(p) ==
    /\ pc[p] = "idle"
    /\ finished' = finished \cup {p}
    /\ pc' = IF Cardinality(finished') >= NumProducers
             THEN [t \in Threads |-> IF pc[t] = "waitEmpty" THEN "wokeEmpty"
                                     ELSE pc[t]]
             ELSE pc
    /\ UNCHANGED <<ring, freeSize, writePtr, positions, pending, calls, dest,
                   addedLog, removedLog>>

(* Remove(dest, max_size, is_blocking), up to its first wait.  A consumer *)
(* that gets 0 stops once EmptyAndNoMoreAdd() holds, as Connector::Send    *)
(* and ReduceWork do; an empty closed queue stays so, which makes the     *)
(* check's separate lock acquisition immaterial.                          *)
RemoveCall(c, blocking, maxSize) ==
    /\ pc[c] = "idle"
    /\ \/ /\ positions = <<>>
          /\ ~blocking \/ AllSignaled             \* return 0
          /\ pc' = [pc EXCEPT ![c] = IF AllSignaled THEN "done" ELSE "idle"]
          /\ UNCHANGED <<ring, freeSize, writePtr, positions, finished,
                         pending, calls, dest, addedLog, removedLog>>
       \/ /\ positions = <<>>
          /\ blocking /\ ~AllSignaled             \* cond_not_empty_.Wait
          /\ pc' = [pc EXCEPT ![c] = "waitEmpty"]
          /\ dest' = [dest EXCEPT ![c] = maxSize]
          /\ UNCHANGED <<ring, freeSize, writePtr, positions, finished,
                         pending, calls, addedLog, removedLog>>
       \/ /\ positions # <<>>
          /\ ReadMessage(c, maxSize)

(* A consumer woken on cond_not_empty_ re-tests its while loop.           *)
RemoveRetry(c) ==
    /\ pc[c] = "wokeEmpty"
    /\ \/ /\ positions = <<>>
          /\ pc' = [pc EXCEPT ![c] = IF AllSignaled THEN "done" ELSE "waitEmpty"]
          /\ UNCHANGED <<ring, freeSize, writePtr, positions, finished,
                         pending, calls, dest, addedLog, removedLog>>
       \/ /\ positions # <<>>
          /\ ReadMessage(c, dest[c])

(* pthread_cond_wait may return without a signal.                         *)
SpuriousWakeup(t) ==
    /\ pc[t] \in {"waitFull", "waitEmpty"}
    /\ pc' = [pc EXCEPT ![t] = IF pc[t] = "waitFull" THEN "wokeFull"
                                ELSE "wokeEmpty"]
    /\ UNCHANGED <<ring, freeSize, writePtr, positions, finished, pending,
                   calls, dest, addedLog, removedLog>>

ProducerStep(p) ==
    \/ \E s \in Sizes : AddInvalid(p, s)
    \/ \E s \in Sizes, b \in BOOLEAN : AddCall(p, s, b)
    \/ AddRetry(p)
    \/ Signal(p)

ConsumerStep(c) ==
    \/ \E b \in BOOLEAN, d \in DestSizes : RemoveCall(c, b, d)
    \/ RemoveRetry(c)

Next ==
    \/ \E p \in Producers : ProducerStep(p)
    \/ \E c \in Consumers : ConsumerStep(c)
    \/ \E t \in Threads : SpuriousWakeup(t)

(* Threads are scheduled by the OS: a runnable thread eventually gets the *)
(* mutex, consumers keep calling Remove until the queue is closed, and    *)
(* every producer eventually signals (its worker reaches Finalize).       *)
Fairness ==
    /\ \A c \in Consumers : WF_vars(ConsumerStep(c))
    /\ \A p \in Producers : WF_vars(AddRetry(p)) /\ WF_vars(Signal(p))

Spec == Init /\ [][Next]_vars /\ Fairness

-----------------------------------------------------------------------------
TypeOK ==
    /\ ring \in [Offsets -> {ZeroByte} \cup [msg : Producers \X (1 .. MaxCalls),
                                      off : 0 .. QueueSize - 1]]
    /\ freeSize \in 0 .. QueueSize
    /\ writePtr \in 0 .. QueueSize - 1
    /\ positions \in Seq(Offsets \X (1 .. QueueSize))
    /\ finished \subseteq Producers
    /\ pc \in [Threads -> {"idle", "waitFull", "wokeFull", "waitEmpty",
                           "wokeEmpty", "done"}]
    /\ calls \in [Producers -> 0 .. MaxCalls]

(* FIFO integrity of the ring: the i-th Remove returns exactly the bytes *)
(* of the i-th message Add wrote (unless it returned -1), whatever the   *)
(* wrap-around of write_pointer_ and of the read position did.           *)
FifoIntegrity ==
    /\ Len(removedLog) <= Len(addedLog)
    /\ \A i \in 1 .. Len(removedLog) :
           removedLog[i] = Lost \/ removedLog[i] = Payload(addedLog[i])

(* The ring decoded back into messages: what the abstract queue holds.   *)
Decode(bytes) ==
    IF \E m \in AllMsgs : Payload(m) = bytes
    THEN CHOOSE m \in AllMsgs : Payload(m) = bytes
    ELSE [id |-> <<>>, size |-> Len(bytes)]    \* overwritten bytes

DecodedQueue == [i \in 1 .. Len(positions) |-> Decode(Contents(positions[i]))]

MQ == INSTANCE MessageQueue
        WITH Capacity <- QueueSize, Msgs <- AllMsgs, ProducerIds <- Producers,
             queue <- DecodedQueue, signaled <- finished

(* The ring buffer with its mutex and condition variables implements the *)
(* abstract bounded FIFO: no message is written while the queue is closed *)
(* or without room, none is overwritten, and only the oldest leaves.      *)
Refinement == MQ!AbsSpec

(* Every consumer's Remove loop ends: no thread is left waiting on a     *)
(* condition variable whose signal went to someone else.                 *)
ConsumersFinish == \A c \in Consumers : <>(pc[c] = "done")
=============================================================================
