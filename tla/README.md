# TLA+ models of mapreduce-lite

These modules model mapreduce-lite (`src/src/mapreduce_lite`, `src/src/sorted_buffer`):
- the signaling queue that couples user threads to I/O threads;
- the socket transport that carries map outputs from every map worker to every reduce worker;
- the batch-mode spill buffer and the heap merge that feeds the batch reducer;
- a worker's start-up: flag validation, `Initialize` and what the work phase relies on;
- the input readers, the `JSHash` sharding and a whole word-count job (`demo/wordcount.cc`) from input shards to output files.

The TLC configurations check the properties that the spec (`spec.md`), the code's comments and `socket_communicator_test.cc` state for them.

## The system

A job runs `M` map workers and `R` reduce workers, each a separate process.

- **Map worker.** The user thread calls `MapOutput` (`mapreduce_lite.cc`) for each output. That reaches `SocketCommunicator::Send`, a blocking `Add` on one of `R` outbound `SignalingQueue`s. At the end of `MapWork`, `Finalize` → `FinalizeSender` calls `Signal` on every outbound queue and joins the send-loop thread.
- **Send loop.** The send-loop thread (`SendLoop`) runs a libevent loop with one persistent, level-triggered write event per reducer. Each callback runs `Connector::Send`:
  - take the next message (a non-blocking `Remove`), prefix it with a 4-byte length and send it;
  - on an empty, closed queue, send the FINAL frame (length 0) and return 0.
  - The callback decrements a connection counter on 0. At zero the loop exits and the sockets are shut down for writing.
- **Reduce worker.** The receive-loop thread (`ReceiveLoop`) has one read event per mapper. `Connector::Receive` reads up to 4 KB and reassembles frames across reads. It `Add`s each complete payload to the inbound queue and returns 0 on the FINAL frame, which decrements the counter. At zero the loop closes the sockets and `Signal(0)`s the inbound queue.
- **Reduce user thread.** `ReduceWork` `Remove`s until `Remove` returns 0. Then `Finalize` → `FinalizeReceiver` joins the receive-loop thread.
- **`SignalingQueue`** (`signaling_queue.cc`) is a byte ring buffer under one mutex with two condition variables. `Add` waits while the message does not fit. `Remove` waits while the queue is empty and not every producer has signaled. The last `Signal` broadcasts.

## Modules

| Module | Models | Source |
|---|---|---|
| `QueueOps` | free space and closing tests of a queue's contents | `signaling_queue.cc` |
| `MessageQueue` | abstract bounded FIFO of messages: what a SignalingQueue promises | `signaling_queue.h` |
| `SignalingQueue` | the ring buffer, producer and consumer threads, condition variables | `signaling_queue.cc`, `condition_variable.cc` |
| `MCSignalingQueue` | constants for TLC | |
| `Transport` | outbound queues, send loops, byte streams, receive loops, inbound queue, user threads | `socket_communicator.cc`, `tcp_socket.cc`, `mapreduce_lite.cc` |
| `MCTransport` | constants for TLC | |
| `SortedBuffer` | batch-mode spill buffer: Insert, Flush, allocator, byte order of keys | `sorted_buffer.cc`, `memory_allocator.cc`, `memory_piece.cc` |
| `SortedBufferIterator` | heap merge over the run files and the batch reduce loop around it | `sorted_buffer_iterator.cc`, `mapreduce_lite.cc` (ReduceWork) |
| `MCSortedBufferIterator` | constants for TLC | |
| `RunFile` | the bytes of one run file: Flush's encoder and the iterator's LoadKey/LoadValue decoder | `sorted_buffer.cc`, `memory_piece.cc`, `varint32.cc`, `sorted_buffer_iterator.cc` |
| `MCRunFile` | piece sizes for TLC | |
| `Worker` | one worker process: flag validation, `Initialize`'s set-up steps, the work phase's resource use, `Finalize`; the class registries and their static registration | `flags.cc`, `mapreduce_lite.cc`, `mapreduce_main.cc`, `socket_communicator.cc` (Initialize), `class_register.h`, `mapreduce_lite.h`, `reader.h` |
| `MCWorker` | command lines for TLC | |
| `Readers` | `TextReader::Read` and `ProtoRecordReader::Read` as operators on a reader's state, and a reference definition of a file's lines | `reader.cc`, `protofile.cc` |
| `SimpleHash` | `JSHash` in 32-bit unsigned arithmetic, and `JSHash % n` | `simple_hash.cc` |
| `WordCount` | a whole word-count job: the communicator's connection set-up, MapWork's read/Map/Flush loop, both demo mappers, sharding, ReduceWork's incremental and batch loops with the demo reducers, text or protofile output | `demo/wordcount.cc`, `mapreduce_lite.cc`, `split_string.h`, `tcp_socket.cc`, `socket_communicator.cc`, `protofile.cc` |
| `MCWordCount` | shards and flags for TLC | |
| `Shuffle` | map outputs routed to reducers (`Output`, `OutputToShard`, `OutputToAllShards`, `MapOutput`) and the incremental reducer's partial-reduce table | `mapreduce_lite.cc` |
| `MCShuffle` | keys, values and sizes for TLC | |

### SignalingQueue

**State.** Each variable mirrors a member of the class:
- `ring` is `queue_`;
- `freeSize` is `free_size_`;
- `writePtr` is `write_pointer_`;
- `positions` is `message_positions_`;
- `finished` is `finished_producers_`.

Each thread has a program counter `pc`: idle, waiting on or woken from `cond_not_full_`/`cond_not_empty_`, or done. Byte `k` of a message is the record `[msg |-> id, off |-> k]`, so the bytes copied out can be compared with the bytes copied in.

**Actions.** Every public method runs under the mutex, so one step is one critical section up to a `Wait`.
- `AddInvalid` is the early size rejections.
- `AddCall` covers Add up to its first wait: non-blocking full returns 0, blocking full waits, otherwise it writes.
- `AddRetry` is the re-test after a wakeup.
- `Signal` records the producer and broadcasts on the last signal.
- `RemoveCall` covers Remove up to its first wait: empty returns 0, or it waits, or it reads, and a too-small destination returns -1 but still pops.
- `RemoveRetry` is Remove's re-test after a wakeup.
- `SpuriousWakeup` is `pthread_cond_wait` returning unsignaled.
- A condition-variable `Signal` wakes one waiter, chosen nondeterministically (`WakeOne`).

The closed-queue branch of `Add` is left out. The header's contract, which both users in the code keep, is that a producer adds nothing after its own `Signal`.

**Refinement.** `DecodedQueue` reads every live message back out of the ring. `SignalingQueue` implements `MessageQueue!AbsSpec` under the mapping `queue <- DecodedQueue`, `signaled <- finished`.

### Transport

**Frames.** Every byte is a record: a payload byte is `[msg |-> id, off |-> k]`, and a length byte is `[msg |-> <<>>, off |-> value]`. The length is encoded little-endian (`Header`) and reassembled by adding `value * 256^bytes_count_` (`ConsumeByte`).

**Blocking sockets.** `TCPSocket::SetBlocking(false)` clears `O_NONBLOCK`, so the sockets are blocking, not non-blocking as spec §Transport says:
- a `send` returns after all its bytes are in the socket buffer (`SendProgress`: several steps while the reducer reads);
- a `recv` on a readable socket returns 1..n of the n unread bytes (`RecvSizes`).

A socket polls writable with `SendLowat` bytes free and readable with unread bytes or at end of file.

**Event loops.**
- `SendPoll` / `ReceivePoll` start an iteration with the set of ready sockets.
- `SendCallback` / `ReceiveCallback` run one callback.
- `SendDone` / `CountFinal` apply the counter logic.
- `SendLoopExit` / `ReceiveLoopExit` run once `event_base_loopexit` was called and the iteration's callbacks are done.

**Receive parsing.** `ReceiveParse` runs the parse loop of `Connector::Receive` up to its next exit. That exit is a complete message, which is `Add`ed and blocks while the inbound queue is full, or the FINAL frame, or the end of the buffer. Parsing is done by the recursive `Parse`.

**User threads.**
- `MapSend` is `MapOutput` → `Send`, a blocking Add.
- `MapEnd` is the end of `MapWork`.
- `FinalizeSignal` and `JoinSender` are `FinalizeSender`.
- `ReduceReceive` is `ReduceWork`'s Receive loop; when `Receive` returns 0 the user thread moves on to `Finalize`.
- `JoinReceiver` is `FinalizeReceiver`: it waits for the receive loop to have exited. `StreamComplete` is stated from the moment `Receive` returned 0, and `Termination` requires the join to have returned.

**SIGPIPE.** Writing to a reducer that closed may be accepted once (the reset is not back yet) or may raise SIGPIPE. SIGPIPE is not ignored anywhere, so it kills the map worker, and the kernel closes its sockets (`Killed`).

### SortedBuffer

**State.**
- `allocated` is `allocated_size_`;
- `kvList` is `key_value_list_`;
- `runs` is the sequence of run files, so `count_files_` is `Len(runs)`;
- `inputs` is a history of every inserted pair.

Keys and values are byte strings, so the unsigned, prefix-first order of `MemoryPieceLessThan` and the bytes the allocator charges (4-byte size prefix per piece) are real. A run file is its sequence of groups `[key, values]`; the varint and length encoding of the file is left out.

**Actions.**
- `Insert(k, v)` is all of `SortedBuffer::Insert`: the `Have` test, the `Flush` when the pair does not fit, the `LOG(FATAL)` when it still does not fit, and the two `Allocate`s with their `CHECK`s.
- `Close` is the destructor's `Flush`, run when `MapWork` deletes the buffers.
- A `Flush` picks any order `std::sort` may leave (`SortedOrders`: sorted by key, equal keys in any order, since the sort is not stable), groups it with the loop of `Flush` (`Groups`), appends the run, clears the list and resets the allocator. An empty pool writes nothing.

### SortedBufferIterator

**State.**
- `pos[f]` is file `f`'s reader: its current group and `num_rest_values`. `top_key` and `top_value` follow from it.
- `heap` is `files_`, and `heapSize` is `heap_size_`.
- `currentKey` and `done` are `current_key_` and `done_`.
- `redPhase` is where the reduce worker's batch loop is.
- `reduced` and `visited` are histories: the keys given to `Reduce`, and every `[key(), value()]` that `Next` moved past.

**Actions.**
- `Initialize` runs once the map side is closed.
- `IterNext` is `Next` with its three branches (LoadValue; LoadKey + LoadValue + `SiftDown`; `pop_heap`) and the one `done_` test after them (`DoneAfter`).
- `SiftFrom` translates `SiftDown`'s loop.
- `make_heap` and `pop_heap` are library code whose exact arrangement is unspecified. Any heap-ordered arrangement is allowed, so what holds here holds for the library's choice.
- `LoopTest` is the `!FinishedAll()` test and the call of `Reduce`.
- `UserNext` and `UserReturn` are the user's `Reduce`, which reads values while `!Done()` and may return at any point.
- `Discard` and `NextKey` are `NextKey` with its `DiscardRestValues` loop.

`compare_` is declared in `sorted_buffer_iterator.h`, which is not in the repository. It is modelled from spec §4.4 as a min-heap on `top_key` under `std::string` order (`StringLess`).

### RunFile

**State.**
- `groups` is what `Flush` is given, and `file` is what it writes.
- A file is a sequence of items. An item is either one varint byte `[b]` or the data of a piece `[id, size]`, which stands for `size` bytes that `fwrite` and `fread` copy verbatim.
- `cursor` and `eof` are the `FILE*`'s position and `feof` flag. `rest` is `num_rest_values`. `read` is the groups loaded so far.

**Actions.**
- `Flush` writes every group with `WriteGroup`: `WriteMemoryPiece(key)`, `WriteVarint32(n)`, then `WriteMemoryPiece` of each value.
- `LoadKey` and `LoadValue` are the iterator's methods. They call `ReadMemoryPiece`, which reads a varint size, FATALs at `kMaxBufferSize` (32 MB) or more, and then `fread`s the data.
- `ReadVarint32` translates the unrolled decoder byte by byte: the `feof` test on entry, `getc`'s EOF as `(uint32)-1`, the fifth byte shifted by 28, and the ten-byte limit.
- `EncodeVarint32` is protobuf's `WriteVarint32ToArray`. That is library code, so it is modelled from the canonical encoding that spec §6 describes.

### Worker

**State.**
- `f` is the command line: a record with one field per flag. `numReduce` is the length of `mr_reduce_workers`, `numOutputFiles` that of `mr_output_files`, and `spillExists` says whether an earlier job's spill file is on disk.
- `phase` is where `main` is. `exit` is `return -1` after `Initialize` returned false; `abort` is a CHECK failure or `LOG(FATAL)`.
- `step` is the next block of `Initialize`; `created` and `used` are the resources set up and touched.

**Actions.**
- `Validate` is `ValidateCommandLineFlags`. `FlagErrors` is the disjunction of its checks. `ValidationCrashes` is its call of `MapOutputBufferFilebase(0)`, which CHECKs that there is a reduce worker.
- `InitLogger` … `InitSpillBuffers` are the blocks of `Initialize`, in order. Each one applies to a role and mode, and then aborts, returns false or creates its resource (`InitStep`).
- Sizes are computed as the build computes them: `WrapMB` is `n * 1024 * 1024` in 32-bit `int`, and `WrapPlus8` adds `2 * sizeof(uint32)` and converts back to `int`.
- `MapWork`, `ReduceWork` and `Finalize` are reduced to the CHECKs they hit and the resources they touch. Their data flow is in `Transport`, `SortedBuffer` and `SortedBufferIterator`.
- `DefaultFlags` holds every flag's default from `flags.cc`. `CreateMapper` and `CreateReducer` look the class name up with `CreateObject`, the class registry's lookup (the registered creator, else the default creator, else NULL; the repository registers no default). The registries are built as the program's static initialisers build them: `RegisterAll` adds one `AddCreator` per `REGISTER_MAPPER`/`REGISTER_*_REDUCER`/`REGISTER_READER` use to an `EmptyRegistry`, and `RegisterClasses` is the macros' `#name` stringification. `CreateReducer` picks the batch or the incremental registry by `mr_batch_reduction`, so a class registered in the other one is a NULL reducer and `Initialize` returns false. The reader is looked up the same way in `MapWork`.
- Network set-up, fopen and allocations of a valid size are assumed to succeed, except that one `fopen` may fail (a clean `return false`). So every abort in this model comes from the flags.

## Runs

| Run | Config | Expect | Shows |
|---|---|---|---|
| `signaling_queue` | `MCSignalingQueue.cfg` | pass | `TypeOK`, `FifoIntegrity`, `Refinement`, `ConsumersFinish` |
| `transport_1x1` | `MCTransport_1x1.cfg` | pass | `TypeOK`, `PerPairFIFO`, `StreamComplete`, `SenderDrained`, `Termination` |
| `transport_2x2` | `MCTransport_2x2.cfg` | violation | `SenderDrained` |
| `transport_eos_2x2` | `MCTransport_2x2_StreamComplete.cfg` | violation | `StreamComplete` |
| `sorted_buffer_iterator` | `MCSortedBufferIterator.cfg` | pass | `IterTypeOK`, `RunsSorted`, `RunsComplete`, `SpillOnlyWhenFull`, `ReduceKeysAscending`, `VisitedComplete`, `ReduceTerminates` |
| `run_file` | `MCRunFile.cfg` | pass | `RoundTrip` |
| `run_file_max_output` | `MCRunFile_MaxOutput.cfg` | violation | `RoundTrip` |
| `worker` | `MCWorker.cfg` | pass | `ResourcesBeforeUse` |
| `worker_config_abort` | `MCWorker_NoConfigAbort.cfg` | violation | `NoConfigAbort` |
| `shuffle` | `MCShuffle.cfg` | pass | `RoutedAsAsked`, `ReduceComplete` |
| `wordcount` | `MCWordCount.cfg` | pass | `JobOutputCorrect` |
| `wordcount_job` | `MCWordCount_Job.cfg` | violation | `JobOutputCorrect` |

`Worker.MapWork` also aborts for `protofile` input (`ReaderAbortsAtEnd`), for the reason `wordcount_job` shows.

### Readers

`Readers` has no variables: each `Read` is an operator from a reader's state to the outcome of the call, and `WordCount` keeps one reader's state per map worker. Bytes are ints 0..255.
- `TextRead(t, p, long, n)` is one `TextReader::Read` at stream position `p` (`ftell` + 1), with `reading_a_long_line_ = long` and buffer size `n` (`mr_max_input_line_length`). `FgetsLength` is what `fgets` reads: up to `n - 1` bytes, through the first newline. A chunk with no newline sets `long` and gives an empty value. The chunk that ends a long line is skipped too. Otherwise the newline and a CR before it are stripped (`StripLine`). The key is the offset before `fgets`.
- `ProtoRead(t, p)` is `ProtoRecordReader::Read`, that is `ReadRecord`: it reads the next record's key and value, and at end of file the `CHECK_EQ` on `fread` fires.
- A protofile record is a `[key, value]` pair of byte strings, as `WriteRecord` writes it; `ProtoRead` returns both. The size prefix and protobuf encoding are left out.
- The reference is `TextLines`, the lines of a file with their offsets (a last line needs no newline), and `ExpectedValues`, the values `Map` should see: every line whose content, CR included, leaves room for the newline and the NUL, or every record.

### SimpleHash

`JSHash` (`simple_hash.cc:57-64`) as the build computes it. TLC's integers are 32-bit signed, so the unsigned hash is a pair of 16-bit halves, and `JSStep` does `hash ^= (hash << 5) + str[i] + (hash >> 2)` modulo 2^32 on the halves (`^^` is Bitwise's XOR). `char` is signed, so a byte of 128 or more is sign-extended before the addition (`CharValue`). `JSHashMod(s, n)` is the unsigned `JSHash(s) % n` that `Mapper::Shard` computes. `Shuffle` and `WordCount` route by it.

### WordCount

**State.**
- `format`, `outFormat`, `maxLen`, `mapperClass`, `mode`: the flags `mr_input_format`, `mr_output_format`, `mr_max_input_line_length`, `mr_mapper_class` and `mr_batch_reduction`.
- `launch`: the order the external launcher starts the processes in, `reducers_first` (as `socket_communicator_test` does, with sleeps) or `any`.
- `connected[m]`: how many reducers mapper m has connected to (InitSender connects in index order); `accepted[r]`: how many connections reducer r has accepted.
- Per map worker: `input` (the files its `mr_input_filepattern` matched, in glob order, each a byte or record sequence), `file` (the loop's `i_file`, one-based), `pos` and `long` (the current reader's state), `combined` (`WordCountMapperWithCombiner::combined_results`) and `mphase` (`init`, `map`, `done`, `abort`).
- `sent[m][r]`: the pairs mapper m output for reducer r, in order; `recvd[r][m]` how many of them r has taken.
- Per reduce worker: `table` (`partial_reduce_results`, key to the int the demo's partial result points to), `rphase` and `out`, the lines written to output file 0. Header and footer lines are marked as banners.

**Actions.**
- In incremental mode the workers first run the communicator's set-up (batch mode opens no sockets; its reducers start once the mappers are done). `ReduceListen(r)` is InitReceiver's `Bind` and `Listen(1024)`. `ReduceAccept(r)` is one `Accept` of its loop over `num_sender_`: it blocks until a connection is in the listen backlog (`Backlog`: the mappers whose `Connect` to r completed, less those accepted). `MapConnect(m)` is InitSender's next `Connect`, to the reducers in index order: it succeeds while that reducer listens (the kernel completes it from the backlog) and otherwise the `CHECK` aborts the mapper; there is no retry.
- `MapRead(m)` is one turn of `MapWork`'s loops. If the pattern matched no file (`NoError` is false: glob returns `GLOB_NOMATCH`), the worker dies at the `LOG(FATAL)`. Otherwise it does a `Read`; on a record, `Map`; when `Read` returns false, `Flush`, then `OpenReader` for the next matched file (a new `TextReader` per file, so `reading_a_long_line_` starts false), or return after the last one. `ReadRecord`'s CHECK aborts.
- `Map` is `WordCountMapper::Map` (`Output(word, "1")` per word of `SplitStringUsing(value, " ")`) or the combiner's `++combined_results[word]`. `Flush` is the combiner's `Flush`: every count, in key order, formatted by `ostringstream` (`Decimal`), then `clear()`.
- `Emit` is `Mapper::Output`: each pair goes to `JSHashMod(key, R)`. Transport and spill are taken as lossless and per-pair FIFO, which `Transport`, `SortedBuffer` and `SortedBufferIterator` check.
- `ReduceStart` is `GetReducer()->Start()`. `ReduceReceive(r, m)` is one turn of the incremental loop: `BeginReduce` (parse an int) for a new key, else `PartialReduce` (parse and add). `ReduceEnd` is the `EndReduce` loop in `std::map` order, writing `"key count"`, then the reducer's `Flush` footer.
- `BatchReduce` is the batch branch: the iterator gives each key once in order with all its values, and `WordCountBatchReducer::Reduce` writes `"key sum"`. A reducer no pair was sent to has no spill file, and the iterator over zero files crashes.
- `ReduceOutput` writes output file 0: in text format `WriteText`, the value and a newline (the key is dropped); in protofile format `WriteRecord`, one `[key, value]` record. `Line` is `ReducerBase::Output`.
- `Stopped` is the end of the job: every worker has returned or died, or reducers wait forever (in `Accept` or for a batch start) because a map worker died.

### Shuffle

**State.**
- `mode` is the job's mode: `incremental`, `batch` or `maponly` (`mr_batch_reduction`, `mr_map_only`).
- `mphase[m]` is where mapper m is: `map`, `done` or `fatal`.
- `emitted` records the user's output calls. `count[m]` is `g_count_map_output`.
- `sent[m][r]` is what mapper m handed for reducer r: to the communicator in incremental mode, or to r's SortedBuffer in batch mode. `written[m]` is output file 0 in map-only mode.
- `recvd[r]`, `table[r]` and `out[r]` are reducer r's received messages, its `partial_reduce_results` (key to values reduced so far), and its `EndReduce` calls.

**Actions.**
- `Output`, `OutputToShard` and `OutputToAllShards` are the `Mapper` methods. Each runs `MapOutput`, which checks the shard and the size, then hands the pair to one reducer, or to all of them for a negative id.
- `MapOutput` is fatal when the shard is too large, when the pair exceeds `mr_max_map_output_size`, when the message is larger than the queue (`Send` fails), or when an empty pool cannot hold the pair (`Insert` fails).
- `ReduceReceive(r, m)` is one turn of the incremental loop: the next message from m, then `BeginReduce` or `PartialReduce`. `ReduceEnd` is `Receive` returning 0, then the `EndReduce` loop in `std::map` order.
- The transport between them is assumed correct: per-pair FIFO, and end of stream once every mapper has ended. `Transport` checks that, and finds where it fails.
- Keys are routed by the real `JSHash` (`SimpleHash`).

**Properties.**
- `FifoIntegrity`: the i-th Remove returns exactly the bytes of the i-th message written, or -1.
- `Refinement`: the ring implements the abstract bounded FIFO that is closed after the last Signal.
- `ConsumersFinish`: every consumer's loop ends, so no wakeup is lost.
- `PerPairFIFO`: what a reducer returns from mapper m is an intact, in-order prefix of what m sent it.
- `StreamComplete`: Receive returns 0 only after every mapper declared end of stream and everything sent was returned.
- `SenderDrained`: the send loop exits only with every outbound queue closed, empty and sent.
- `Termination`: every worker finishes.
- `RunsSorted`: every run file has strictly increasing keys, in the `std::string` order the merge uses, and no empty group.
- `RunsComplete`: the run files plus the list in memory hold exactly the inserted pairs, as multisets.
- `SpillOnlyWhenFull`: every run file fits in the pool, and a `Flush` happens only because the next pair would not fit beside the run's pairs (their bytes plus the 4-byte prefixes). The inserted pairs are in order, so the pair after run r's pairs is the one whose `Insert` flushed it. An off-by-one in `Have` (a pair that fills the pool exactly is refused) spills early, and only a sequence of inserts that meets the pool's edge exactly shows it.
- `ReduceKeysAscending` (action property): each key given to `Reduce` is greater than all earlier ones.
- `VisitedComplete`: every value moved past belongs to the key reported with it. When the loop ends, the values moved past are exactly the inserted pairs, and `Reduce` saw every key.
- `ReduceTerminates`: once the map side closed, the batch reduce loop ends, whatever prefix of the values the user's `Reduce` reads.

- `RoundTrip`: a run file reads back exactly as it was written. The reader never loses its place or dies, and at end of file it has every group with its key and values, in order.
- `ResourcesBeforeUse`: for every role (map, map-only, reduce) and mode (batch, incremental), the work phase and `Finalize` touch only what `Initialize` created.
- `JobOutputCorrect`: a word-count job computes word counts. No worker dies, and when all have finished, the count lines of each reducer's output are `"word count"` for exactly the words hashed to it, in ascending key order, each counted over every line of every shard, lines too long for the buffer excepted. The reference (`Occurrences`, `ExpectedOut`, `OutputEntry`) is written from the spec's seed scenarios and its output formats (text: value and newline; protofile: a record of key and value), independently of the reader, the splitter and `ReduceOutput`.
- `RoutedAsAsked`: each reducer is handed, in call order, exactly one copy of every pair of a returned call meant for it. The spec's routing decides what a call is meant for. In map-only mode, output file 0 holds exactly the `Output` pairs.
- `ReduceComplete`: an incremental reducer calls `EndReduce` once per key it was sent, with every value sent under that key, in arrival order. It also checks that the keys come in ascending order, but that clause holds by construction: the model takes them from an ordered map, as the code's `std::map` does.
- `NoConfigAbort`: a command line either fails validation (exit -1) or the worker runs to the end; no accepted flag value makes a later CHECK fire.

**Findings.** The transport violation runs `transport_eos_2x2` and `transport_2x2` find real bugs in `socket_communicator.cc`. A finished connector's socket stays ready under level-triggered `EV_PERSIST`, and the connector keeps returning 0:
- `Connector::Receive` returns 0 at once (line 391);
- `Connector::Send` calls `SendFinal` again (line 354).

So the same connection is counted again. With two workers on each side:
- a reducer ends its stream before the other mapper has finished, so data is lost (`StreamComplete`);
- a mapper stops sending while another queue is not drained (`SenderDrained`, run `transport_2x2`). In TLC's trace mapper 1 has closed only its queue to reducer 0, sends FINAL to it twice, and its send loop exits with the queue to reducer 1 never closed.

With one reducer there is no other destination to lose, so `transport_1x1` checks `SenderDrained` as a pass.

The reducer that never gets a FINAL then spins on end of file.

`run_file_max_output` finds a mismatch between writer and reader. Under the default flags, `MapOutput` accepts a key and value of up to 32 MB in total, since `mr_max_map_output_size` is 32 MB and the check allows `+8`. The SortedBuffer's 256 MB pool holds such a pair, and `WriteMemoryPiece` writes it. But `ReadMemoryPiece` FATALs on any piece of 32 MB or more (`memory_piece.cc:72`), so the reduce worker dies on the file.

`worker_config_abort` finds six ways a command line ends in an abort rather than in Initialize's `return false`, which spec §7 asks for. TLC reports the shortest one, the validation crash. Setting `FlagSpace` in the cfg to one of the sets named below shows the others.
- `MCNoReducerFlags`: a batch map worker with no reduce workers. Validation has already flagged this, but then calls `MapOutputBufferFilebase(0)`, which CHECKs `NumReduceWorkers() > 0` (`flags.cc:238`).
- `MCBufferFlags`: validation accepts `mr_reduce_input_buffer_size` up to 2048, not the 2000 its message and the spec say. `2048 * 1024 * 1024` wraps to -2^31 in `int`, and the allocator's `CHECK_LT(0, pool_size)` aborts.
- `MCMapOnlyFlags`: a map-only worker with `mr_batch_reduction=false` initialises the communicator with no reducers, and `CHECK_LT(0, num_receiver_)` aborts.
- `MCReduceDefaultFlags`: `mr_num_reduce_input_buffer_files` defaults to -1 and is never validated. The iterator's `CHECK_LE(0, num_files)` aborts.
- `MCUnsetIdFlags`: with neither worker id set, validation accepts a reduce worker with id -1. In incremental mode the communicator reads `reduce_workers[-1]`.
- `MCFormatFlags`: `recordio` passes validation, but no reader is registered for it, so `MapWork` is fatal. `protofile` input aborts at the end of the file (see `wordcount_job`).

`MCDefaultSizeFlags` is not in the run's flag space. Under the default sizes, `MapOutput` accepts a pair whose message is up to 32 MB + 8 bytes, but the mapper's queue is 32 MB, so `SignalingQueue::Add` returns -1 and `MapOutput` is fatal (`mapreduce_lite.cc:273`). In batch mode a 16 MB pool fails the same way in `Insert`. `NoConfigAbort` is violated there too, but spec §7 makes a record that exceeds the queue's capacity fatal, so this is not a finding.

`wordcount_job` finds three bugs on the way from input shards to output files, with the reducers launched first. The run as configured reports only the first, the record-file abort. The other two need the narrowed cfgs given with them.
- **Record files.** `ReadRecord` CHECKs that `fread` of the 4-byte size prefix returns one item (`protofile.cc:76`). At a clean end of file it returns 0, so the process aborts before the `feof` test that was meant to end the loop. `protofile_test.cc` expects `ReadRecord` to return false there. So every map worker with `mr_input_format=protofile` dies at the end of its first file. TLC reports this first: an empty record file aborts at once.
- **A reducer with no input, in batch mode** (`Formats = {"text"}`). A buffer that got no pair writes no file, because `Flush` returns at once on an empty pool. The iterator over zero files then reads `files_[0]` of an empty vector in `Initialize` (`sorted_buffer_iterator.cc:59`). So a batch job in which no word hashes to some reducer crashes there instead of writing an empty output.
- **A last line without a newline** (`Formats = {"text"}`, `Modes = {"incremental"}`, `LineLengths = {5}`, `MapperClasses = {"WordCountMapper"}` and `SYMMETRY MCMapperSymmetry`, about a minute: a shard `"a"`). `TextReader::Read` takes every chunk that does not end in a newline for part of a too-long line (`reader.cc:89`). A shard's last line without a newline therefore reaches `Map` as an empty value, and its words are not counted. The spec's word-count scenario uses shards like `"the quick brown fox"`. With only newline-terminated shards (`TextInputs <- MCTerminatedTextInputs`) in incremental mode the property holds (650k states, 43 seconds), long lines and CR included.

With `Launches = {"any"}` TLC's first trace is shorter still: a map worker started before its reducer listens fails `Connect` and aborts. The spec leaves launching to an external scheduler and rules out retry by design (§7), so this is the launcher's precondition, not a finding.

## Bounds and why they suffice

**`MCSignalingQueue`.**
- **Shape.** 3 producers (so `NumProducers = 3` signals), 2 consumers, a 3-byte ring, and one `Add` call per producer.
- **Sizes.**
  - Sizes 1, 2 and an invalid 4.
  - Destination sizes 1 and 3: 1 is too small for a 2-byte message.
- **What happens.**
  - Messages wrap: a 2-byte message at offset 2.
  - Producers block on a full queue, and two consumers wait on the same condition variable.
  - A too-small destination drops a message, and spurious wakeups occur.

**`MCTransport_1x1`.**
- **Traffic.** One mapper and one reducer; two messages of 1 or 2 bytes.
- **Buffers.**
  - A 6-byte socket buffer that polls writable at 4 free bytes, so frames of 5–6 bytes are written in pieces.
  - Reads split anywhere.
  - A 2-byte inbound queue, so the receive loop blocks in `Add`.

**`MCTransport_2x2`.**
- **Traffic.** Two workers on each side; mapper 0 sends one 1-byte message (mapper 1 sends none). Mapper 1 still has two destinations, which is all the send-side double count needs.
- **Why it is cut down.** Each `recv` returns all unread bytes, and a 5-byte buffer takes a frame whole, which keeps the run under two minutes. The 1×1 run covers split frames.
- **What it still reaches.** Both counter bugs, early closes, SIGPIPE and a message racing them.

**`MCSortedBufferIterator`.**
- **Keys.** Three keys: `<<1>>`, `<<1,200>>` and `<<200>>`. One is a prefix of another, and one has a byte above 127.
- **Pool.** A 20-byte pool holds two pairs of 9 or 10 bytes but not two of 10 and 11. So `Insert` flushes at different fill levels, and up to four inserts give up to four run files that share keys. The merge therefore sifts through both children, pops, and breaks ties.
- **Fatal path.** One value has 12 bytes, so a pair with it needs more than a 20-byte pool holds and `Insert` is fatal. The reduce worker then waits for files that never come.

**`MCRunFile`.**
- **Sizes.** The piece sizes are 0, 127, 128, 16384 and 32 MB - 1. Varint lengths change at these sizes: 1, 2, 3 and 4 bytes. Size 0 writes no data.
- **Shape.** Up to two groups of up to two values. That is enough for a group boundary to follow a value and for a count of 2.
- **The violation run** uses a 32 MB value, the largest one `MapOutput` accepts under the default flags.
- **Out of range.** Sizes of 2^28 and more need a fifth varint byte, which `WriteVarint32` writes past its 4-byte buffer. Such a piece is reachable if `mr_max_map_output_size` and the pool are raised to 256 MB or more, but these sizes are left out of the run (see the hazards).

**`MCWorker`.**
- **Command lines.** Each is a valid batch map worker's command line with a few fields changed.
- **The pass run** varies role, mode, reducer list, ids, reducer class, spill filebase, stale spill files and `mr_max_map_output_size` (up to `INT_MAX`, where the `+8` wraps). That gives 512 command lines and every path through `Initialize`.
- **The violation run** uses the boundary values where the code's arithmetic or checks change: 2000 and 2048 MB, -1 defaults, empty lists.

**`MCShuffle`.**
- **Shape.** Two mappers and two reducers, two output calls in all, in each of the three modes. Two calls are enough for a key to arrive from both mappers in either order (`PartialReduce`), for a broadcast to meet a single send, and for a call after a fatal one.
- **Keys.** `<<1>>` and `<<1,200>>`: one is a prefix of the other, so `std::map` order is not trivial. Their hashes send them to different reducers.
- **Sizes.** The queue is as large as the output limit, as in the default flags. A 10-byte value therefore passes `MapOutput`'s check but not the queue; a 16-byte one fails the check.
- **Shards.** The shard arguments are -1, 0, 1 and 2. The last one trips the CHECK.

**`MCWordCount`.**
- **Shape.** Two map workers and two reduce workers, both mapper classes, both modes, both output formats, reducers launched first. Three map workers take three minutes for the pass run alone, too long for its mutant. Words are over `a` and `b`, which `JSHash` sends to different reducers, so both reducers get work, a key can arrive from both mappers (`PartialReduce`), and the two output files differ.
- **The pass run.** Six shards (`MCPassFiles`), any two of them as the mappers' inputs, with a 6-byte line buffer: two words on a line, a CRLF line end, a 5-byte line that fills the buffer without its newline and is skipped with the newline chunk after it, an empty line, a word repeated in a shard, and a run of spaces in a line that fills the buffer exactly. Every pair of shards shares words, so keys arrive from both mappers. Each shard ends in a newline and sends some word to each reducer, which is what the violation run shows to be necessary. Besides one shard per worker, two two-file inputs: an empty file then a shard, and a shard whose last line `aabab` fills the 6-byte buffer then `ba` on a new line. With the second one, a reader kept across files would skip the new file's first line; the mutant `OpenReaderKeepLong` shows the run catches that. 77k states in about 16 seconds.
- **The violation run.** Every text shard of up to 3 bytes, record shards of up to two records, buffers of 3 and 5 bytes, both input formats, text output.

`NumMappers = NumReducers` is assumed in `Transport`: `ReceiveLoop` sizes `cb_args` and its clean-up loop by `num_receiver_` but has `num_sender_` sockets, so other shapes are undefined behaviour. `WordCount` abstracts the loops and has no such restriction.

`SYMMETRY MCMapperSymmetry` permutes the map workers. This is sound for the job: a batch reducer's input and an incremental reducer's table do not depend on which mapper sent a pair, and the output is sorted by key.

## Fairness

Every thread is weakly fair:
- consumers, woken producers and `Signal` in `SignalingQueue`;
- each user thread and each event loop in `Transport`;
- the buffer's deletion at the end of `MapWork` and the reduce worker's single thread in `SortedBufferIterator`. The user's `Reduce` is assumed to return; it reads finitely many values.

The OS schedules runnable threads, and every waiting step is re-enabled only by another thread's step. Spurious wakeups and new `Add` calls are not fair, because the code does not promise them.

## Not modelled

**Abstracted or left out, and why.**
- In `Transport`, connections start established; `WordCount` models their set-up (Bind, Listen, Accept, Connect), so the two together cover the communicator.
- Socket errors from a peer host, such as a reset connection that makes `send` or `recv` return -1, are not modelled. The hazards at `socket_communicator.cc:372` and `:397` describe what the unsigned `this_send` and `this_receive` do with them.
- `ReducerBase::OutputToChannel` to channels other than 0: the demo writes only output file 0.
- Larger instances were measured and do not fit the time a run and its mutants may take. `SignalingQueue` with two `Add` calls per producer takes more than five minutes; its current run already takes two and a half. `Shuffle` with three output calls reaches 2.6M states in five and a half minutes.
- Record sizes and the protobuf encoding of records.
- `WordCount` takes the transport and spill as lossless and in order, and leaves out `MapOutput`'s size limits (`Shuffle` checks them). A worker's matched files are given as its input list; glob's matching itself is not modelled.

**Out of scope.** The `_WIN32` branches of `condition_variable.cc` and `mutex.h`, which are never compiled, since `tcp_socket.cc` and the rest of the system use POSIX calls unconditionally; the timed `ConditionVariable::Wait`, which nothing calls. Logging, glob's pattern matching, `strcodec`, `random`, `cvector` and `stream_wrapper` (nothing in the system includes the last four), and the hash functions other than `JSHash`, which are never called. Reading `strcodec.cc` shows that `Uint32ToKey`, `Int64ToKey` and `Uint64ToKey` all instantiate `NumericValueToKey<int32>`. A value of 2^31 or more is therefore narrowed to int32, and the result either fails the `CHECK_GE` or is a wrong key. Only `strcodec_test.cc` calls these functions.
