------------------------------- MODULE Worker -------------------------------
(***************************************************************************)
(* The life of one worker process (mapreduce_main.cc): flag validation     *)
(* (ValidateCommandLineFlags, flags.cc), Initialize's resource set-up      *)
(* (mapreduce_lite.cc), then MapWork or ReduceWork and Finalize.           *)
(*                                                                         *)
(* The command line is a record drawn from FlagSpace.  What the work phase *)
(* does with the data is modelled elsewhere; here it is the resources each *)
(* step creates or touches.  Network set-up and allocations of a valid     *)
(* size are assumed to succeed; a failing fopen or an unknown class name   *)
(* is a clean `return false`.  "abort" is a CHECK failure or LOG(FATAL).   *)
(***************************************************************************)
EXTENDS Integers, Sequences, FiniteSets

CONSTANTS
    FlagSpace,                    \* the command lines to consider, as records
    MapperRegistry,               \* the registries the linked-in REGISTER_*
    IncrementalReducerRegistry,   \* macros filled (see Registry)
    BatchReducerRegistry,
    ReaderRegistry

VARIABLES
    f,           \* the parsed flags
    phase,       \* "start", "init", "work", "finalize", "done", "exit" (return -1), "abort"
    step,        \* the next step of Initialize
    validated,   \* ValidateCommandLineFlags returned true
    created,     \* the resources Initialize has set up
    used         \* the resources the work phase has touched

vars == <<f, phase, step, validated, created, used>>

MB == 1024 * 1024

IntMax == 2147483647
IntMin == -IntMax - 1

(* n * 1024 * 1024 in 32-bit int arithmetic: it wraps, as the build's     *)
(* imul does.                                                              *)
WrapMB(n) == LET r == n % 4096 IN IF r >= 2048 THEN (r - 4096) * MB ELSE r * MB

(* A positive int plus 2 * sizeof(uint32), computed as size_t and         *)
(* returned as int.                                                        *)
WrapPlus8(x) == IF x > IntMax - 8 THEN (x - (IntMax - 7)) + IntMin ELSE x + 8

(* The flags' default values (DEFINE_* in flags.cc), as a command line    *)
(* record; numReduce and numOutputFiles count the entries of the empty     *)
(* mr_reduce_workers and mr_output_files, and spillExists (no spill file  *)
(* of an earlier job on disk) is the file system, not a flag.             *)
DefaultFlags ==
    [numMap |-> 0, numReduce |-> 0, mapId |-> -1, reduceId |-> -1,
     mapOnly |-> FALSE, batch |-> TRUE, mapperClass |-> "", reducerClass |-> "",
     inputPattern |-> "", numOutputFiles |-> 0, inputFormat |-> "text", outputFormat |-> "text",
     filebase |-> "", spillExists |-> FALSE, bufferMB |-> 256, numBufferFiles |-> -1,
     logFilebase |-> "", mapQueueMB |-> 32, reduceQueueMB |-> 128, maxOutput |-> 32 * MB]

(* An ObjectCreatorRegistry (base/class_register.h): AddCreator fills a    *)
(* std::map from entry name to creator, SetDefaultCreator the creator for  *)
(* names not in it (NoObject when there is none).  A creator is named by   *)
(* the class it news.                                                       *)
NoObject == "NULL"
Registry(creators, default) == [creators |-> creators, default |-> default]

(* CreateObject: the creator registered under the name, else the default  *)
(* creator; NULL when neither exists.                                      *)
CreateObject(reg, name) ==
    IF name \in DOMAIN reg.creators THEN reg.creators[name] ELSE reg.default

(* A registry as main finds it: GetRegistry_ constructs it empty with no   *)
(* default creator, and before main every global that                      *)
(* CLASS_REGISTER_OBJECT_CREATOR defines has called AddCreator(entry_name, *)
(* creator of class), which overwrites an entry of the same name.          *)
EmptyRegistry == Registry([n \in {} |-> NoObject], NoObject)
AddCreator(reg, name, cls) ==
    LET c == reg.creators IN
    [reg EXCEPT !.creators = [n \in DOMAIN c \cup {name} |-> IF n = name THEN cls ELSE c[n]]]

(* REGISTER_READER(format, class) for each entry <<format, class>>, in     *)
(* order.                                                                   *)
RECURSIVE RegisterAll(_, _)
RegisterAll(reg, entries) ==
    IF entries = <<>> THEN reg
    ELSE RegisterAll(AddCreator(reg, Head(entries)[1], Head(entries)[2]), Tail(entries))

(* REGISTER_MAPPER(c), REGISTER_INCREMENTAL_REDUCER(c) and                  *)
(* REGISTER_BATCH_REDUCER(c): class c under its own name (#c), in one of    *)
(* three registries of its own.                                              *)
RegisterClasses(cs) == RegisterAll(EmptyRegistry, [i \in 1..Len(cs) |-> <<cs[i], cs[i]>>])

(* Flag accessors (flags.cc). *)
IAmMapWorker(g) == g.mapId >= 0
IAmReduceWorker(g) == ~IAmMapWorker(g)
IAmMapOnlyWorker(g) == IAmMapWorker(g) /\ g.mapOnly
NumWorkers(g) == IF IAmMapWorker(g) THEN g.numMap ELSE g.numReduce
WorkerId(g) == IF IAmMapWorker(g) THEN g.mapId ELSE g.reduceId
NumMapWorkers(g) == g.numMap
NumReduceWorkers(g) == g.numReduce
NumReduceInputBufferFiles(g) == g.numBufferFiles
MessageQueueSize(g) ==
    WrapMB(IF IAmMapWorker(g) THEN g.mapQueueMB ELSE g.reduceQueueMB)
ReduceInputBufferSize(g) == WrapMB(g.bufferMB)
MapOutputBufferSize(g) == WrapPlus8(g.maxOutput)

(* CreateMapper and CreateReducer: CREATE_MAPPER(mr_mapper_class), and     *)
(* CREATE_BATCH_REDUCER or CREATE_INCREMENTAL_REDUCER(mr_reducer_class) by *)
(* mr_batch_reduction: a batch worker looks only in the batch registry.    *)
CreateMapper(g) == CreateObject(MapperRegistry, g.mapperClass)
CreateReducer(g) ==
    CreateObject(IF g.batch THEN BatchReducerRegistry ELSE IncrementalReducerRegistry,
                 g.reducerClass)

Formats == {"text", "recordio", "protofile"}

(* ValidateCommandLineFlags: the conditions that set flags_valid = false. *)
FlagErrors(g) ==
    \/ g.numMap <= 0
    \/ g.numReduce = 0 /\ ~g.mapOnly
    \/ g.numReduce > 0 /\ g.mapOnly
    \/ g.mapOnly /\ (g.mapId < 0 \/ g.reduceId >= 0)
    \/ ~g.mapOnly /\ g.mapId >= 0 /\ g.reduceId >= 0
    \/ IAmMapWorker(g) /\ g.mapId >= g.numMap
    \/ IAmReduceWorker(g) /\ g.reduceId >= g.numReduce
    \/ IAmMapWorker(g) /\ g.mapperClass = ""
    \/ IAmReduceWorker(g) /\ g.reducerClass = ""
    \/ g.batch /\ ~g.mapOnly /\
         IF g.filebase = "" THEN TRUE
         ELSE IF IAmMapWorker(g) /\ g.spillExists THEN TRUE
         ELSE g.bufferMB < 1 \/ g.bufferMB > 2 * 1024
    \/ g.inputFormat \notin Formats
    \/ g.outputFormat \notin Formats
    \/ IAmMapWorker(g) /\ g.inputPattern = ""
    \/ (IAmReduceWorker(g) \/ IAmMapOnlyWorker(g)) /\ g.numOutputFiles <= 0
    \/ g.mapQueueMB <= 0 \/ g.reduceQueueMB <= 0
    \/ g.maxOutput <= 0

(* The spill-file existence test calls MapOutputBufferFilebase(0), which   *)
(* CHECKs 0 < NumReduceWorkers(), even when the flags are already invalid. *)
ValidationCrashes(g) ==
    g.batch /\ ~g.mapOnly /\ g.filebase # "" /\ IAmMapWorker(g) /\ NumReduceWorkers(g) = 0

Validate ==
    /\ phase = "start"
    /\ IF ValidationCrashes(f) THEN phase' = "abort" /\ UNCHANGED validated
       ELSE IF FlagErrors(f) THEN phase' = "exit" /\ UNCHANGED validated
       ELSE phase' = "init" /\ validated' = TRUE
    /\ UNCHANGED <<f, step, created, used>>

(* One step of Initialize after validation: abort, return false, or set   *)
(* up the resources rs and go on.                                          *)
InitStep(k, applies, aborts, fails, rs) ==
    /\ phase = "init" /\ step = k
    /\ IF ~applies THEN step' = k + 1 /\ UNCHANGED <<phase, created>>
       ELSE IF aborts THEN phase' = "abort" /\ UNCHANGED <<step, created>>
       ELSE IF fails THEN phase' = "exit" /\ UNCHANGED <<step, created>>
       ELSE step' = k + 1 /\ created' = created \cup rs /\ UNCHANGED phase
    /\ UNCHANGED <<f, validated, used>>

(* LogFilebase() CHECKs that mr_log_filebase is set.                       *)
InitLogger == InitStep(1, TRUE, f.logFilebase = "", FALSE, {"log"})

(* SocketCommunicator::Initialize, in incremental mode.  The int queue    *)
(* size is passed as uint32 and CHECKed positive, which fails only for 0, *)
(* then passed back as int to SignalingQueue, which CHECKs it positive.   *)
(* A receiver indexes reduce_workers[worker_id] after CHECKing only that  *)
(* it is below the count; reduce_workers[-1] reads before the vector's    *)
(* storage, and the process ends abnormally whatever that memory holds.   *)
InitCommunicator ==
    LET q == MessageQueueSize(f) IN
    InitStep(2, ~f.batch,
             \/ q = 0 \/ NumMapWorkers(f) <= 0 \/ NumReduceWorkers(f) <= 0
             \/ WorkerId(f) >= NumWorkers(f)
             \/ IAmReduceWorker(f) /\ WorkerId(f) < 0
             \/ q < 0,
             FALSE, {"communicator"})

InitMapper ==
    InitStep(3, IAmMapWorker(f), FALSE, CreateMapper(f) = NoObject, {"mapper"})

InitReducer ==
    InitStep(4, IAmReduceWorker(f), FALSE, CreateReducer(f) = NoObject, {"reducer"})

InitOutputs ==
    /\ \E openFails \in BOOLEAN :
         InitStep(5, IAmReduceWorker(f) \/ IAmMapOnlyWorker(f), FALSE, openFails, {"outputs"})

(* Faulty variant: the send buffer only for the socket transport.         *)
InitSendBufferIncrementalOnly ==
    InitStep(6, IAmMapWorker(f) /\ ~IAmMapOnlyWorker(f) /\ ~f.batch,
             FALSE, MapOutputBufferSize(f) < 0, {"sendBuffer"})

(* new char[MapOutputBufferSize()]: a negative size throws, and the       *)
(* handler returns false.                                                  *)
InitSendBuffer ==
    InitStep(6, IAmMapWorker(f) /\ ~IAmMapOnlyWorker(f),
             FALSE, MapOutputBufferSize(f) < 0, {"sendBuffer"})

InitReceiveBuffer ==
    InitStep(7, IAmReduceWorker(f), FALSE, MapOutputBufferSize(f) < 0, {"receiveBuffer"})

(* One SortedBuffer per reduce worker, none when there are none;          *)
(* NaiveMemoryAllocator CHECKs that its pool size is positive.             *)
InitSpillBuffers ==
    InitStep(8, IAmMapWorker(f) /\ f.batch,
             NumReduceWorkers(f) > 0 /\ ReduceInputBufferSize(f) <= 0, FALSE,
             IF NumReduceWorkers(f) > 0 THEN {"spill"} ELSE {})

InitDone ==
    /\ phase = "init" /\ step = 9
    /\ phase' = "work"
    /\ UNCHANGED <<f, step, validated, created, used>>

(* ReadRecord CHECKs that fread of the size prefix returned a record, and  *)
(* at the end of every record file it returns none (see Readers).          *)
ReaderAbortsAtEnd(fmt) == CreateObject(ReaderRegistry, fmt) = "ProtoRecordReader"

(* MapOutput accepts a pair whose message, with its two sizes, is up to   *)
(* MapOutputBufferSize() bytes.  Send then fails, and MapOutput is fatal,  *)
(* when the message is larger than the mapper's queue (Add returns -1);   *)
(* Insert is fatal when it is larger than an empty SortedBuffer pool.      *)
LargestOutputFails(g) ==
    /\ ~IAmMapOnlyWorker(g)
    /\ IF g.batch THEN MapOutputBufferSize(g) > ReduceInputBufferSize(g)
       ELSE MapOutputBufferSize(g) > MessageQueueSize(g)

(* MapWork: CREATE_READER(InputFormat()) is fatal, for each matched input *)
(* file, when the format has no reader, and so is reading a protofile to   *)
(* its end, and so is an output of the largest accepted size that the     *)
(* transport or spill buffer cannot take.  Mapper::Output goes to output file 0 in map-only mode and     *)
(* otherwise through MapOutput, which fills the send buffer and passes it *)
(* to the communicator or a spill buffer; at the end the spill buffers are *)
(* deleted, which flushes them.                                            *)
MapWork ==
    /\ phase = "work" /\ IAmMapWorker(f)
    /\ \E anyInput, largestOutput \in BOOLEAN :
         IF \/ anyInput /\ (CreateObject(ReaderRegistry, f.inputFormat) = NoObject \/ ReaderAbortsAtEnd(f.inputFormat))
            \/ anyInput /\ largestOutput /\ LargestOutputFails(f)
         THEN phase' = "abort" /\ UNCHANGED used
         ELSE /\ phase' = "finalize"
              /\ used' = used \cup {"mapper"} \cup
                   IF IAmMapOnlyWorker(f) THEN {"outputs"}
                   ELSE {"sendBuffer"} \cup
                        IF f.batch THEN {"spill"} ELSE {"communicator"}
    /\ UNCHANGED <<f, step, validated, created>>

(* ReduceWork: in incremental mode Receive into the receive buffer; in    *)
(* batch mode the iterator over NumReduceInputBufferFiles() files, which  *)
(* CHECKs the count is not negative and reads files_[0] even when it is   *)
(* zero.  Reduce's outputs go to the output files.                        *)
ReduceWork ==
    /\ phase = "work" /\ IAmReduceWorker(f)
    /\ IF f.batch /\ NumReduceInputBufferFiles(f) <= 0
       THEN phase' = "abort" /\ UNCHANGED used
       ELSE /\ phase' = "finalize"
            /\ used' = used \cup {"reducer", "outputs"} \cup
                 IF f.batch THEN {} ELSE {"communicator", "receiveBuffer"}
    /\ UNCHANGED <<f, step, validated, created>>

(* Finalize: in incremental mode the communicator's Finalize signals end  *)
(* of stream (sender) or joins the receive thread (receiver); main then   *)
(* returns 0.                                                              *)
Finalize ==
    /\ phase = "finalize"
    /\ phase' = "done"
    /\ used' = used \cup IF f.batch THEN {} ELSE {"communicator"}
    /\ UNCHANGED <<f, step, validated, created>>

Init ==
    /\ f \in FlagSpace
    /\ phase = "start" /\ step = 1
    /\ validated = FALSE /\ created = {} /\ used = {}

Next ==
    \/ Validate
    \/ InitLogger \/ InitCommunicator \/ InitMapper \/ InitReducer
    \/ InitOutputs \/ InitSendBuffer \/ InitReceiveBuffer \/ InitSpillBuffers
    \/ InitDone
    \/ MapWork \/ ReduceWork \/ Finalize
    \/ phase \in {"done", "exit", "abort"} /\ UNCHANGED vars   \* the process has ended

Spec == Init /\ [][Next]_vars

-----------------------------------------------------------------------------
Resources == {"log", "communicator", "mapper", "reducer", "outputs",
              "sendBuffer", "receiveBuffer", "spill"}

WorkerTypeOK ==
    /\ f \in FlagSpace
    /\ phase \in {"start", "init", "work", "finalize", "done", "exit", "abort"}
    /\ step \in 1..9
    /\ validated \in BOOLEAN
    /\ created \subseteq Resources /\ used \subseteq Resources

(* Whatever the role and mode the flags select, MapWork, ReduceWork and   *)
(* Finalize touch only what Initialize set up: Initialize's conditions     *)
(* (IAmMapWorker, IAmMapOnlyWorker, batch mode) match the work phase's.    *)
ResourcesBeforeUse == used \subseteq created

(* A command line either fails ValidateCommandLineFlags, and Initialize    *)
(* returns false (exit -1), or, with every file and allocation            *)
(* succeeding, the worker runs to the end: no flag value that passes      *)
(* validation makes a later CHECK or LOG(FATAL) fire.                     *)
NoConfigAbort == phase # "abort"
=============================================================================
