------------------------------ MODULE MCWorker ------------------------------
(***************************************************************************)
(* Command lines for the worker model.  A command line is a record whose   *)
(* fields are the flags (numReduce is the number of entries of            *)
(* mr_reduce_workers, numOutputFiles that of mr_output_files, spillExists  *)
(* whether a spill file of an earlier job is on disk).  Good is a valid    *)
(* batch-mode map worker's command line; each set below varies it.        *)
(***************************************************************************)
EXTENDS Worker

Good == [DefaultFlags EXCEPT
           !.numMap = 2, !.numReduce = 1, !.mapId = 0,
           !.mapperClass = "WordCountMapper", !.reducerClass = "WordCountReducer",
           !.filebase = "/tmp/buf", !.bufferMB = 512, !.inputPattern = "in-*",
           !.numOutputFiles = 1, !.mapQueueMB = 1, !.reduceQueueMB = 1,
           !.logFilebase = "/tmp/log", !.numBufferFiles = 2]

(* The registries of a worker binary linked with the word-count demo: its  *)
(* REGISTER_MAPPER, REGISTER_INCREMENTAL_REDUCER and REGISTER_BATCH_REDUCER *)
(* lines, and reader.cc's REGISTER_READER lines; no default creators.      *)
MCMapperRegistry ==
    RegisterClasses(<<"WordCountMapper", "WordCountMapperWithCombiner">>)
MCIncrementalReducerRegistry == RegisterClasses(<<"WordCountReducer">>)
MCBatchReducerRegistry == RegisterClasses(<<"WordCountBatchReducer">>)
MCReaderRegistry ==
    RegisterAll(EmptyRegistry, <<<<"text", "TextReader">>, <<"protofile", "ProtoRecordReader">>>>)

(* Roles and modes: map, map-only and reduce workers, batch and           *)
(* incremental, with some of the flags each of them needs missing, and    *)
(* reducer classes of either registry or of none.                         *)
MCRoleFlags ==
    { [Good EXCEPT !.numReduce = nr, !.mapId = mi, !.reduceId = ri,
                   !.mapOnly = mo, !.batch = b, !.reducerClass = rc,
                   !.filebase = fb, !.spillExists = se, !.maxOutput = mx] :
        nr \in {0, 2}, mi \in {-1, 0}, ri \in {-1, 1}, mo \in BOOLEAN,
        b \in BOOLEAN, rc \in {"WordCountReducer", "WordCountBatchReducer", "NoSuchReducer"},
        fb \in {"", "/tmp/buf"}, se \in BOOLEAN, mx \in {32 * MB, IntMax} }

(* The largest reduce input buffer validation accepts.                    *)
MCBufferFlags == { [Good EXCEPT !.bufferMB = mb] : mb \in {2000, 2048} }

(* A batch-mode map worker given no reduce workers.                        *)
MCNoReducerFlags == { [Good EXCEPT !.numReduce = 0] }

(* A map-only worker, with the default mr_batch_reduction and without.    *)
MCMapOnlyFlags ==
    { [Good EXCEPT !.numReduce = 0, !.mapOnly = TRUE, !.batch = b] : b \in BOOLEAN }

(* A batch reduce worker whose mr_num_reduce_input_buffer_files is left at *)
(* its default of -1.                                                      *)
MCReduceDefaultFlags ==
    { [Good EXCEPT !.mapId = -1, !.reduceId = 0, !.numBufferFiles = n,
                   !.reducerClass = "WordCountBatchReducer"] : n \in {-1, 2} }

(* A worker started with neither worker id, in both modes.                *)
MCUnsetIdFlags ==
    { [Good EXCEPT !.mapId = -1, !.reduceId = -1, !.batch = b,
                   !.reducerClass = IF b THEN "WordCountBatchReducer" ELSE "WordCountReducer"] :
        b \in BOOLEAN }

(* The three input formats validation accepts.                            *)
MCFormatFlags ==
    { [Good EXCEPT !.inputFormat = fmt] : fmt \in {"text", "recordio", "protofile"} }
(* The default sizes (32 MB mapper queue, 128 MB reducer queue, 32 MB     *)
(* largest output), in both modes, with the default 256 MB pool and a      *)
(* 16 MB one. Not among the aborts below: a record larger than the queue  *)
(* aborts the mapper, as spec section 7 prescribes.                        *)
MCDefaultSizeFlags ==
    { [Good EXCEPT !.mapQueueMB = 32, !.reduceQueueMB = 128, !.bufferMB = bm, !.batch = b] :
        bm \in {16, 256}, b \in BOOLEAN }

(* Every command line above that passes validation and then aborts; TLC   *)
(* reports the shortest such run, and narrowing FlagSpace to one of the    *)
(* sets above shows that set's abort.                                     *)
MCAcceptedThenAbortFlags ==
    MCBufferFlags \cup MCNoReducerFlags \cup MCMapOnlyFlags \cup
    MCReduceDefaultFlags \cup MCUnsetIdFlags \cup MCFormatFlags
=============================================================================
