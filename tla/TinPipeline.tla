----------------------------- MODULE TinPipeline -----------------------------
(***************************************************************************)
(* InitializeTinFromBoundary (src/src/tsr/DelaunayTriangulation.cpp) and   *)
(* the chunk cache it fills (src/src/tsr/IO/ChunkCache.cpp): the chunks    *)
(* found in ./tsrCache are loaded one after the other, the others are      *)
(* fetched, triangulated, cached and collected by a TBB flow graph whose   *)
(* nodes run concurrently.  Several processes may run in one directory, a  *)
(* process may be killed at any step, and is started again by its user.    *)
(*                                                                         *)
(* The bodies of api_node to simplify_node touch only the message they are *)
(* passed, so one chunk's way through them is one task, "preparing".       *)
(***************************************************************************)
EXTENDS Naturals, Sequences, FiniteSets

CONSTANTS
    Procs,          \* the processes that share the cache directory
    Required,       \* GetRequiredChunks, by process: chunks in order, none twice
    TornReads,      \* what reading a torn file may do: "throws", "partial"
    Nobody,         \* no process
    MaxCalls,       \* bound: calls of InitializeTinFromBoundary per process run
    MaxFailures,    \* bound: exceptions thrown by the nodes before the cache
    MaxCrashes      \* bound: processes killed

Chunks == UNION {{Required[p][i] : i \in DOMAIN Required[p]} : p \in Procs}

ASSUME RequiredAssumption ==
    \A p \in Procs :
        /\ Required[p] \in Seq(Chunks)
        /\ \A i, j \in DOMAIN Required[p] : Required[p][i] = Required[p][j] => i = j
ASSUME TornReadsAssumption == TornReads # {} /\ TornReads \subseteq {"throws", "partial"}
ASSUME NobodyAssumption == Nobody \notin Procs
ASSUME BoundsAssumption == MaxCalls \in Nat \ {0} /\ MaxFailures \in Nat /\ MaxCrashes \in Nat

VARIABLES
    disk,       \* the cache file of a chunk: "absent", "torn" or "whole"
    writer,     \* who opened a torn file last and has not finished writing it
    pc,         \* where a process is in InitializeTinFromBoundary
    calls,      \* how often this run of a process has called it
    listed,     \* how many required chunks have been looked up
    cached,     \* cachedTilesRequired, from the one being loaded on
    api,        \* apiTilesRequired
    count,      \* the input node's counter: static, so it outlives the call
    task,       \* the stage of a chunk in the flow graph
    cancelled,  \* a node threw: the graph starts no further body
    merged,     \* masterTIN: how much of a chunk it holds
    failures, crashes

local == <<pc, calls, listed, cached, api, count, task, cancelled, merged>>
vars  == <<disk, writer, local, failures, crashes>>

\* Stages at which a node's body is running, and those in between.
Running == {"preparing", "writing", "merging"}
Waiting == {"prepared", "written"}
Stages  == {"outside"} \cup Running \cup Waiting \cup {"collected"}

Fresh(p) == [c \in Chunks |-> "outside"]
Empty(p) == [c \in Chunks |-> "nothing"]

-----------------------------------------------------------------------------
Init ==
    /\ disk = [c \in Chunks |-> "absent"]
    /\ writer = [c \in Chunks |-> Nobody]
    /\ pc = [p \in Procs |-> "idle"]
    /\ calls = [p \in Procs |-> 0]
    /\ listed = [p \in Procs |-> 0]
    /\ cached = [p \in Procs |-> <<>>]
    /\ api = [p \in Procs |-> <<>>]
    /\ count = [p \in Procs |-> 0]
    /\ task = [p \in Procs |-> Fresh(p)]
    /\ cancelled = [p \in Procs |-> FALSE]
    /\ merged = [p \in Procs |-> Empty(p)]
    /\ failures = 0
    /\ crashes = 0

Call(p) ==
    /\ pc[p] \in {"idle", "done", "failed"}
    /\ calls[p] < MaxCalls
    /\ calls' = [calls EXCEPT ![p] = @ + 1]
    /\ pc' = [pc EXCEPT ![p] = "listing"]
    /\ listed' = [listed EXCEPT ![p] = 0]
    /\ cached' = [cached EXCEPT ![p] = <<>>]
    /\ api' = [api EXCEPT ![p] = <<>>]
    /\ task' = [task EXCEPT ![p] = Fresh(p)]
    /\ cancelled' = [cancelled EXCEPT ![p] = FALSE]
    /\ merged' = [merged EXCEPT ![p] = Empty(p)]
    /\ UNCHANGED <<disk, writer, count, failures, crashes>>

\* IO::IsChunkCached for the next required chunk: the file exists, whatever is in
\* it and whatever g_cache_enabled says.
LookUp(p) ==
    /\ pc[p] = "listing"
    /\ listed[p] < Len(Required[p])
    /\ LET c == Required[p][listed[p] + 1] IN
       IF disk[c] # "absent"
         THEN cached' = [cached EXCEPT ![p] = Append(@, c)] /\ UNCHANGED api
         ELSE api' = [api EXCEPT ![p] = Append(@, c)] /\ UNCHANGED cached
    /\ listed' = [listed EXCEPT ![p] = @ + 1]
    /\ UNCHANGED <<disk, writer, pc, calls, count, task, cancelled, merged, failures, crashes>>

LookedUp(p) ==
    /\ pc[p] = "listing"
    /\ listed[p] = Len(Required[p])
    /\ pc' = [pc EXCEPT ![p] = "loading"]
    /\ UNCHANGED <<disk, writer, calls, listed, cached, api, count, task, cancelled, merged,
                   failures, crashes>>

\* GetChunkFromCache<Tin> and the merge.  The file may be gone or torn by now; of a
\* torn one loadCDTFromFile returns what operator>> made of it, the stream's state
\* is not looked at.
Load(p) ==
    /\ pc[p] = "loading"
    /\ cached[p] # <<>>
    /\ LET c == Head(cached[p])
           outcomes == CASE disk[c] = "whole"  -> {"whole"}
                         [] disk[c] = "torn"   -> TornReads
                         [] disk[c] = "absent" -> {"throws"}
       IN \E outcome \in outcomes :
            IF outcome = "throws"
              THEN /\ pc' = [pc EXCEPT ![p] = "discarding"]
                   /\ UNCHANGED <<cached, merged>>
              ELSE /\ merged' = [merged EXCEPT ![p][c] = outcome]
                   /\ cached' = [cached EXCEPT ![p] = Tail(@)]
                   /\ UNCHANGED pc
    /\ UNCHANGED <<disk, writer, calls, listed, api, count, task, cancelled, failures, crashes>>

\* The handler: DeleteChunkFromCache, and the chunk is left to the API.  A process
\* that still writes the file goes on writing one that no longer has a name.
DiscardRetry(p) ==                      \* a bug: the file is read again as it is
    /\ pc[p] = "discarding"
    /\ pc' = [pc EXCEPT ![p] = "loading"]
    /\ UNCHANGED <<disk, writer, cached, api, calls, listed, count, task, cancelled, merged,
                   failures, crashes>>
DiscardStillListed(p) ==                \* a bug: the chunk stays among the cached ones
    /\ pc[p] = "discarding"
    /\ disk' = [disk EXCEPT ![Head(cached[p])] = "absent"]
    /\ writer' = [writer EXCEPT ![Head(cached[p])] = Nobody]
    /\ api' = [api EXCEPT ![p] = Append(@, Head(cached[p]))]
    /\ pc' = [pc EXCEPT ![p] = "loading"]
    /\ UNCHANGED <<cached, calls, listed, count, task, cancelled, merged, failures, crashes>>
DiscardForgetful(p) ==                  \* a bug: the chunk is not fetched anew
    /\ pc[p] = "discarding"
    /\ disk' = [disk EXCEPT ![Head(cached[p])] = "absent"]
    /\ writer' = [writer EXCEPT ![Head(cached[p])] = Nobody]
    /\ cached' = [cached EXCEPT ![p] = Tail(@)]
    /\ pc' = [pc EXCEPT ![p] = "loading"]
    /\ UNCHANGED <<api, calls, listed, count, task, cancelled, merged, failures, crashes>>
Discard(p) ==
    /\ pc[p] = "discarding"
    /\ disk' = [disk EXCEPT ![Head(cached[p])] = "absent"]
    /\ writer' = [writer EXCEPT ![Head(cached[p])] = Nobody]
    /\ api' = [api EXCEPT ![p] = Append(@, Head(cached[p]))]
    /\ cached' = [cached EXCEPT ![p] = Tail(@)]
    /\ pc' = [pc EXCEPT ![p] = "loading"]
    /\ UNCHANGED <<calls, listed, count, task, cancelled, merged, failures, crashes>>

\* The graph is only activated if something is left to fetch.
Loaded(p) ==
    /\ pc[p] = "loading"
    /\ cached[p] = <<>>
    /\ pc' = [pc EXCEPT ![p] = IF api[p] = <<>> THEN "done" ELSE "waiting"]
    /\ UNCHANGED <<disk, writer, calls, listed, cached, api, count, task, cancelled, merged,
                   failures, crashes>>

-----------------------------------------------------------------------------
(* The flow graph.                                                          *)

\* A body may start: the graph runs and is not cancelled.
MayStart(p) == pc[p] = "waiting" /\ ~cancelled[p]

GoesTo(p, c, stage) == task' = [task EXCEPT ![p][c] = stage]

\* input_node hands out the next tile; api_node takes it at once.
Emit(p) ==
    /\ MayStart(p)
    /\ count[p] < Len(api[p])
    /\ GoesTo(p, api[p][count[p] + 1], "preparing")
    /\ count' = [count EXCEPT ![p] = @ + 1]
    /\ UNCHANGED <<disk, writer, pc, calls, listed, cached, api, cancelled, merged, failures, crashes>>

\* FetchRasterChunk, ExtractGdalDatasetPoints, CreateTinFromPoints and SimplifyTin
\* have succeeded.
Prepare(p, c) ==
    /\ task[p][c] = "preparing"
    /\ GoesTo(p, c, "prepared")
    /\ UNCHANGED <<disk, writer, pc, calls, listed, cached, api, count, cancelled, merged,
                   failures, crashes>>

\* One of them threw: the API is down, or has answered with something else.
Throw(p, c) ==
    /\ task[p][c] = "preparing"
    /\ failures < MaxFailures
    /\ failures' = failures + 1
    /\ cancelled' = [cancelled EXCEPT ![p] = TRUE]
    /\ GoesTo(p, c, "outside")
    /\ UNCHANGED <<disk, writer, pc, calls, listed, cached, api, count, merged, crashes>>

\* cache_node: WriteTinToFile opens the file, which truncates it.
BeginWrite(p, c) ==
    /\ MayStart(p)
    /\ task[p][c] = "prepared"
    /\ GoesTo(p, c, "writing")
    /\ disk' = [disk EXCEPT ![c] = "torn"]
    /\ writer' = [writer EXCEPT ![c] = p]
    /\ UNCHANGED <<pc, calls, listed, cached, api, count, cancelled, merged, failures, crashes>>

\* The same bytes may have been written over by another process, or deleted.
EndWrite(p, c) ==
    /\ task[p][c] = "writing"
    /\ GoesTo(p, c, "written")
    /\ disk' = [disk EXCEPT ![c] = IF writer[c] = p THEN "whole" ELSE @]
    /\ writer' = [writer EXCEPT ![c] = IF @ = p THEN Nobody ELSE @]
    /\ UNCHANGED <<pc, calls, listed, cached, api, count, cancelled, merged, failures, crashes>>

\* The file cannot be opened: WriteTinToFile returns false, which nobody reads.
SkipWrite(p, c) ==
    /\ MayStart(p)
    /\ task[p][c] = "prepared"
    /\ GoesTo(p, c, "written")
    /\ UNCHANGED <<disk, writer, pc, calls, listed, cached, api, count, cancelled, merged,
                   failures, crashes>>

\* collect_node is serial: MergeTinPointsInBoundary inserts into the one masterTIN.
BeginMerge(p, c) ==
    /\ MayStart(p)
    /\ task[p][c] = "written"
    /\ \A d \in Chunks : task[p][d] # "merging"
    /\ GoesTo(p, c, "merging")
    /\ UNCHANGED <<disk, writer, pc, calls, listed, cached, api, count, cancelled, merged,
                   failures, crashes>>

EndMerge(p, c) ==
    /\ task[p][c] = "merging"
    /\ GoesTo(p, c, "collected")
    /\ merged' = [merged EXCEPT ![p][c] = "whole"]
    /\ UNCHANGED <<disk, writer, pc, calls, listed, cached, api, count, cancelled, failures, crashes>>

\* wait_for_all returns when no body runs and none is going to.
QuiescentAtOnce(p) ==                   \* a bug: the exception does not wait
    \/ cancelled[p]
    \/ count[p] >= Len(api[p]) /\ \A c \in Chunks : task[p][c] \in {"outside", "collected"}
Quiescent(p) ==
    /\ \A c \in Chunks : task[p][c] \notin Running
    /\ cancelled[p] \/ (count[p] >= Len(api[p]) /\ \A c \in Chunks : task[p][c] \notin Waiting)

Finish(p) ==
    /\ pc[p] = "waiting"
    /\ Quiescent(p)
    /\ pc' = [pc EXCEPT ![p] = IF cancelled[p] THEN "failed" ELSE "done"]
    /\ UNCHANGED <<disk, writer, calls, listed, cached, api, count, task, cancelled, merged,
                   failures, crashes>>

-----------------------------------------------------------------------------
(* The environment.                                                         *)

\* What a new process starts from; the static counter is zero again.
Reset(p) ==
    /\ calls' = [calls EXCEPT ![p] = 0]
    /\ listed' = [listed EXCEPT ![p] = 0]
    /\ cached' = [cached EXCEPT ![p] = <<>>]
    /\ api' = [api EXCEPT ![p] = <<>>]
    /\ count' = [count EXCEPT ![p] = 0]
    /\ task' = [task EXCEPT ![p] = Fresh(p)]
    /\ cancelled' = [cancelled EXCEPT ![p] = FALSE]
    /\ merged' = [merged EXCEPT ![p] = Empty(p)]

\* A process is killed: what it was writing stays torn.
Crash(p) ==
    /\ pc[p] \notin {"idle", "crashed"}
    /\ crashes < MaxCrashes
    /\ crashes' = crashes + 1
    /\ pc' = [pc EXCEPT ![p] = "crashed"]
    /\ writer' = [c \in Chunks |-> IF writer[c] = p THEN Nobody ELSE writer[c]]
    /\ Reset(p)
    /\ UNCHANGED <<disk, failures>>

\* The user runs the program again after an exception (tsr_run does not catch it)
\* or a crash.
Rerun(p) ==
    /\ pc[p] \in {"failed", "crashed"}
    /\ pc' = [pc EXCEPT ![p] = "idle"]
    /\ Reset(p)
    /\ UNCHANGED <<disk, writer, failures, crashes>>

Body(p, c) ==
    \/ Prepare(p, c) \/ BeginWrite(p, c) \/ EndWrite(p, c) \/ SkipWrite(p, c)
    \/ BeginMerge(p, c) \/ EndMerge(p, c)

Main(p) ==
    Call(p) \/ LookUp(p) \/ LookedUp(p) \/ Load(p) \/ Discard(p) \/ Loaded(p)
    \/ Emit(p) \/ Finish(p)

Next ==
    \E p \in Procs :
        \/ Main(p) \/ Crash(p) \/ Rerun(p)
        \/ \E c \in Chunks : Body(p, c) \/ Throw(p, c)

Spec == Init /\ [][Next]_vars

\* The main thread and every running body go on, TBB starts what it may, and the
\* user tries again; nobody is bound to fail or to be killed.
FairSpec ==
    /\ Spec
    /\ \A p \in Procs : WF_vars(Main(p)) /\ WF_vars(Rerun(p))
    /\ \A p \in Procs : \A c \in Chunks : WF_vars(Body(p, c))

-----------------------------------------------------------------------------
(* Properties.                                                              *)

Range(s) == {s[i] : i \in DOMAIN s}

TypeOK ==
    /\ disk \in [Chunks -> {"absent", "torn", "whole"}]
    /\ writer \in [Chunks -> Procs \cup {Nobody}]
    /\ pc \in [Procs -> {"idle", "listing", "loading", "discarding", "waiting",
                         "done", "failed", "crashed"}]
    /\ calls \in [Procs -> 0 .. MaxCalls]
    /\ listed \in [Procs -> Nat] /\ count \in [Procs -> Nat]
    /\ cached \in [Procs -> Seq(Chunks)] /\ api \in [Procs -> Seq(Chunks)]
    /\ \A p \in Procs :
        /\ Len(cached[p]) + Len(api[p]) <= listed[p] /\ listed[p] <= Len(Required[p])
        /\ count[p] <= Len(Required[p])
    /\ task \in [Procs -> [Chunks -> Stages]]
    /\ cancelled \in [Procs -> BOOLEAN]
    /\ merged \in [Procs -> [Chunks -> {"nothing", "partial", "whole"}]]
    /\ failures \in 0 .. MaxFailures /\ crashes \in 0 .. MaxCrashes

\* A terrain that is returned has got something of every chunk the boundary
\* requires, whatever other processes did to the cache meanwhile and whatever was
\* left in it (DelaunayTriangulation.cpp:302-339, 474-487).
ReturnsEveryChunk ==
    \A p \in Procs : pc[p] = "done" => \A c \in Range(Required[p]) : merged[p][c] # "nothing"

\* When the call returns or throws no node's body is running: they hold references
\* to its locals boundary, chunkManager and masterTIN (:361, 377, 462, 475-484).
NoBodyOutlivesCall ==
    \A p \in Procs : pc[p] # "waiting" => \A c \in Chunks : task[p][c] \notin Running

\* A cache file is torn only while the process that opened it last is writing it,
\* or after a crash: an exception leaves none behind (ChunkCache.cpp:36-43,
\* MeshIO.cpp:44-61, DelaunayTriangulation.cpp:478-483).
TornOnlyByCrash ==
    \A c \in Chunks : disk[c] = "torn" /\ crashes = 0 =>
        writer[c] \in Procs /\ task[writer[c]][c] = "writing"

\* Whatever a crash or an exception left in the cache, running the program again
\* succeeds in the end (:329-338 "Delete the corrupted file").
RecoversFromTornCache == \A p \in Procs : <>(pc[p] = "done")
=============================================================================
