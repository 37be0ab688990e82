------------------------------ MODULE DagCache ------------------------------
(***************************************************************************)
(* The DAGs an Ethash pool verifies shares with.  EthashLight keeps one    *)
(* Cache object per epoch, evicts the least recently used one and          *)
(* generates the next epoch's in the background.  A Cache holds a handle   *)
(* of libethhash: a file per epoch, mapped into memory, filled node by     *)
(* node and sealed with a magic number, so that a later process can use it *)
(* without generating it again.                                            *)
(*                                                                         *)
(* Every connection submits one share at a time; its request, and the      *)
(* background generations it starts, run under a token that is cancelled   *)
(* when it disconnects.  One node stands for one per cent of a DAG, the    *)
(* part between two calls of the progress callback.  The etchash, ethashb3 *)
(* and ubqhash variants repeat this code, the Progpow family repeats the   *)
(* table without the files.                                                *)
(***************************************************************************)
EXTENDS Integers, Sequences, FiniteSets

CONSTANTS
    Conns,      \* stratum connections
    Warm,       \* epochs that passed before the model starts; 0 is a new pool
    MaxEpoch,   \* bound: the chain's last epoch
    Copies,     \* bound: Cache objects of one epoch alive at a time
    NumCaches,  \* EthashLight.numCaches, 3 (Setup and its default)
    DagSize,    \* nodes of a DAG
    MaxFaults   \* bound: disconnections that cancel something, failures of file
                \* operations, and ends of the process, taken together

ASSUME BoundsAssumption ==
    /\ Warm \in 0..NumCaches /\ Warm <= MaxEpoch
    /\ MaxEpoch \in Nat /\ Copies \in Nat \ {0} /\ MaxFaults \in Nat
    /\ NumCaches \in Nat \ {0} /\ DagSize \in Nat \ {0}

\* A Cache object: its Epoch and a number that tells apart those of one epoch.
Epochs == 0..MaxEpoch
Objects == Epochs \X (1..Copies)
None == <<0, 0>>
Epoch(o) == o[1]
Nodes == 1..DagSize
\* A background generation is identified by the object it generates.
Procs == Conns \cup Objects

ASSUME ConnsAssumption == Conns \cap (Objects \cup {None}) = {}

VARIABLES
    head,       \* epoch of the block the pool works on
    recent,     \* epochs in the table `caches`, least recently used first
    cached,     \* the Cache object of each epoch in the table, or None
    future,     \* the pre-generated object, or None
    handle,     \* objects with a handle
    generated,  \* objects with isGenerated
    owner,      \* who holds genLock of each object, or None
    progress,   \* nodes computed by the generation that holds genLock
    nodes,      \* nodes in the file of each epoch
    magic,      \* epochs whose file begins with the magic number
    stale,      \* <<epoch, why>>: DAGs that are mapped with no handle that refers to them
    pc,         \* where each request and each background generation is
    obj,        \* the object a request has got, or None
    startedBy,  \* the connection whose token a background generation has, or None
    cancelled,  \* requests and generations whose token is cancelled
    faults,     \* faults so far
    clobbered,  \* epochs whose file was emptied under another user (history)
    spare       \* objects created for an epoch that was in the table (history)

tableVars == <<recent, cached, future, spare>>
fileVars == <<nodes, magic, clobbered>>
objVars == <<handle, generated, owner, progress>>
vars == <<head, tableVars, objVars, fileVars, stale, pc, obj, startedBy, cancelled, faults>>

Target(p) == IF p \in Conns THEN obj[p] ELSE p

Fault == faults < MaxFaults /\ faults' = faults + 1

Nobody == [o \in Objects |-> None]
AllIdle == [p \in Procs |-> "idle"]

\* The pool has used a DAG in each of the epochs that passed.
Init ==
    /\ head = Warm /\ faults = 0 /\ clobbered = {} /\ stale = {}
    /\ magic = {e \in Epochs : e < Warm}
    /\ nodes = [e \in Epochs |-> IF e < Warm THEN Nodes ELSE {}]
    /\ recent = [i \in 1..Warm |-> i - 1]
    /\ cached = [e \in Epochs |-> IF e < Warm THEN <<e, 1>> ELSE None]
    /\ handle = {o \in Objects : Epoch(o) < Warm /\ o[2] = 1}
    /\ generated = handle /\ future = None /\ spare = {}
    /\ owner = Nobody /\ progress = [o \in Objects |-> 0] /\ startedBy = Nobody
    /\ pc = AllIdle /\ obj = [c \in Conns |-> None] /\ cancelled = {}

-----------------------------------------------------------------------------
(* EthashLight.GetCacheAsync, the section under cacheLock *)

\* Something refers to the object.
InUse(o) ==
    \/ o \in handle \/ o = future \/ o = cached[Epoch(o)] \/ pc[o] # "idle"
    \/ \E c \in Conns : obj[c] = o

\* new Cache(epoch, dagDir)
Create(o, e) ==
    /\ Epoch(o) = e /\ ~InUse(o)
    /\ \A x \in Objects : Epoch(x) = e /\ x[2] < o[2] => InUse(x)
    /\ generated' = generated \ {o}
    /\ spare' = IF cached[e] # None THEN spare \cup {o} ELSE spare \ {o}

\* Moves e to the end: LastUsed = DateTime.Now.
Touch(s, e) ==
    LET at == CHOOSE i \in DOMAIN s : s[i] = e
    IN  [i \in 1..Len(s) |-> IF i < at THEN s[i] ELSE IF i < Len(s) THEN s[i + 1] ELSE e]

\* Mutant of Full: the new cache is counted before it is added.
FullTooEarly == Len(recent) + 1 >= NumCaches

\* The table has reached its limit.
Full == Len(recent) >= NumCaches

\* ETHASH_DAG_MAGIC_NUM_SIZE: full->data points this far into the mapping.
MagicNumSize == 8
OsPageSize == 4096

\* munmap takes the address of a page; Linux refuses any other with EINVAL.
Unmaps(offset) == offset % OsPageSize = 0

Reasons == {"evicted", "given up"}

\* munmap(full->data, ...) on the mapping of o's file; its result is not looked at.
Unmap(o, why) ==
    stale' = IF Unmaps(MagicNumSize) THEN stale ELSE stale \cup {<<Epoch(o), why>>}

\* Mutant of Dispose: the native handle is not deleted.
NoDispose(o) == UNCHANGED <<handle, stale>>

\* Cache.Dispose: ethash_full_delete unmaps the DAG, closes its file and frees
\* the handle, if there is one; isGenerated stays set.
Dispose(o) ==
    IF o \in handle THEN handle' = handle \ {o} /\ Unmap(o, "evicted")
    ELSE UNCHANGED <<handle, stale>>

\* The loop runs at most once, since the table never exceeds the limit.
EvictAndAdd(o, e) ==
    LET old == Head(recent) IN
    IF Full
    THEN /\ recent' = Append(Tail(recent), e)
         /\ cached' = [cached EXCEPT ![old] = None, ![e] = o]
         /\ Dispose(cached[old])
    ELSE /\ recent' = Append(recent, e)
         /\ cached' = [cached EXCEPT ![e] = o]
         /\ UNCHANGED <<handle, stale>>

\* Mutant of FutureEpoch: the pre-generated cache is never recognised.
NoFuture == -1

\* The epoch of the pre-generated object, below all epochs if there is none.
FutureEpoch == IF future = None THEN -1 ELSE Epoch(future)

\* Shares for the current epoch, or for a job of the one before it.
Asks(c, e) ==
    /\ pc[c] = "idle" /\ c \notin cancelled
    /\ e \in {head - 1, head} /\ e >= 0

\* After the lock, GenerateAsync: if(handle == IntPtr.Zero).
AfterGet(o) == IF o \in handle THEN "compute" ELSE "wait"

Got(c, o) ==
    /\ obj' = [obj EXCEPT ![c] = o]
    /\ UNCHANGED <<head, owner, progress, fileVars, cancelled, faults>>

GetCached(c, e) ==
    /\ Asks(c, e) /\ cached[e] # None
    /\ FutureEpoch > e
    /\ recent' = Touch(recent, e)
    /\ pc' = [pc EXCEPT ![c] = AfterGet(cached[e])]
    /\ Got(c, cached[e])
    /\ UNCHANGED <<cached, future, startedBy, spare, handle, generated, stale>>

\* The future cache is used up or too old: a new one is generated in the
\* background, under the token of this request, and nobody awaits it.
GetCachedAndPregenerate(c, e) ==
    /\ Asks(c, e) /\ cached[e] # None
    /\ FutureEpoch <= e /\ e < MaxEpoch
    /\ recent' = Touch(recent, e)
    /\ \E o \in Objects :
        /\ Create(o, e + 1)
        /\ future' = o
        /\ startedBy' = [startedBy EXCEPT ![o] = c]
        /\ pc' = [pc EXCEPT ![c] = AfterGet(cached[e]), ![o] = "wait"]
    /\ Got(c, cached[e])
    /\ UNCHANGED <<cached, handle, stale>>

\* No cache in the table: the future one moves into it.
TakeFuture(c, e) ==
    /\ Asks(c, e) /\ cached[e] = None
    /\ FutureEpoch = e
    /\ EvictAndAdd(future, e)
    /\ future' = None
    /\ pc' = [pc EXCEPT ![c] = AfterGet(future)]
    /\ Got(c, future)
    /\ UNCHANGED <<startedBy, spare, generated>>

\* No cache in the table and no future one for this epoch.
CreateCache(c, e) ==
    /\ Asks(c, e) /\ cached[e] = None
    /\ FutureEpoch # e
    /\ \E o \in Objects :
        /\ Create(o, e)
        /\ EvictAndAdd(o, e)
        /\ Got(c, o)
    /\ pc' = [pc EXCEPT ![c] = "wait"]
    /\ UNCHANGED <<future, startedBy>>

-----------------------------------------------------------------------------
(* Cache.GenerateAsync and ethash_full_new *)

\* What follows a normal return of GenerateAsync, and an exception.
Returns(p) ==
    /\ pc' = [pc EXCEPT ![p] = IF p \in Conns THEN "compute" ELSE "idle"]
    /\ cancelled' = IF p \in Conns THEN cancelled ELSE cancelled \ {p}
    /\ startedBy' = IF p \in Conns THEN startedBy ELSE [startedBy EXCEPT ![p] = None]
    /\ UNCHANGED <<head, tableVars, obj, faults>>
Throws(p) ==
    /\ pc' = [pc EXCEPT ![p] = "idle"]
    /\ obj' = IF p \in Conns THEN [obj EXCEPT ![p] = None] ELSE obj
    /\ startedBy' = IF p \in Conns THEN startedBy ELSE [startedBy EXCEPT ![p] = None]
    /\ cancelled' = cancelled \ {p}
    /\ UNCHANGED <<head, tableVars>>

\* Task.Run with a cancelled token.
TaskCancelled(p) ==
    /\ pc[p] = "wait" /\ p \in cancelled
    /\ Throws(p)
    /\ UNCHANGED <<objVars, fileVars, stale, faults>>

\* Under genLock: somebody else has generated it.
AlreadyGenerated(p) ==
    LET o == Target(p) IN
    /\ pc[p] = "wait" /\ owner[o] = None
    /\ o \in generated \cup handle
    /\ Returns(p)
    /\ UNCHANGED <<objVars, fileVars, stale>>

\* Mutant of IsSealed: only the size of the file is compared.
HasSize(e) == nodes[e] # {}

\* The file exists, has the right size and begins with the magic number.
IsSealed(e) == e \in magic

\* ETHASH_IO_MEMO_MATCH: the file is complete and is mapped as it is.
MapFile(p) ==
    LET o == Target(p) IN
    /\ pc[p] = "wait" /\ owner[o] = None
    /\ o \notin generated \cup handle
    /\ IsSealed(Epoch(o))
    /\ handle' = handle \cup {o} /\ generated' = generated \cup {o}
    /\ Returns(p)
    /\ UNCHANGED <<owner, progress, fileVars, stale>>

\* Another object has the same file open.
SharesFile(o) ==
    \E x \in Objects \ {o} :
        Epoch(x) = Epoch(o) /\ (x \in handle \/ owner[x] # None)

\* fopen with "wb+" creates the file or empties it.
EmptyFile(o) ==
    LET e == Epoch(o) IN
    /\ nodes' = [nodes EXCEPT ![e] = {}]
    /\ clobbered' = IF SharesFile(o) THEN clobbered \cup {e} ELSE clobbered \ {e}
    /\ UNCHANGED magic

\* ETHASH_IO_MEMO_MISMATCH and _SIZE_MISMATCH: the file is created, or emptied,
\* extended to its size and mapped.
CreateFile(p) ==
    LET o == Target(p) IN
    /\ pc[p] = "wait" /\ owner[o] = None
    /\ o \notin generated \cup handle
    /\ ~IsSealed(Epoch(o))
    /\ EmptyFile(o)
    /\ owner' = [owner EXCEPT ![o] = p]
    /\ progress' = [progress EXCEPT ![o] = 0]
    /\ pc' = [pc EXCEPT ![p] = "generate"]
    /\ UNCHANGED <<head, tableVars, handle, generated, stale, obj, startedBy, cancelled, faults>>

\* Mutant of NodesLeft: one node too many.
NodesLeftInclusive(o) == progress[o] <= DagSize

NodesLeft(o) == progress[o] < DagSize

\* ethash_compute_full_data up to the next call of the callback.
ComputeNode(p) ==
    LET o == Target(p)
        e == Epoch(o) IN
    /\ pc[p] = "generate" /\ NodesLeft(o)
    /\ p \notin cancelled
    /\ progress' = [progress EXCEPT ![o] = @ + 1]
    /\ nodes' = [nodes EXCEPT ![e] = @ \cup {progress[o] + 1}]
    /\ UNCHANGED <<head, tableVars, handle, generated, owner, magic, clobbered, stale, pc, obj,
                   startedBy, cancelled, faults>>

\* genLock is left, with an exception or without.
Unlock(o) ==
    /\ owner' = [owner EXCEPT ![o] = None]
    /\ progress' = [progress EXCEPT ![o] = 0]

\* The callback reports the cancellation: the DAG is unmapped and its file closed
\* as it is.
Abort(p) ==
    LET o == Target(p) IN
    /\ pc[p] = "generate" /\ NodesLeft(o)
    /\ p \in cancelled
    /\ Unlock(o)
    /\ Unmap(o, "given up")
    /\ Throws(p)
    /\ UNCHANGED <<handle, generated, fileVars, faults>>

\* Mutant of SealAt: the magic number is written with the first node.
SealEarly(o) == progress[o] >= 1

\* The magic number is written after the last node.
SealAt(o) == progress[o] = DagSize

\* The magic number is written, the handle and isGenerated are set.
Seal(p) ==
    LET o == Target(p) IN
    /\ pc[p] = "generate" /\ SealAt(o)
    /\ magic' = magic \cup {Epoch(o)}
    /\ handle' = handle \cup {o} /\ generated' = generated \cup {o}
    /\ Unlock(o)
    /\ Returns(p)
    /\ UNCHANGED <<nodes, clobbered, stale>>

\* ethash_full_new returns NULL, which GenerateAsync turns into an exception:
\* opening or mapping the file fails, or extending or mapping it after it was
\* emptied, or seeking or writing when it is to be sealed.
OpenFails(p) ==
    LET o == Target(p) IN
    /\ Fault
    /\ pc[p] = "wait" /\ owner[o] = None /\ o \notin generated \cup handle
    /\ Throws(p)
    /\ UNCHANGED <<objVars, fileVars, stale>>
CreateFails(p) ==
    LET o == Target(p) IN
    /\ Fault
    /\ pc[p] = "wait" /\ owner[o] = None /\ o \notin generated \cup handle
    /\ ~IsSealed(Epoch(o))
    /\ EmptyFile(o)
    /\ Throws(p)
    /\ UNCHANGED <<objVars, stale>>
SealFails(p) ==
    LET o == Target(p) IN
    /\ Fault
    /\ pc[p] = "generate" /\ SealAt(o)
    /\ Unlock(o)
    /\ Unmap(o, "given up")
    /\ Throws(p)
    /\ UNCHANGED <<handle, generated, fileVars>>

-----------------------------------------------------------------------------
(* Cache.Compute *)

\* The native call ends and the share is answered.
Compute(c) ==
    /\ pc[c] = "compute"
    /\ pc' = [pc EXCEPT ![c] = "idle"]
    /\ obj' = [obj EXCEPT ![c] = None]
    /\ cancelled' = cancelled \ {c}
    /\ UNCHANGED <<head, tableVars, objVars, fileVars, stale, startedBy, faults>>

-----------------------------------------------------------------------------
(* Surroundings *)

\* The token of the connection is cancelled, for its request and for the
\* generations it has started.  The next request comes from a new connection.
Disconnect(c) ==
    LET busy == {p \in Procs : pc[p] # "idle" /\ (p = c \/ (p \in Objects /\ startedBy[p] = c))} IN
    /\ Fault /\ ~(busy \subseteq cancelled)
    /\ cancelled' = cancelled \cup busy
    /\ UNCHANGED <<head, tableVars, objVars, fileVars, stale, pc, obj, startedBy>>

\* An epoch lasts days, a request or a generation at most hours: when the next
\* epoch begins, shares of the current one have been submitted and nobody works
\* on the one before it any more.
NewEpoch ==
    /\ head < MaxEpoch /\ cached[head] # None
    /\ \A p \in Procs : pc[p] # "idle" => Epoch(Target(p)) >= head
    /\ head' = head + 1
    /\ UNCHANGED <<tableVars, objVars, fileVars, stale, pc, obj, startedBy, cancelled, faults>>

\* The process ends, and every mapping with it; the files stay as they are.
Crash ==
    /\ Fault
    /\ recent' = <<>> /\ cached' = [e \in Epochs |-> None]
    /\ handle' = {} /\ generated' = {} /\ future' = None /\ spare' = {} /\ stale' = {}
    /\ owner' = Nobody /\ progress' = [o \in Objects |-> 0] /\ startedBy' = Nobody
    /\ pc' = AllIdle /\ obj' = [c \in Conns |-> None] /\ cancelled' = {}
    /\ UNCHANGED <<head, fileVars>>

-----------------------------------------------------------------------------
GetCacheAsync(c) ==
    \E e \in Epochs :
        \/ GetCached(c, e) \/ GetCachedAndPregenerate(c, e)
        \/ TakeFuture(c, e) \/ CreateCache(c, e)

EnterLock(p) ==
    \/ AlreadyGenerated(p) \/ MapFile(p) \/ CreateFile(p)
    \/ OpenFails(p) \/ CreateFails(p)

GenerateAsync(p) ==
    \/ TaskCancelled(p) \/ EnterLock(p)
    \/ ComputeNode(p) \/ Abort(p) \/ Seal(p) \/ SealFails(p)

Next ==
    \/ \E c \in Conns : GetCacheAsync(c) \/ Compute(c) \/ Disconnect(c)
    \/ \E p \in Procs : GenerateAsync(p)
    \/ NewEpoch \/ Crash

Spec == Init /\ [][Next]_vars

-----------------------------------------------------------------------------
TypeOK ==
    /\ head \in 0..MaxEpoch
    /\ recent \in Seq(Epochs) /\ cached \in [Epochs -> Objects \cup {None}]
    /\ future \in Objects \cup {None}
    /\ handle \subseteq Objects /\ generated \subseteq Objects /\ spare \subseteq Objects
    /\ owner \in [Objects -> Procs \cup {None}] /\ progress \in [Objects -> 0..DagSize]
    /\ nodes \in [Epochs -> SUBSET Nodes]
    /\ magic \subseteq Epochs /\ clobbered \subseteq Epochs /\ stale \subseteq Epochs \X Reasons
    /\ pc \in [Procs -> {"idle", "wait", "generate", "compute"}]
    /\ obj \in [Conns -> Objects \cup {None}]
    /\ startedBy \in [Objects -> Conns \cup {None}]
    /\ cancelled \subseteq Procs /\ faults \in 0..MaxFaults

\* "after the DAG has been filled then we finalize it by writting the magic
\* number": a sealed file is complete, whatever was cancelled, failed or
\* crashed before, unless it was emptied while another object had it open.
MagicMeansComplete == \A e \in magic \ clobbered : nodes[e] = Nodes

\* No share is verified with a handle that is missing or was deleted by an
\* eviction in the meantime.
HandleAlive == \A c \in Conns : pc[c] = "compute" => obj[c] \in handle

\* No share is verified with a DAG that is not complete, with the same
\* exception.
CompleteDag ==
    \A c \in Conns : pc[c] = "compute" =>
        LET e == Epoch(obj[c]) IN e \in clobbered \/ nodes[e] = Nodes

\* Two generations write the same file only when one of them was started for
\* an epoch that was already in the table.
OneWriter ==
    \A x, y \in Objects :
        x # y /\ owner[x] # None /\ owner[y] # None /\ Epoch(x) = Epoch(y)
            => spare \cap {x, y} # {}

\* A handle, with the file it keeps open, can still be found and so be deleted by an
\* eviction, and its DAG is the only one of its epoch that is mapped for good: since
\* munmap fails (ethash_full_delete), an evicted DAG stays mapped, so an evicted epoch
\* must not come back.  The exceptions are objects that were pre-generated for an epoch
\* that was already in the table.
HandlesAreFound ==
    \A o \in handle \ spare :
        /\ o = future \/ cached[Epoch(o)] = o
        /\ <<Epoch(o), "evicted">> \notin stale
=============================================================================
