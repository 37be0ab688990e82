--------------------------- MODULE DagCacheProofs ---------------------------
(***************************************************************************)
(* Theorems about DagCache, for any number of connections, epochs, Cache   *)
(* objects and faults, any limit of the table and any size of a DAG.       *)
(***************************************************************************)
EXTENDS DagCache, SequenceTheorems, TLAPS

\* The types of what a generation and the check of a share use.
StateType ==
    /\ cached \in [Epochs -> Objects \cup {None}] /\ future \in Objects \cup {None}
    /\ handle \subseteq Objects /\ generated \subseteq Objects
    /\ owner \in [Objects -> Procs \cup {None}] /\ progress \in [Objects -> 0..DagSize]
    /\ nodes \in [Epochs -> SUBSET Nodes] /\ magic \subseteq Epochs /\ clobbered \subseteq Epochs
    /\ pc \in [Procs -> {"idle", "wait", "generate", "compute"}]
    /\ obj \in [Conns -> Objects \cup {None}]

\* A request has got an object, and who generates holds its lock.
LockInv ==
    \A p \in Procs :
        /\ pc[p] # "idle" => Target(p) \in Objects
        /\ pc[p] = "generate" => owner[Target(p)] = p

\* The nodes a generation has computed are in the file, unless the file was emptied
\* under another user; without a generation there are none.
ProgressInv ==
    \A o \in Objects :
        /\ owner[o] = None => progress[o] = 0
        /\ Epoch(o) \in clobbered \/ 1..progress[o] \subseteq nodes[Epoch(o)]

\* What was generated, or is used, is in a file with the magic number.
SealedInv ==
    /\ \A o \in handle \cup generated : Epoch(o) \in magic
    /\ \A c \in Conns : pc[c] = "compute" => Epoch(obj[c]) \in magic

DagInv == StateType /\ LockInv /\ ProgressInv /\ SealedInv /\ MagicMeansComplete

-----------------------------------------------------------------------------
\* None is no object, connections are no objects.
LEMMA ObjectFacts ==
    /\ \A o \in Objects : Epoch(o) \in Epochs /\ o \notin Conns
    /\ None \notin Objects /\ None \notin Procs
<1>1. \A o \in Objects : Epoch(o) \in Epochs
  BY DEF Objects, Epoch
<1>2. None \notin Objects
  BY BoundsAssumption DEF Objects, None
<1> QED
  BY <1>1, <1>2, ConnsAssumption DEF Procs

\* Who a process works for.
LEMMA TargetFacts ==
    /\ \A c \in Conns : Target(c) = obj[c]
    /\ \A o \in Objects : Target(o) = o
BY ObjectFacts DEF Target

\* A step of GetCacheAsync: request c gets o, another object may begin to be generated.
LEMMA GetStep ==
    ASSUME DagInv, NEW c \in Conns, NEW o \in Objects, pc[c] = "idle",
           obj' = [obj EXCEPT ![c] = o],
           pc' \in [Procs -> {"idle", "wait", "generate", "compute"}],
           pc'[c] \in {"wait", "compute"}, pc'[c] = "compute" => o \in handle,
           \A p \in Procs \ {c} : pc'[p] = pc[p] \/ (p \in Objects /\ pc'[p] = "wait"),
           handle' \subseteq handle, generated' \subseteq generated,
           cached' \in [Epochs -> Objects \cup {None}], future' \in Objects \cup {None},
           UNCHANGED <<owner, progress, fileVars>>
    PROVE  DagInv'
<1>1. StateType'
  BY DEF DagInv, StateType, fileVars
<1>2. LockInv'
  <2> SUFFICES ASSUME NEW p \in Procs
               PROVE  /\ pc'[p] # "idle" => Target(p)' \in Objects
                      /\ pc'[p] = "generate" => owner[Target(p)'] = p
    BY DEF LockInv
  <2>1. CASE p = c
    <3>1. Target(p)' = o
      BY <2>1 DEF DagInv, StateType, Target
    <3> QED
      BY <2>1, <3>1
  <2>2. CASE p \in Objects
    <3>1. Target(p)' = p /\ Target(p) = p /\ p # c
      BY <2>2, ObjectFacts DEF Target
    <3> QED
      BY <2>2, <3>1 DEF DagInv, LockInv
  <2>3. CASE p \in Conns \ {c}
    <3>1. Target(p)' = Target(p) /\ p \notin Objects
      BY <2>3, ObjectFacts DEF DagInv, StateType, Target
    <3> QED
      BY <2>3, <3>1 DEF DagInv, LockInv
  <2> QED
    BY <2>1, <2>2, <2>3 DEF Procs
<1>3. ProgressInv' /\ MagicMeansComplete'
  BY DEF DagInv, ProgressInv, MagicMeansComplete, fileVars
<1>4. SealedInv'
  <2>1. \A x \in (handle \cup generated)' : Epoch(x) \in magic
    BY DEF DagInv, SealedInv
  <2>2. ASSUME NEW d \in Conns, pc'[d] = "compute" PROVE Epoch(obj'[d]) \in magic
    <3>1. CASE d = c
      BY <2>2, <3>1 DEF DagInv, StateType, SealedInv
    <3>2. CASE d # c
      <4>1. pc[d] = "compute" /\ obj'[d] = obj[d]
        BY <2>2, <3>2, ObjectFacts DEF DagInv, StateType, Procs
      <4> QED
        BY <4>1 DEF DagInv, SealedInv
    <3> QED
      BY <3>1, <3>2
  <2> QED
    BY <2>1, <2>2 DEF SealedInv, fileVars
<1> QED
  BY <1>1, <1>2, <1>3, <1>4 DEF DagInv

\* GetCacheAsync
LEMMA GetCacheStep ==
    ASSUME DagInv, NEW c \in Conns, GetCacheAsync(c)
    PROVE  DagInv'
<1>0. PICK e \in Epochs :
        \/ GetCached(c, e) \/ GetCachedAndPregenerate(c, e)
        \/ TakeFuture(c, e) \/ CreateCache(c, e)
  BY DEF GetCacheAsync
<1>t. /\ pc \in [Procs -> {"idle", "wait", "generate", "compute"}] /\ c \in Procs
      /\ cached \in [Epochs -> Objects \cup {None}] /\ future \in Objects \cup {None}
  BY DEF DagInv, StateType, Procs
<1>1. CASE GetCached(c, e)
  <2>1. cached[e] \in Objects
    BY <1>1, <1>t DEF GetCached
  <2> QED
    BY <1>1, <1>t, <2>1, GetStep DEF GetCached, Asks, Got, AfterGet
<1>2. CASE GetCachedAndPregenerate(c, e)
  <2>1. cached[e] \in Objects
    BY <1>2, <1>t DEF GetCachedAndPregenerate
  <2>2. PICK o \in Objects :
          /\ Create(o, e + 1) /\ future' = o
          /\ pc' = [pc EXCEPT ![c] = AfterGet(cached[e]), ![o] = "wait"]
    BY <1>2 DEF GetCachedAndPregenerate
  <2>3. o # c /\ o \in Procs
    BY ObjectFacts DEF Procs
  <2>4. /\ pc' \in [Procs -> {"idle", "wait", "generate", "compute"}]
        /\ pc'[c] = AfterGet(cached[e])
        /\ \A p \in Procs \ {c} : pc'[p] = pc[p] \/ (p \in Objects /\ pc'[p] = "wait")
    BY <1>t, <2>2, <2>3 DEF AfterGet
  <2> QED
    BY <1>2, <1>t, <2>1, <2>2, <2>4, GetStep DEF GetCachedAndPregenerate, Asks, Got, AfterGet, Create
<1>a. ASSUME NEW o \in Objects, EvictAndAdd(o, e)
      PROVE  handle' \subseteq handle /\ cached' \in [Epochs -> Objects \cup {None}]
  BY <1>a, <1>t DEF EvictAndAdd, Dispose
<1>3. CASE TakeFuture(c, e)
  <2>1. future \in Objects
    <3>1. e # -1
      BY BoundsAssumption DEF Epochs
    <3> QED
      BY <1>3, <1>t, <3>1 DEF TakeFuture, FutureEpoch
  <2> QED
    BY <1>3, <1>t, <1>a, <2>1, GetStep DEF TakeFuture, Asks, Got, AfterGet
<1>4. CASE CreateCache(c, e)
  <2>1. PICK o \in Objects : Create(o, e) /\ EvictAndAdd(o, e) /\ Got(c, o)
    BY <1>4 DEF CreateCache
  <2> QED
    BY <1>4, <1>t, <1>a, <2>1, GetStep DEF CreateCache, Asks, Got, Create
<1> QED
  BY <1>0, <1>1, <1>2, <1>3, <1>4

-----------------------------------------------------------------------------
(* Cache.GenerateAsync *)

\* Process p goes on at x; if it held or takes the lock of its object, nobody else does.
LEMMA LockStep ==
    ASSUME DagInv, NEW p \in Procs, pc[p] # "idle",
           NEW x \in {"idle", "wait", "generate", "compute"}, pc' = [pc EXCEPT ![p] = x],
           \/ obj' = obj
           \/ p \in Conns /\ obj' = [obj EXCEPT ![p] = None] /\ x = "idle",
           pc[p] = "generate" \/ owner[Target(p)] = None \/ owner' = owner,
           \A o \in Objects \ {Target(p)} : owner'[o] = owner[o],
           x = "generate" => owner'[Target(p)] = p
    PROVE  LockInv'
<1>0. Target(p) \in Objects
  BY DEF DagInv, LockInv
<1> SUFFICES ASSUME NEW q \in Procs
             PROVE  /\ pc'[q] # "idle" => Target(q)' \in Objects
                    /\ pc'[q] = "generate" => owner'[Target(q)'] = q
  BY DEF LockInv
<1>1. CASE q = p
  <2>1. pc'[q] = x
    BY <1>1 DEF DagInv, StateType
  <2>2. x # "idle" => Target(q)' = Target(p)
    BY <1>1 DEF Target
  <2> QED
    BY <1>0, <1>1, <2>1, <2>2
<1>2. CASE q # p
  <2>1. pc'[q] = pc[q]
    BY <1>2 DEF DagInv, StateType
  <2>2. Target(q)' = Target(q)
    BY <1>2 DEF Target, DagInv, StateType
  <2>3. /\ pc[q] # "idle" => Target(q) \in Objects
        /\ pc[q] = "generate" => owner[Target(q)] = q
        /\ pc[p] = "generate" => owner[Target(p)] = p
    BY DEF DagInv, LockInv
  <2>4. pc[q] = "generate" => Target(q) # Target(p) \/ owner' = owner
    BY <1>2, <2>3, ObjectFacts
  <2> QED
    BY <2>1, <2>2, <2>3, <2>4
<1> QED
  BY <1>1, <1>2

\* What a process that returns or throws does to its own state.
LEMMA ExitFacts ==
    ASSUME DagInv, NEW p \in Procs, Returns(p) \/ Throws(p)
    PROVE  /\ pc' \in [Procs -> {"idle", "wait", "generate", "compute"}]
           /\ obj' \in [Conns -> Objects \cup {None}]
           /\ UNCHANGED <<cached, future>>
           /\ \E x \in {"idle", "compute"} :
                /\ pc' = [pc EXCEPT ![p] = x]
                /\ \/ obj' = obj
                   \/ p \in Conns /\ obj' = [obj EXCEPT ![p] = None] /\ x = "idle"
                /\ x = "compute" => p \in Conns /\ obj' = obj
           /\ Throws(p) => pc'[p] = "idle"
BY DEF Returns, Throws, DagInv, StateType, tableVars

\* The end of p's call keeps SealedInv if its object is in a sealed file.
LEMMA ExitSealed ==
    ASSUME DagInv, NEW p \in Procs, pc[p] # "idle", Returns(p) \/ Throws(p),
           Throws(p) \/ Epoch(Target(p)) \in magic',
           magic \subseteq magic', \A o \in handle' \cup generated' : Epoch(o) \in magic'
    PROVE  SealedInv'
<1> SUFFICES ASSUME NEW c \in Conns, pc'[c] = "compute" PROVE Epoch(obj'[c]) \in magic'
  BY DEF SealedInv
<1>1. PICK x \in {"idle", "compute"} :
        /\ pc' = [pc EXCEPT ![p] = x]
        /\ obj' = obj \/ (p \in Conns /\ obj' = [obj EXCEPT ![p] = None] /\ x = "idle")
        /\ x = "compute" => obj' = obj
  BY ExitFacts
<1>c. c \in Procs
  BY DEF Procs
<1>2. CASE c = p
  <2>1. ~Throws(p) /\ obj' = obj
    BY <1>1, <1>2, ExitFacts DEF DagInv, StateType
  <2> QED
    BY <1>2, <2>1, TargetFacts
<1>3. CASE c # p
  <2>1. pc[c] = "compute" /\ obj'[c] = obj[c]
    BY <1>1, <1>3, <1>c DEF DagInv, StateType
  <2> QED
    BY <2>1 DEF DagInv, SealedInv
<1> QED
  BY <1>2, <1>3

\* The lock is not taken, or was not needed: TaskCancelled, OpenFails, AlreadyGenerated
\* and MapFile.
LEMMA NoGenerationStep ==
    ASSUME DagInv, NEW p \in Procs,
           TaskCancelled(p) \/ OpenFails(p) \/ AlreadyGenerated(p) \/ MapFile(p)
    PROVE  DagInv'
<1> DEFINE o == Target(p)
<1>0. pc[p] = "wait" /\ o \in Objects
  BY DEF TaskCancelled, OpenFails, AlreadyGenerated, MapFile, DagInv, LockInv
<1>1. Returns(p) \/ Throws(p)
  BY DEF TaskCancelled, OpenFails, AlreadyGenerated, MapFile
<1>2. UNCHANGED <<owner, progress, fileVars>>
  BY DEF TaskCancelled, OpenFails, AlreadyGenerated, MapFile, objVars
<1>3. \/ UNCHANGED <<handle, generated>> /\ (Throws(p) \/ Epoch(o) \in magic)
      \/ handle' = handle \cup {o} /\ generated' = generated \cup {o} /\ Epoch(o) \in magic
  BY DEF TaskCancelled, OpenFails, AlreadyGenerated, MapFile, IsSealed, objVars, DagInv, SealedInv
<1>4. StateType'
  BY <1>0, <1>1, <1>2, <1>3, ExitFacts DEF DagInv, StateType, fileVars
<1>5. LockInv'
  BY <1>0, <1>1, <1>2, ExitFacts, LockStep
<1>6. ProgressInv' /\ MagicMeansComplete'
  BY <1>2 DEF DagInv, ProgressInv, MagicMeansComplete, fileVars
<1>7. SealedInv'
  <2>1. magic' = magic
    BY <1>2 DEF fileVars
  <2>2. \A x \in handle' \cup generated' : Epoch(x) \in magic'
    BY <1>3, <2>1 DEF DagInv, SealedInv
  <2> QED
    BY <1>0, <1>1, <1>3, <2>1, <2>2, ExitSealed
<1> QED
  BY <1>4, <1>5, <1>6, <1>7 DEF DagInv

\* The file is emptied before a generation of o begins; who else has it open is remembered.
LEMMA EmptyFileStep ==
    ASSUME DagInv, NEW o \in Objects, owner[o] = None, Epoch(o) \notin magic, EmptyFile(o),
           \A x \in Objects : progress'[x] = progress[x],
           \A x \in Objects \ {o} : owner'[x] = owner[x]
    PROVE  /\ nodes' \in [Epochs -> SUBSET Nodes] /\ clobbered' \subseteq Epochs /\ magic' = magic
           /\ ProgressInv' /\ MagicMeansComplete'
<1> DEFINE e == Epoch(o)
<1>0. /\ e \in Epochs /\ magic' = magic
      /\ nodes' = [nodes EXCEPT ![e] = {}]
      /\ clobbered' = IF SharesFile(o) THEN clobbered \cup {e} ELSE clobbered \ {e}
  BY ObjectFacts DEF EmptyFile
<1>1. nodes' \in [Epochs -> SUBSET Nodes] /\ clobbered' \subseteq Epochs
  BY <1>0 DEF DagInv, StateType
<1>2. ProgressInv'
  <2> SUFFICES ASSUME NEW x \in Objects
               PROVE  /\ owner'[x] = None => progress'[x] = 0
                      /\ Epoch(x) \in clobbered' \/ 1..progress'[x] \subseteq nodes'[Epoch(x)]
    BY DEF ProgressInv
  <2>0. progress'[x] = progress[x] /\ (owner[x] = None => progress[x] = 0)
    BY DEF DagInv, ProgressInv
  <2>1. CASE x = o
    <3>1. progress'[x] = 0 /\ 1..0 = {}
      BY <2>0, <2>1
    <3> QED
      BY <3>1
  <2>2. CASE x # o
    <3>1. owner'[x] = owner[x]
      BY <2>2
    <3>3. CASE Epoch(x) # e
      <4>1. nodes'[Epoch(x)] = nodes[Epoch(x)] /\ (Epoch(x) \in clobbered' <=> Epoch(x) \in clobbered)
        BY <1>0, <3>3, ObjectFacts DEF DagInv, StateType
      <4> QED
        BY <2>0, <3>1, <4>1 DEF DagInv, ProgressInv
    <3>4. CASE Epoch(x) = e /\ owner[x] # None
      <4>1. SharesFile(o)
        BY <2>2, <3>4 DEF SharesFile
      <4> QED
        BY <1>0, <3>1, <3>4, <4>1
    <3>5. CASE Epoch(x) = e /\ owner[x] = None
      <4>1. 1..progress'[x] = {}
        BY <2>0, <3>5
      <4> QED
        BY <2>0, <3>1, <4>1
    <3> QED
      BY <3>3, <3>4, <3>5
  <2> QED
    BY <2>1, <2>2
<1>3. MagicMeansComplete'
  <2>1. \A f \in magic' \ clobbered' : f \in magic \ clobbered /\ nodes'[f] = nodes[f]
    BY <1>0 DEF DagInv, StateType
  <2> QED
    BY <2>1 DEF DagInv, MagicMeansComplete
<1> QED
  BY <1>0, <1>1, <1>2, <1>3

\* CreateFile: the file is emptied and p begins to generate.
LEMMA CreateFileStep ==
    ASSUME DagInv, NEW p \in Procs, CreateFile(p)
    PROVE  DagInv'
<1> DEFINE o == Target(p)
<1>0. /\ pc[p] = "wait" /\ o \in Objects /\ owner[o] = None /\ Epoch(o) \notin magic
      /\ EmptyFile(o)
      /\ pc' = [pc EXCEPT ![p] = "generate"]
      /\ owner' = [owner EXCEPT ![o] = p] /\ progress' = [progress EXCEPT ![o] = 0]
      /\ UNCHANGED <<cached, future, handle, generated, obj>>
  BY DEF CreateFile, IsSealed, tableVars, DagInv, LockInv
<1>1. /\ \A x \in Objects : progress'[x] = progress[x]
      /\ \A x \in Objects \ {o} : owner'[x] = owner[x]
  BY <1>0 DEF DagInv, StateType, ProgressInv
<1>2. /\ nodes' \in [Epochs -> SUBSET Nodes] /\ clobbered' \subseteq Epochs /\ magic' = magic
      /\ ProgressInv' /\ MagicMeansComplete'
  BY <1>0, <1>1, EmptyFileStep
<1>3. StateType'
  <2>1. progress' \in [Objects -> 0..DagSize]
    BY <1>0, BoundsAssumption DEF DagInv, StateType
  <2> QED
    BY <1>0, <1>2, <2>1 DEF DagInv, StateType
<1>4. LockInv'
  BY <1>0, LockStep DEF DagInv, StateType
<1>5. SealedInv'
  <2>1. ASSUME NEW c \in Conns, pc'[c] = "compute" PROVE pc[c] = "compute"
    BY <1>0, <2>1 DEF DagInv, StateType, Procs
  <2> QED
    BY <1>0, <1>2, <2>1 DEF DagInv, SealedInv
<1> QED
  BY <1>2, <1>3, <1>4, <1>5 DEF DagInv

\* CreateFails: the file is emptied and the generation does not begin.
LEMMA CreateFailsStep ==
    ASSUME DagInv, NEW p \in Procs, CreateFails(p)
    PROVE  DagInv'
<1> DEFINE o == Target(p)
<1>0. /\ pc[p] = "wait" /\ o \in Objects /\ owner[o] = None /\ Epoch(o) \notin magic
      /\ EmptyFile(o) /\ Throws(p)
      /\ UNCHANGED <<handle, generated, owner, progress>>
  BY DEF CreateFails, IsSealed, objVars, DagInv, LockInv
<1>2. /\ nodes' \in [Epochs -> SUBSET Nodes] /\ clobbered' \subseteq Epochs /\ magic' = magic
      /\ ProgressInv' /\ MagicMeansComplete'
  BY <1>0, EmptyFileStep
<1>3. StateType'
  BY <1>0, <1>2, ExitFacts DEF DagInv, StateType
<1>4. LockInv'
  BY <1>0, ExitFacts, LockStep
<1>5. SealedInv'
  <2>1. \A x \in handle' \cup generated' : Epoch(x) \in magic'
    BY <1>0, <1>2 DEF DagInv, SealedInv
  <2> QED
    BY <1>0, <1>2, <2>1, ExitSealed
<1> QED
  BY <1>2, <1>3, <1>4, <1>5 DEF DagInv

\* ComputeNode: the next node is in the file.
LEMMA ComputeNodeStep ==
    ASSUME DagInv, NEW p \in Procs, ComputeNode(p)
    PROVE  DagInv'
<1> DEFINE o == Target(p)
           e == Epoch(o)
<1>0. /\ pc[p] = "generate" /\ o \in Objects /\ owner[o] = p /\ e \in Epochs
      /\ progress[o] < DagSize /\ progress' = [progress EXCEPT ![o] = progress[o] + 1]
      /\ nodes' = [nodes EXCEPT ![e] = nodes[e] \cup {progress[o] + 1}]
      /\ UNCHANGED <<cached, future, handle, generated, owner, magic, clobbered, pc, obj>>
  BY ObjectFacts DEF ComputeNode, NodesLeft, tableVars, DagInv, LockInv
<1>1. progress[o] \in Nat /\ progress[o] + 1 \in Nodes /\ progress[o] + 1 \in 0..DagSize
  BY <1>0, BoundsAssumption DEF DagInv, StateType, Nodes
<1>2. StateType'
  <2>1. nodes' \in [Epochs -> SUBSET Nodes]
    BY <1>0, <1>1 DEF DagInv, StateType
  <2>2. progress' \in [Objects -> 0..DagSize]
    BY <1>0, <1>1 DEF DagInv, StateType
  <2> QED
    BY <1>0, <2>1, <2>2 DEF DagInv, StateType
<1>3. LockInv'
  BY <1>0 DEF DagInv, LockInv, Target
<1>4. \A f \in Epochs : nodes[f] \subseteq nodes'[f]
  BY <1>0 DEF DagInv, StateType
<1>5. ProgressInv'
  <2> SUFFICES ASSUME NEW x \in Objects
               PROVE  /\ owner[x] = None => progress'[x] = 0
                      /\ Epoch(x) \in clobbered \/ 1..progress'[x] \subseteq nodes'[Epoch(x)]
    BY <1>0 DEF ProgressInv
  <2>1. CASE x # o
    <3>1. progress'[x] = progress[x] /\ Epoch(x) \in Epochs
      BY <1>0, <2>1, ObjectFacts DEF DagInv, StateType
    <3> QED
      BY <1>4, <3>1 DEF DagInv, ProgressInv
  <2>2. CASE x = o
    <3>1. progress'[x] = progress[o] + 1 /\ nodes'[e] = nodes[e] \cup {progress[o] + 1}
      BY <1>0, <2>2 DEF DagInv, StateType
    <3>2. owner[x] # None
      BY <1>0, <2>2, ObjectFacts
    <3>3. Epoch(x) \in clobbered \/ 1..progress[o] \subseteq nodes[e]
      BY <2>2 DEF DagInv, ProgressInv
    <3>4. 1..(progress[o] + 1) = 1..progress[o] \cup {progress[o] + 1}
      BY <1>1
    <3> QED
      BY <2>2, <3>1, <3>2, <3>3, <3>4
  <2> QED
    BY <2>1, <2>2
<1>6. SealedInv'
  BY <1>0 DEF DagInv, SealedInv
<1>7. MagicMeansComplete'
  <2>1. \A f \in magic \ clobbered : nodes[f] = Nodes /\ nodes'[f] \subseteq Nodes /\ f \in Epochs
    BY <1>2 DEF DagInv, MagicMeansComplete, StateType
  <2> QED
    BY <1>0, <1>4, <2>1 DEF MagicMeansComplete
<1> QED
  BY <1>2, <1>3, <1>5, <1>6, <1>7 DEF DagInv

\* The end of a generation: Abort, SealFails and Seal.
LEMMA EndStep ==
    ASSUME DagInv, NEW p \in Procs, Abort(p) \/ SealFails(p) \/ Seal(p)
    PROVE  DagInv'
<1> DEFINE o == Target(p)
           e == Epoch(o)
<1>0. /\ pc[p] = "generate" /\ o \in Objects /\ owner[o] = p /\ e \in Epochs
      /\ owner' = [owner EXCEPT ![o] = None] /\ progress' = [progress EXCEPT ![o] = 0]
      /\ UNCHANGED <<nodes, clobbered>>
  BY ObjectFacts DEF Abort, SealFails, Seal, Unlock, fileVars, DagInv, LockInv
<1>1. Returns(p) \/ Throws(p)
  BY DEF Abort, SealFails, Seal
<1>2. \/ UNCHANGED <<handle, generated, magic>> /\ Throws(p)
      \/ /\ handle' = handle \cup {o} /\ generated' = generated \cup {o} /\ magic' = magic \cup {e}
         /\ progress[o] = DagSize
  BY DEF Abort, SealFails, Seal, SealAt, fileVars
<1>3. StateType'
  <2>1. progress' \in [Objects -> 0..DagSize]
    BY <1>0, BoundsAssumption DEF DagInv, StateType
  <2>2. owner' \in [Objects -> Procs \cup {None}]
    BY <1>0 DEF DagInv, StateType
  <2>3. handle' \subseteq Objects /\ generated' \subseteq Objects /\ magic' \subseteq Epochs
    BY <1>0, <1>2 DEF DagInv, StateType
  <2> QED
    BY <1>0, <1>1, <2>1, <2>2, <2>3, ExitFacts DEF DagInv, StateType
<1>4. LockInv'
  BY <1>0, <1>1, ExitFacts, LockStep DEF DagInv, StateType
<1>5. ProgressInv'
  <2> SUFFICES ASSUME NEW x \in Objects
               PROVE  /\ owner'[x] = None => progress'[x] = 0
                      /\ Epoch(x) \in clobbered \/ 1..progress'[x] \subseteq nodes[Epoch(x)]
    BY <1>0 DEF ProgressInv
  <2>1. CASE x # o
    <3>1. progress'[x] = progress[x] /\ owner'[x] = owner[x]
      BY <1>0, <2>1 DEF DagInv, StateType
    <3> QED
      BY <3>1 DEF DagInv, ProgressInv
  <2>2. CASE x = o
    <3>1. progress'[x] = 0 /\ 1..0 = {}
      BY <1>0, <2>2 DEF DagInv, StateType
    <3> QED
      BY <3>1
  <2> QED
    BY <2>1, <2>2
<1>6. SealedInv'
  <2>1. magic \subseteq magic' /\ (Throws(p) \/ e \in magic')
    BY <1>2
  <2>2. \A x \in handle' \cup generated' : Epoch(x) \in magic'
    BY <1>2 DEF DagInv, SealedInv
  <2> QED
    BY <1>0, <1>1, <2>1, <2>2, ExitSealed
<1>7. MagicMeansComplete'
  <2>1. progress[o] = DagSize /\ e \notin clobbered => nodes[e] = Nodes
    BY <1>0 DEF DagInv, ProgressInv, StateType, Nodes
  <2> QED
    BY <1>0, <1>2, <2>1 DEF DagInv, MagicMeansComplete
<1> QED
  BY <1>3, <1>4, <1>5, <1>6, <1>7 DEF DagInv

-----------------------------------------------------------------------------
(* The theorems *)

\* Before the first request the files of the epochs that passed are complete.
LEMMA DagInit == Init => DagInv
<1> SUFFICES ASSUME Init PROVE DagInv
  OBVIOUS
<1>1. StateType
  <2>1. \A f \in Epochs : <<f, 1>> \in Objects
    BY BoundsAssumption DEF Objects
  <2>2. cached \in [Epochs -> Objects \cup {None}]
    BY <2>1 DEF Init
  <2>3. progress \in [Objects -> 0..DagSize] /\ owner \in [Objects -> Procs \cup {None}]
    BY BoundsAssumption DEF Init, Nobody
  <2>4. pc \in [Procs -> {"idle", "wait", "generate", "compute"}] /\ obj \in [Conns -> Objects \cup {None}]
    BY DEF Init, AllIdle
  <2> QED
    BY <2>2, <2>3, <2>4 DEF Init, StateType
<1>2. LockInv
  BY DEF Init, LockInv, AllIdle
<1>3. ProgressInv
  <2>1. \A o \in Objects : progress[o] = 0
    BY DEF Init
  <2>2. 1..0 = {}
    OBVIOUS
  <2> QED
    BY <2>1, <2>2 DEF ProgressInv
<1>4. SealedInv
  BY ObjectFacts DEF Init, SealedInv, AllIdle, Procs
<1>5. MagicMeansComplete
  BY DEF Init, MagicMeansComplete
<1> QED
  BY <1>1, <1>2, <1>3, <1>4, <1>5 DEF DagInv

\* Every step keeps the invariant.
LEMMA DagStep ==
    ASSUME DagInv, [Next]_vars
    PROVE  DagInv'
<1>1. ASSUME NEW c \in Conns, GetCacheAsync(c) PROVE DagInv'
  BY <1>1, GetCacheStep
<1>2. ASSUME NEW c \in Conns, Compute(c) PROVE DagInv'
  <2>0. /\ c \in Procs /\ pc[c] = "compute"
        /\ pc' = [pc EXCEPT ![c] = "idle"] /\ obj' = [obj EXCEPT ![c] = None]
        /\ UNCHANGED <<tableVars, objVars, fileVars>>
    BY <1>2 DEF Compute, Procs
  <2>1. StateType'
    BY <2>0 DEF DagInv, StateType, tableVars, objVars, fileVars
  <2>2. LockInv'
    BY <2>0, LockStep DEF objVars
  <2>3. ProgressInv' /\ MagicMeansComplete'
    BY <2>0 DEF DagInv, ProgressInv, MagicMeansComplete, objVars, fileVars
  <2>4. SealedInv'
    BY <2>0 DEF DagInv, StateType, SealedInv, objVars, fileVars, Procs
  <2> QED
    BY <2>1, <2>2, <2>3, <2>4 DEF DagInv
<1>3. ASSUME NEW p \in Procs, GenerateAsync(p) PROVE DagInv'
  BY <1>3, NoGenerationStep, CreateFileStep, CreateFailsStep, ComputeNodeStep, EndStep DEF GenerateAsync, EnterLock
<1>4. CASE Crash
  <2>0. /\ pc' = AllIdle /\ obj' = [c \in Conns |-> None]
        /\ cached' = [f \in Epochs |-> None] /\ future' = None
        /\ handle' = {} /\ generated' = {} /\ owner' = Nobody /\ progress' = [o \in Objects |-> 0]
        /\ UNCHANGED <<nodes, magic, clobbered>>
    BY <1>4 DEF Crash, fileVars
  <2>1. StateType'
    <3>1. progress' \in [Objects -> 0..DagSize] /\ owner' \in [Objects -> Procs \cup {None}]
      BY <2>0, BoundsAssumption DEF Nobody
    <3>2. pc' \in [Procs -> {"idle", "wait", "generate", "compute"}]
      BY <2>0 DEF AllIdle
    <3> QED
      BY <2>0, <3>1, <3>2 DEF DagInv, StateType
  <2>2. LockInv'
    BY <2>0 DEF LockInv, AllIdle
  <2>3. ProgressInv'
    <3>1. \A o \in Objects : progress'[o] = 0
      BY <2>0
    <3>2. 1..0 = {}
      OBVIOUS
    <3> QED
      BY <3>1, <3>2 DEF ProgressInv
  <2>4. SealedInv' /\ MagicMeansComplete'
    BY <2>0 DEF DagInv, SealedInv, MagicMeansComplete, AllIdle, Procs
  <2> QED
    BY <2>1, <2>2, <2>3, <2>4 DEF DagInv
<1>5. ASSUME UNCHANGED <<tableVars, objVars, fileVars, pc, obj>> PROVE DagInv'
  <2>1. StateType'
    BY <1>5 DEF DagInv, StateType, tableVars, objVars, fileVars
  <2>2. LockInv'
    BY <1>5 DEF DagInv, LockInv, Target, objVars
  <2>3. ProgressInv' /\ SealedInv' /\ MagicMeansComplete'
    BY <1>5 DEF DagInv, ProgressInv, SealedInv, MagicMeansComplete, objVars, fileVars
  <2> QED
    BY <2>1, <2>2, <2>3 DEF DagInv
<1>6. ASSUME NEW c \in Conns, Disconnect(c) PROVE DagInv'
  BY <1>5, <1>6 DEF Disconnect
<1>7. CASE NewEpoch
  BY <1>5, <1>7 DEF NewEpoch
<1>8. CASE UNCHANGED vars
  BY <1>5, <1>8 DEF vars
<1> QED
  BY <1>1, <1>2, <1>3, <1>4, <1>6, <1>7, <1>8 DEF Next

\* DagInv holds in every reachable state.
THEOREM DagInvariance == Spec => []DagInv
<1>1. DagInv /\ [Next]_vars => DagInv'
  BY DagStep
<1> QED
  BY DagInit, <1>1, PTL DEF Spec

\* A DAG file with the magic number is complete whatever ethash_full_new was interrupted
\* by, unless two generations had the file open at once.
THEOREM SealedFilesComplete == Spec => []MagicMeansComplete
<1>1. DagInv => MagicMeansComplete
  BY DEF DagInv
<1> QED
  BY DagInvariance, <1>1, PTL

\* Cache.Compute never works on a DAG with missing nodes, with the same exception.
THEOREM SharesMeetCompleteDags == Spec => []CompleteDag
<1>1. DagInv => CompleteDag
  <2> SUFFICES ASSUME DagInv, NEW c \in Conns, pc[c] = "compute", Epoch(obj[c]) \notin clobbered
               PROVE  nodes[Epoch(obj[c])] = Nodes
    BY DEF CompleteDag
  <2> QED
    BY DEF DagInv, SealedInv, MagicMeansComplete
<1> QED
  BY DagInvariance, <1>1, PTL

-----------------------------------------------------------------------------
(* The table `caches`.  Its state is typed, it lists each epoch once, and      *)
(* epochs are out of order only by one: a share for the epoch before the       *)
(* current one may come after a share for the current one.                     *)

\* The types of what DagInv does not need.
RestType ==
    /\ head \in Epochs /\ recent \in Seq(Epochs) /\ spare \subseteq Objects
    /\ startedBy \in [Objects -> Conns \cup {None}]
    /\ cancelled \subseteq Procs /\ faults \in 0..MaxFaults

\* An object is filed under its own epoch.
Filed == \A e \in Epochs : cached[e] # None => Epoch(cached[e]) = e

\* The list by last use has the epochs of the table.
Listed == \A e \in Epochs : cached[e] # None <=> \E i \in 1..Len(recent) : recent[i] = e

InOrder ==
    \A i, j \in 1..Len(recent) : i < j => recent[i] # recent[j] /\ recent[i] <= recent[j] + 1

NotAhead == \A i \in 1..Len(recent) : recent[i] <= head

TableInv == RestType /\ Filed /\ Listed /\ InOrder /\ NotAhead

\* Touch moves an epoch of the list to its end.
LEMMA TouchFacts ==
    ASSUME NEW s \in Seq(Epochs), NEW e \in Epochs, \E k \in 1..Len(s) : s[k] = e
    PROVE  /\ Touch(s, e) \in Seq(Epochs) /\ Len(Touch(s, e)) = Len(s)
           /\ \E at \in 1..Len(s) :
                /\ s[at] = e
                /\ \A i \in 1..Len(s) :
                     Touch(s, e)[i] = IF i < at THEN s[i] ELSE IF i < Len(s) THEN s[i + 1] ELSE e
<1> DEFINE at == CHOOSE i \in DOMAIN s : s[i] = e
           t == [i \in 1..Len(s) |-> IF i < at THEN s[i] ELSE IF i < Len(s) THEN s[i + 1] ELSE e]
<1>1. at \in 1..Len(s) /\ s[at] = e
  OBVIOUS
<1>2. Touch(s, e) = t
  BY DEF Touch
<1>h. HIDE DEF at
<1>3. \A i \in 1..Len(s) : t[i] \in Epochs
  BY <1>1
<1>4. t \in [1..Len(s) -> Epochs] /\ Len(s) \in Nat
  BY <1>3
<1>5. t \in Seq(Epochs) /\ Len(t) = Len(s)
  BY <1>4
<1> QED
  BY <1>1, <1>2, <1>5

\* GetCacheAsync finds the epoch in the table.
LEMMA TouchKeepsTable ==
    ASSUME TableInv, NEW e \in Epochs, e \in {head - 1, head}, cached[e] # None,
           recent' = Touch(recent, e), UNCHANGED <<cached, head>>
    PROVE  recent' \in Seq(Epochs) /\ Filed' /\ Listed' /\ InOrder' /\ NotAhead'
<1>0. recent \in Seq(Epochs) /\ Len(recent) \in Nat /\ head \in Epochs /\ Epochs \subseteq Int
  BY DEF TableInv, RestType, Epochs
<1>1. \E k \in 1..Len(recent) : recent[k] = e
  BY DEF TableInv, Listed
<1>2. recent' \in Seq(Epochs) /\ Len(recent') = Len(recent)
  BY <1>0, <1>1, TouchFacts
<1>3. PICK at \in 1..Len(recent) :
        /\ recent[at] = e
        /\ \A i \in 1..Len(recent) :
             recent'[i] = IF i < at THEN recent[i] ELSE IF i < Len(recent) THEN recent[i + 1] ELSE e
  BY <1>0, <1>1, TouchFacts
<1>4. \A i \in 1..Len(recent) : recent[i] \in Epochs /\ recent[i] <= head
  BY <1>0 DEF TableInv, NotAhead
<1>5. NotAhead'
  BY <1>0, <1>2, <1>3, <1>4 DEF NotAhead
<1>6. InOrder'
  <2> SUFFICES ASSUME NEW i \in 1..Len(recent), NEW j \in 1..Len(recent), i < j
               PROVE  recent'[i] # recent'[j] /\ recent'[i] <= recent'[j] + 1
    BY <1>2 DEF InOrder
  <2>1. PICK k \in 1..Len(recent) : k # at /\ recent'[i] = recent[k] /\ (k = i \/ k = i + 1)
                                    /\ (k = i <=> i < at)
    <3>1. CASE i < at
      BY <1>3, <3>1
    <3>2. CASE ~(i < at)
      <4>1. i + 1 \in 1..Len(recent) /\ i + 1 # at /\ i + 1 # i
        BY <1>0, <3>2
      <4> QED
        BY <1>0, <1>3, <3>2, <4>1
    <3> QED
      BY <3>1, <3>2
  <2>2. CASE j = Len(recent)
    <3>1. recent'[j] = e
      BY <1>0, <1>3, <2>2
    <3>2. recent[k] # e
      BY <1>0, <1>3, <2>1 DEF TableInv, InOrder
    <3>3. recent[k] \in Int /\ recent[k] <= head /\ head \in Int /\ e \in Int /\ head <= e + 1
      BY <1>0, <1>4, BoundsAssumption DEF Epochs
    <3>4. recent'[i] = recent[k]
      BY <2>1
    <3> QED
      BY <3>1, <3>2, <3>3, <3>4
  <2>3. CASE j < Len(recent)
    <3>1. PICK l \in 1..Len(recent) : recent'[j] = recent[l] /\ (l = j \/ l = j + 1) /\ (l = j <=> j < at)
      <4>1. CASE j < at
        BY <1>3, <4>1
      <4>2. CASE ~(j < at)
        <5>1. j + 1 \in 1..Len(recent) /\ j + 1 # j
          BY <1>0, <2>3
        <5> QED
          BY <1>0, <1>3, <2>3, <4>2, <5>1
      <4> QED
        BY <4>1, <4>2
    <3>2. k < l
      BY <1>0, <2>1, <3>1
    <3> QED
      BY <2>1, <3>1, <3>2 DEF TableInv, InOrder
  <2> QED
    BY <1>0, <2>2, <2>3
<1>7. Listed'
  <2>1. ASSUME NEW f \in Epochs, NEW i \in 1..Len(recent), recent[i] = f
        PROVE  \E k \in 1..Len(recent) : recent'[k] = f
    <3>1. CASE i < at
      BY <1>3, <2>1, <3>1
    <3>2. CASE i = at
      <4>1. Len(recent) \in 1..Len(recent) /\ recent'[Len(recent)] = e
        BY <1>0, <1>3
      <4> QED
        BY <1>3, <2>1, <3>2, <4>1
    <3>3. CASE i > at
      <4>1. i - 1 \in 1..Len(recent) /\ ~(i - 1 < at) /\ i - 1 < Len(recent) /\ (i - 1) + 1 = i
        BY <1>0, <3>3
      <4> QED
        BY <1>3, <2>1, <4>1
    <3> QED
      BY <1>0, <3>1, <3>2, <3>3
  <2>2. ASSUME NEW i \in 1..Len(recent) PROVE \E k \in 1..Len(recent) : recent[k] = recent'[i]
    <3>1. i < Len(recent) => i + 1 \in 1..Len(recent)
      BY <1>0
    <3> QED
      BY <1>0, <1>3, <3>1
  <2>3. ASSUME NEW f \in Epochs
        PROVE  (\E i \in 1..Len(recent) : recent[i] = f) <=> (\E i \in 1..Len(recent) : recent'[i] = f)
    BY <2>1, <2>2
  <2> QED
    BY <1>2, <2>3 DEF TableInv, Listed
<1> QED
  BY <1>2, <1>5, <1>6, <1>7 DEF TableInv, Filed

\* The list without its first epoch, and with another one at the end.
LEMMA AddFacts ==
    ASSUME NEW s \in Seq(Epochs), NEW e \in Epochs, NEW d \in {0, 1}, d <= Len(s),
           NEW t, t = IF d = 1 THEN Append(Tail(s), e) ELSE Append(s, e)
    PROVE  /\ t \in Seq(Epochs) /\ Len(t) = Len(s) + 1 - d
           /\ \A i \in 1..Len(t) : t[i] = IF i = Len(t) THEN e ELSE s[i + d]
<1>0. ASSUME NEW u \in Seq(Epochs)
      PROVE  /\ Append(u, e) \in Seq(Epochs) /\ Len(Append(u, e)) = Len(u) + 1
             /\ \A i \in 1..(Len(u) + 1) : Append(u, e)[i] = IF i = Len(u) + 1 THEN e ELSE u[i]
  OBVIOUS
<1>1. CASE d = 1
  <2>1. PICK u \in Seq(Epochs) :
          u = Tail(s) /\ Len(u) = Len(s) - 1 /\ \A i \in 1..Len(u) : u[i] = s[i + 1]
    <3>1. s # << >>
      BY <1>1
    <3>2. /\ Tail(s) \in Seq(Epochs) /\ Len(Tail(s)) = Len(s) - 1
          /\ \A i \in 1..Len(Tail(s)) : Tail(s)[i] = s[i + 1]
      BY <3>1, HeadTailProperties
    <3> QED
      BY <3>2, Zenon
  <2>2. t = Append(u, e)
    BY <1>1, <2>1
  <2>3. Len(u) \in Nat /\ Len(s) \in Nat
    OBVIOUS
  <2>4. \A i \in 1..(Len(u) + 1) : i # Len(u) + 1 => i \in 1..Len(u)
    BY <2>3
  <2>5. Len(t) = Len(u) + 1 /\ Len(t) = Len(s) + 1 - d /\ t \in Seq(Epochs)
    BY <1>0, <1>1, <2>1, <2>2, <2>3
  <2>6. \A i \in 1..(Len(u) + 1) : t[i] = IF i = Len(u) + 1 THEN e ELSE u[i]
    BY <1>0, <2>2, Zenon
  <2> QED
    BY <1>1, <2>1, <2>4, <2>5, <2>6
<1>2. CASE d = 0
  BY <1>2
<1> QED
  BY <1>1, <1>2

\* An object is added for an epoch that was not in the table; the least recently used one
\* leaves a full table.
LEMMA AddKeepsTable ==
    ASSUME TableInv, cached \in [Epochs -> Objects \cup {None}],
           NEW e \in Epochs, e \in {head - 1, head}, cached[e] = None,
           NEW o \in Objects, Epoch(o) = e, EvictAndAdd(o, e), UNCHANGED head
    PROVE  recent' \in Seq(Epochs) /\ Filed' /\ Listed' /\ InOrder' /\ NotAhead'
<1> DEFINE d == IF Full THEN 1 ELSE 0
<1>0. /\ recent \in Seq(Epochs) /\ Len(recent) \in Nat
      /\ \A i \in 1..Len(recent) : recent[i] \in Epochs /\ recent[i] \in Int /\ recent[i] <= head
      /\ e \in Int /\ head \in Int /\ head <= e + 1 /\ e <= head
  BY BoundsAssumption DEF TableInv, RestType, NotAhead, Epochs
<1>1. d \in {0, 1} /\ d <= Len(recent) /\ (Full => d = 1) /\ (~Full => d = 0)
  BY <1>0, BoundsAssumption DEF Full
<1>2. recent' = IF d = 1 THEN Append(Tail(recent), e) ELSE Append(recent, e)
  BY DEF EvictAndAdd
<1>3. /\ Full => Head(recent) = recent[1] /\ 1 \in 1..Len(recent)
      /\ cached' = IF Full THEN [cached EXCEPT ![Head(recent)] = None, ![e] = o]
                           ELSE [cached EXCEPT ![e] = o]
  BY <1>0, <1>1, BoundsAssumption DEF EvictAndAdd, Full
<1>h. HIDE DEF d
<1>4. /\ recent' \in Seq(Epochs) /\ Len(recent') = Len(recent) + 1 - d
      /\ \A i \in 1..Len(recent') : recent'[i] = IF i = Len(recent') THEN e ELSE recent[i + d]
  BY <1>0, <1>1, <1>2, AddFacts
<1>5. \A i \in 1..Len(recent') : i # Len(recent') => i + d \in 1..Len(recent)
  BY <1>0, <1>1, <1>4
<1>6. \A i \in 1..Len(recent) : recent[i] # e
  BY DEF TableInv, Listed
<1>7. NotAhead'
  BY <1>0, <1>4, <1>5 DEF NotAhead
<1>8. InOrder'
  <2> SUFFICES ASSUME NEW i \in 1..Len(recent'), NEW j \in 1..Len(recent'), i < j
               PROVE  recent'[i] # recent'[j] /\ recent'[i] <= recent'[j] + 1
    BY DEF InOrder
  <2>1. i # Len(recent') /\ i + d \in 1..Len(recent) /\ recent'[i] = recent[i + d]
    BY <1>0, <1>1, <1>4, <1>5
  <2>2. CASE j = Len(recent')
    <3>1. recent'[j] = e
      BY <1>4, <2>2
    <3> QED
      BY <1>0, <1>6, <2>1, <3>1
  <2>3. CASE j # Len(recent')
    <3>1. j + d \in 1..Len(recent) /\ recent'[j] = recent[j + d] /\ i + d < j + d
      BY <1>1, <1>4, <1>5, <2>3
    <3> QED
      BY <2>1, <3>1 DEF TableInv, InOrder
  <2> QED
    BY <2>2, <2>3
<1>9. Filed'
  <2>1. ASSUME NEW f \in Epochs, cached'[f] # None PROVE Epoch(cached'[f]) = f
    BY <1>3, <2>1 DEF TableInv, Filed
  <2> QED
    BY <2>1 DEF Filed
<1>10. Listed'
  <2> SUFFICES ASSUME NEW f \in Epochs
               PROVE  cached'[f] # None <=> \E i \in 1..Len(recent') : recent'[i] = f
    BY DEF Listed
  <2>0. Len(recent') \in 1..Len(recent') /\ recent'[Len(recent')] = e /\ None \notin Objects
    BY <1>0, <1>1, <1>4, ObjectFacts
  <2>1. CASE f = e
    BY <1>3, <2>0, <2>1
  <2>2. CASE f # e /\ Full /\ f = recent[1]
    <3>1. cached'[f] = None
      BY <1>3, <2>2
    <3>2. ASSUME NEW i \in 1..Len(recent'), recent'[i] = f PROVE FALSE
      <4>1. i # Len(recent') /\ i + 1 \in 1..Len(recent) /\ recent[i + 1] = f
        BY <1>1, <1>4, <1>5, <2>0, <2>2, <3>2
      <4>2. 1 \in 1..Len(recent) /\ 1 < i + 1
        BY <1>3, <2>2, <3>2
      <4> QED
        BY <2>2, <4>1, <4>2 DEF TableInv, InOrder
    <3> QED
      BY <3>1, <3>2
  <2>3. CASE f # e /\ (Full => f # recent[1])
    <3>1. cached'[f] = cached[f]
      BY <1>3, <2>3
    <3>2. ASSUME NEW i \in 1..Len(recent), recent[i] = f PROVE \E k \in 1..Len(recent') : recent'[k] = f
      <4>1. i - d \in 1..Len(recent') /\ i - d # Len(recent') /\ (i - d) + d = i
        BY <1>0, <1>1, <1>4, <2>3, <3>2
      <4> QED
        BY <1>4, <3>2, <4>1
    <3>3. ASSUME NEW i \in 1..Len(recent'), recent'[i] = f PROVE \E k \in 1..Len(recent) : recent[k] = f
      BY <1>4, <1>5, <2>3, <3>3
    <3>4. cached[f] # None <=> \E i \in 1..Len(recent) : recent[i] = f
      BY DEF TableInv, Listed
    <3> QED
      BY <3>1, <3>2, <3>3, <3>4
  <2> QED
    BY <2>1, <2>2, <2>3
<1> QED
  BY <1>4, <1>7, <1>8, <1>9, <1>10

\* A table of three or more evicts an epoch for which no shares come any more.
LEMMA EvictsOld ==
    ASSUME NumCaches >= 3, TableInv, NEW e \in Epochs, e \in {head - 1, head}, cached[e] = None, Full
    PROVE  Head(recent) \in Epochs /\ Head(recent) < head - 1
<1>0. /\ recent \in Seq(Epochs) /\ Len(recent) \in Nat /\ Len(recent) >= 3
      /\ \A i \in 1..Len(recent) : recent[i] \in Epochs /\ recent[i] \in Int /\ recent[i] <= head
      /\ e \in Int /\ head \in Int /\ head <= e + 1 /\ e <= head
  BY BoundsAssumption DEF TableInv, RestType, NotAhead, Epochs, Full
<1>1. /\ 1 \in 1..Len(recent) /\ 2 \in 1..Len(recent) /\ 3 \in 1..Len(recent)
      /\ Head(recent) = recent[1]
  BY <1>0
<1>2. recent[1] # e /\ recent[2] # e /\ recent[3] # e
  BY <1>1 DEF TableInv, Listed
<1>3. /\ recent[1] # recent[2] /\ recent[1] # recent[3] /\ recent[2] # recent[3]
      /\ recent[1] <= recent[2] + 1 /\ recent[1] <= recent[3] + 1
  BY <1>1 DEF TableInv, InOrder
<1>4. /\ recent[1] \in Int /\ recent[2] \in Int /\ recent[3] \in Int /\ recent[1] \in Epochs
      /\ recent[1] <= head /\ recent[2] <= head /\ recent[3] <= head
  BY <1>0, <1>1
<1>5. ASSUME NEW x \in Int, NEW y \in Int, NEW z \in Int, x <= head, y <= head, z <= head,
             x # e, y # e, z # e, x # y, x # z, y # z, x <= y + 1, x <= z + 1
      PROVE  x < head - 1
  BY <1>0, <1>5
<1> QED
  BY <1>1, <1>2, <1>3, <1>4, <1>5

-----------------------------------------------------------------------------
(* What a step of GenerateAsync leaves alone *)

\* Nobody begins to work, or changes what it works on, while p goes on at x.
LEMMA WorkersStay ==
    ASSUME StateType, NEW p \in Procs, pc[p] # "idle", NEW x, pc' = [pc EXCEPT ![p] = x],
           \/ obj' = obj
           \/ p \in Conns /\ obj' = [obj EXCEPT ![p] = None] /\ x = "idle"
    PROVE  \A q \in Procs : pc'[q] # "idle" => pc[q] # "idle" /\ Target(q)' = Target(q)
<1> SUFFICES ASSUME NEW q \in Procs, pc'[q] # "idle"
             PROVE  pc[q] # "idle" /\ Target(q)' = Target(q)
  OBVIOUS
<1>1. CASE q = p
  <2>1. obj' = obj
    BY <1>1 DEF StateType
  <2> QED
    BY <1>1, <2>1 DEF Target
<1>2. CASE q # p
  BY <1>2 DEF StateType, Target
<1> QED
  BY <1>1, <1>2

\* GenerateAsync neither touches the table nor deletes a handle; who goes on to compute
\* has its handle, or has found isGenerated set.
LEMMA GenerateFacts ==
    ASSUME DagInv, NEW p \in Procs, GenerateAsync(p)
    PROVE  /\ UNCHANGED <<head, tableVars>>
           /\ pc[p] # "idle" /\ Target(p) \in Objects
           /\ \A q \in Procs : pc'[q] # "idle" => pc[q] # "idle" /\ Target(q)' = Target(q)
           /\ handle \subseteq handle' /\ handle' \subseteq handle \cup {Target(p)}
           /\ generated' \subseteq generated \cup handle'
           /\ \A c \in Conns : pc'[c] = "compute" =>
                pc[c] = "compute" \/ (c = p /\ Target(p) \in generated \cup handle')
<1> DEFINE o == Target(p)
<1>0. StateType
  BY DEF DagInv
<1>1. pc[p] # "idle" /\ o \in Objects
  BY DEF GenerateAsync, EnterLock, TaskCancelled, AlreadyGenerated, MapFile, CreateFile, OpenFails,
         CreateFails, ComputeNode, Abort, Seal, SealFails, DagInv, LockInv
<1>2. CASE CreateFile(p) \/ ComputeNode(p)
  <2>1. /\ UNCHANGED <<head, tableVars, handle, generated, obj>>
        /\ \E x \in {"generate", pc[p]} : pc' = [pc EXCEPT ![p] = x] /\ (x = pc[p] => pc' = pc)
    BY <1>0, <1>2 DEF CreateFile, ComputeNode, StateType
  <2>2. \A q \in Procs : pc'[q] # "idle" => pc[q] # "idle" /\ Target(q)' = Target(q)
    BY <1>0, <1>1, <2>1, WorkersStay
  <2>3. \A c \in Conns : pc'[c] = "compute" => pc[c] = "compute"
    BY <1>0, <2>1 DEF StateType, Procs
  <2> QED
    BY <1>1, <2>1, <2>2, <2>3
<1>3. CASE ~(CreateFile(p) \/ ComputeNode(p))
  <2>1. \/ Throws(p) /\ UNCHANGED <<handle, generated>>
        \/ Returns(p) /\ UNCHANGED <<handle, generated>> /\ o \in generated \cup handle
        \/ Returns(p) /\ handle' = handle \cup {o} /\ generated' = generated \cup {o}
    BY <1>3 DEF GenerateAsync, EnterLock, TaskCancelled, AlreadyGenerated, MapFile, OpenFails,
                CreateFails, Abort, Seal, SealFails, objVars
  <2>2. UNCHANGED <<head, tableVars>>
    BY <2>1 DEF Throws, Returns
  <2>3. PICK x \in {"idle", "compute"} :
          /\ pc' = [pc EXCEPT ![p] = x]
          /\ obj' = obj \/ (p \in Conns /\ obj' = [obj EXCEPT ![p] = None] /\ x = "idle")
    BY <2>1, ExitFacts
  <2>4. \A q \in Procs : pc'[q] # "idle" => pc[q] # "idle" /\ Target(q)' = Target(q)
    BY <1>0, <1>1, <2>3, WorkersStay
  <2>5. Throws(p) => pc'[p] = "idle"
    BY ExitFacts
  <2>6. \A c \in Conns : pc'[c] = "compute" =>
          pc[c] = "compute" \/ (c = p /\ o \in generated \cup handle')
    BY <1>0, <2>1, <2>3, <2>5 DEF StateType, Procs
  <2> QED
    BY <1>1, <2>1, <2>2, <2>4, <2>6
<1> QED
  BY <1>2, <1>3

\* The rest of the state after a step of GenerateAsync.
LEMMA GenerateRest ==
    ASSUME DagInv, RestType, NEW p \in Procs, GenerateAsync(p)
    PROVE  RestType'
<1>1. UNCHANGED <<head, tableVars>>
  BY GenerateFacts
<1>2. \/ UNCHANGED <<startedBy, cancelled, faults>>
      \/ (Returns(p) \/ Throws(p)) /\ (Fault \/ UNCHANGED faults)
  BY DEF GenerateAsync, EnterLock, TaskCancelled, AlreadyGenerated, MapFile, CreateFile, OpenFails,
         CreateFails, ComputeNode, Abort, Seal, SealFails, Returns
<1>3. cancelled' \subseteq cancelled
  BY <1>2 DEF Returns, Throws
<1>4. startedBy' \in [Objects -> Conns \cup {None}]
  BY <1>2 DEF RestType, Returns, Throws
<1>5. faults' \in 0..MaxFaults
  <2>1. CASE UNCHANGED faults
    BY <2>1 DEF RestType
  <2>2. CASE Fault
    BY <2>2, BoundsAssumption DEF RestType, Fault
  <2> QED
    BY <1>2, <2>1, <2>2
<1> QED
  BY <1>1, <1>3, <1>4, <1>5 DEF RestType, tableVars

-----------------------------------------------------------------------------
(* The table keeps its shape *)

\* The table of caches starts in shape: recent epochs, one object each.
LEMMA TableInit == Init => TableInv
<1> SUFFICES ASSUME Init PROVE TableInv
  OBVIOUS
<1>0. Warm \in Nat /\ Warm <= MaxEpoch /\ MaxEpoch \in Nat
  BY BoundsAssumption
<1>1. \A i \in 1..Warm : i - 1 \in Epochs
  BY <1>0 DEF Epochs
<1>2. recent \in Seq(Epochs) /\ Len(recent) = Warm /\ \A i \in 1..Warm : recent[i] = i - 1
  <2>1. recent \in [1..Warm -> Epochs]
    BY <1>1 DEF Init
  <2> QED
    BY <1>0, <2>1 DEF Init
<1>3. RestType
  <2>1. Warm \in Epochs /\ 0 \in 0..MaxFaults
    BY <1>0, BoundsAssumption DEF Epochs
  <2>2. startedBy \in [Objects -> Conns \cup {None}]
    BY DEF Init, Nobody
  <2> QED
    BY <1>2, <2>1, <2>2 DEF Init, RestType
<1>4. Filed
  BY DEF Init, Filed, Epoch
<1>5. Listed
  <2> SUFFICES ASSUME NEW e \in Epochs
               PROVE  cached[e] # None <=> \E i \in 1..Warm : recent[i] = e
    BY <1>2 DEF Listed
  <2>1. cached[e] # None <=> e < Warm
    BY DEF Init, None
  <2>2. ASSUME e < Warm PROVE \E i \in 1..Warm : recent[i] = e
    <3>1. e + 1 \in 1..Warm /\ (e + 1) - 1 = e
      BY <1>0, <2>2 DEF Epochs
    <3> QED
      BY <1>2, <3>1
  <2>3. ASSUME NEW i \in 1..Warm, recent[i] = e PROVE e < Warm
    BY <1>0, <1>2, <2>3
  <2> QED
    BY <2>1, <2>2, <2>3
<1>6. InOrder
  BY <1>0, <1>2 DEF InOrder
<1>7. NotAhead
  BY <1>0, <1>2 DEF Init, NotAhead
<1> QED
  BY <1>3, <1>4, <1>5, <1>6, <1>7 DEF TableInv

\* A request gets a Cache object.
LEMMA TableGet ==
    ASSUME DagInv, TableInv, NEW c \in Conns, GetCacheAsync(c)
    PROVE  TableInv'
<1>0. cached \in [Epochs -> Objects \cup {None}] /\ future \in Objects \cup {None}
  BY DEF DagInv, StateType
<1>1. PICK e \in Epochs :
        \/ GetCached(c, e) \/ GetCachedAndPregenerate(c, e)
        \/ TakeFuture(c, e) \/ CreateCache(c, e)
  BY DEF GetCacheAsync
<1>2. e \in {head - 1, head} /\ UNCHANGED <<head, cancelled, faults>>
  BY <1>1 DEF GetCached, GetCachedAndPregenerate, TakeFuture, CreateCache, Asks, Got
<1>3. startedBy' \in [Objects -> Conns \cup {None}] /\ spare' \subseteq Objects
  BY <1>1 DEF GetCached, GetCachedAndPregenerate, TakeFuture, CreateCache, Create, TableInv, RestType
<1>4. recent' \in Seq(Epochs) /\ Filed' /\ Listed' /\ InOrder' /\ NotAhead'
  <2>1. CASE GetCached(c, e) \/ GetCachedAndPregenerate(c, e)
    <3>1. cached[e] # None /\ recent' = Touch(recent, e) /\ UNCHANGED cached
      BY <2>1 DEF GetCached, GetCachedAndPregenerate
    <3> QED
      BY <1>2, <3>1, TouchKeepsTable
  <2>2. CASE TakeFuture(c, e)
    <3>1. e # -1
      BY BoundsAssumption DEF Epochs
    <3>2. future \in Objects /\ Epoch(future) = e /\ cached[e] = None /\ EvictAndAdd(future, e)
      BY <1>0, <2>2, <3>1 DEF TakeFuture, FutureEpoch
    <3> QED
      BY <1>0, <1>2, <3>2, AddKeepsTable
  <2>3. CASE CreateCache(c, e)
    <3>1. PICK o \in Objects : Epoch(o) = e /\ cached[e] = None /\ EvictAndAdd(o, e)
      BY <2>3 DEF CreateCache, Create
    <3> QED
      BY <1>0, <1>2, <3>1, AddKeepsTable
  <2> QED
    BY <1>1, <2>1, <2>2, <2>3
<1> QED
  BY <1>2, <1>3, <1>4 DEF TableInv, RestType

\* Every step keeps the shape of the table.
LEMMA TableStep ==
    ASSUME DagInv, TableInv, [Next]_vars
    PROVE  TableInv'
<1>0. /\ head \in Epochs /\ recent \in Seq(Epochs) /\ cancelled \subseteq Procs /\ faults \in 0..MaxFaults
      /\ MaxEpoch \in Nat /\ MaxFaults \in Nat
  BY BoundsAssumption DEF TableInv, RestType
<1>f. Fault => faults' \in 0..MaxFaults
  BY <1>0 DEF Fault
<1>1. ASSUME NEW c \in Conns, GetCacheAsync(c) PROVE TableInv'
  BY <1>1, TableGet
<1>2. ASSUME UNCHANGED <<recent, cached>>, RestType', head <= head' PROVE TableInv'
  <2>1. \A i \in 1..Len(recent) : recent[i] \in Int /\ head \in Int /\ head' \in Int
    BY <1>0, <1>2 DEF RestType, Epochs
  <2>2. NotAhead'
    BY <1>2, <2>1 DEF TableInv, NotAhead
  <2>3. Filed' /\ Listed' /\ InOrder'
    BY <1>2 DEF TableInv, Filed, Listed, InOrder
  <2> QED
    BY <1>2, <2>2, <2>3 DEF TableInv
<1>i. head <= head
  BY <1>0 DEF Epochs
<1>3. ASSUME NEW p \in Procs, GenerateAsync(p) PROVE TableInv'
  <2>1. UNCHANGED <<head, tableVars>> /\ RestType'
    BY <1>3, GenerateFacts, GenerateRest DEF TableInv
  <2> QED
    BY <1>2, <1>i, <2>1 DEF tableVars
<1>4. ASSUME NEW c \in Conns, Compute(c) PROVE TableInv'
  <2>1. UNCHANGED <<head, tableVars, startedBy, faults>> /\ cancelled' \subseteq cancelled
    BY <1>4 DEF Compute
  <2> QED
    BY <1>2, <1>i, <2>1 DEF tableVars, TableInv, RestType
<1>5. ASSUME NEW c \in Conns, Disconnect(c) PROVE TableInv'
  <2>1. UNCHANGED <<head, tableVars, startedBy>> /\ faults' \in 0..MaxFaults /\ cancelled' \subseteq Procs
    BY <1>0, <1>5, <1>f DEF Disconnect
  <2> QED
    BY <1>2, <1>i, <2>1 DEF tableVars, TableInv, RestType
<1>6. CASE NewEpoch
  <2>1. UNCHANGED <<tableVars, startedBy, cancelled, faults>> /\ head' \in Epochs /\ head <= head'
    BY <1>0, <1>6 DEF NewEpoch, Epochs
  <2> QED
    BY <1>2, <2>1 DEF tableVars, TableInv, RestType
<1>7. CASE Crash
  <2>1. /\ recent' = << >> /\ cached' = [e \in Epochs |-> None] /\ spare' = {} /\ startedBy' = Nobody
        /\ cancelled' = {} /\ head' = head /\ faults' \in 0..MaxFaults
    BY <1>7, <1>f DEF Crash
  <2>2. RestType'
    BY <1>0, <2>1 DEF RestType, Nobody
  <2>3. Len(recent') = 0 /\ 1..0 = {}
    BY <2>1
  <2>4. Filed' /\ Listed' /\ InOrder' /\ NotAhead'
    BY <2>1, <2>3 DEF Filed, Listed, InOrder, NotAhead
  <2> QED
    BY <2>2, <2>4 DEF TableInv
<1>8. CASE UNCHANGED vars
  <2>1. RestType'
    BY <1>8 DEF vars, tableVars, TableInv, RestType
  <2> QED
    BY <1>2, <1>8, <1>i, <2>1 DEF vars, tableVars
<1> QED
  BY <1>1, <1>3, <1>4, <1>5, <1>6, <1>7, <1>8 DEF Next

\* What stays mapped is the DAG of an epoch, for one of the two reasons.
LEMMA StaleStep ==
    ASSUME DagInv, TableInv, stale \subseteq Epochs \X Reasons, [Next]_vars
    PROVE  stale' \subseteq Epochs \X Reasons
<1>1. ASSUME NEW o \in Objects, NEW why \in Reasons, Unmap(o, why) PROVE stale' \subseteq Epochs \X Reasons
  BY <1>1, ObjectFacts DEF Unmap
<1>2. ASSUME NEW o, NEW e, EvictAndAdd(o, e) PROVE stale' \subseteq Epochs \X Reasons
  <2>1. \/ UNCHANGED stale
        \/ cached[Head(recent)] \in handle /\ Unmap(cached[Head(recent)], "evicted")
    BY <1>2 DEF EvictAndAdd, Dispose
  <2>2. "evicted" \in Reasons
    BY DEF Reasons
  <2> QED
    BY <1>1, <2>1, <2>2 DEF DagInv, StateType
<1>3. ASSUME NEW c \in Conns, GetCacheAsync(c) PROVE stale' \subseteq Epochs \X Reasons
  BY <1>2, <1>3 DEF GetCacheAsync, GetCached, GetCachedAndPregenerate, TakeFuture, CreateCache
<1>4. ASSUME NEW p \in Procs, GenerateAsync(p) PROVE stale' \subseteq Epochs \X Reasons
  <2>1. pc[p] = "generate" => Target(p) \in Objects
    BY DEF DagInv, LockInv
  <2>2. UNCHANGED stale \/ (pc[p] = "generate" /\ Unmap(Target(p), "given up"))
    BY <1>4 DEF GenerateAsync, EnterLock, TaskCancelled, AlreadyGenerated, MapFile, CreateFile,
       OpenFails, CreateFails, ComputeNode, Abort, Seal, SealFails
  <2>3. "given up" \in Reasons
    BY DEF Reasons
  <2> QED
    BY <1>1, <2>1, <2>2, <2>3
<1>5. CASE NewEpoch \/ Crash \/ UNCHANGED vars \/ \E c \in Conns : Compute(c) \/ Disconnect(c)
  BY <1>5 DEF NewEpoch, Crash, vars, Compute, Disconnect
<1> QED
  BY <1>3, <1>4, <1>5 DEF Next

\* TypeOK holds in every reachable state, whatever the limit of the table is.
THEOREM TypeCorrect == Spec => []TypeOK
<1> DEFINE Inv == DagInv /\ TableInv /\ stale \subseteq Epochs \X Reasons
<1>1. Inv => TypeOK
  BY DEF DagInv, StateType, TableInv, RestType, TypeOK, Epochs
<1>2. Inv /\ [Next]_vars => Inv'
  BY DagStep, TableStep, StaleStep
<1>3. Init => Inv
  BY DagInit, TableInit DEF Init
<1> QED
  BY <1>1, <1>2, <1>3, PTL DEF Spec

-----------------------------------------------------------------------------
(* Who holds on to a DAG.  The epochs somebody works on are the last two and   *)
(* the next, so a table of three evicts none of them.                          *)

\* Requests and generations work on an epoch that shares still come for.
WorkInv == \A p \in Procs : pc[p] # "idle" => Epoch(Target(p)) >= head - 1

\* What was generated and disposed of belongs to an epoch that has passed.
DisposedInv == \A o \in generated : o \in handle \/ Epoch(o) < head - 1

\* The pre-generated object is for an epoch to come, and the table has none for it,
\* unless it was created for an epoch in the table.
FutureInv ==
    future # None /\ future \notin spare =>
        Epoch(future) >= head /\ cached[Epoch(future)] = None

\* The object has a handle or is about to get one.
Held(o) == o \in handle \/ \E p \in Procs : pc[p] # "idle" /\ Target(p) = o

\* Every such object can be found.
FoundInv == \A o \in Objects : Held(o) => o = future \/ cached[Epoch(o)] = o \/ o \in spare

\* Who holds a lock is generating under it.
OwnerInv ==
    \A o \in Objects : owner[o] # None =>
        \E p \in Procs : owner[o] = p /\ pc[p] = "generate" /\ Target(p) = o

LifeInv == WorkInv /\ DisposedInv /\ FutureInv /\ FoundInv /\ OwnerInv /\ HandleAlive

\* Where the objects are after the section under cacheLock: c works on o, x may be a new
\* object to be generated in the background.
LEMMA GetWorkers ==
    ASSUME StateType, NEW c \in Conns, pc[c] = "idle", NEW o \in Objects,
           obj' = [obj EXCEPT ![c] = o],
           NEW S, S \subseteq Objects,
           \A p \in Procs \ {c} : pc'[p] = IF p \in S THEN "wait" ELSE pc[p]
    PROVE  \A p \in Procs : pc'[p] # "idle" =>
             \/ p = c /\ Target(p)' = o
             \/ p \in S /\ Target(p)' = p
             \/ p # c /\ p \notin S /\ pc[p] # "idle" /\ pc'[p] = pc[p] /\ Target(p)' = Target(p)
<1> SUFFICES ASSUME NEW p \in Procs, pc'[p] # "idle"
             PROVE  \/ p = c /\ Target(p)' = o
                    \/ p \in S /\ Target(p)' = p
                    \/ p # c /\ p \notin S /\ pc[p] # "idle" /\ pc'[p] = pc[p] /\ Target(p)' = Target(p)
  OBVIOUS
<1>1. CASE p = c
  BY <1>1 DEF StateType, Target
<1>2. CASE p \in S
  BY <1>2, ObjectFacts DEF Target
<1>3. CASE p # c /\ p \notin S
  <2>1. pc'[p] = pc[p]
    BY <1>3
  <2>2. Target(p)' = Target(p)
    BY <1>3 DEF StateType, Target
  <2> QED
    BY <1>3, <2>1, <2>2
<1> QED
  BY <1>1, <1>2, <1>3

\* What the branches of GetCacheAsync have in common: c gets o, the objects in S begin to be
\* generated in the background, those in D are disposed of.
LEMMA GetLife ==
    ASSUME DagInv, TableInv, LifeInv, NEW c \in Conns, pc[c] = "idle", NEW o \in Objects,
           Epoch(o) >= head - 1, obj' = [obj EXCEPT ![c] = o],
           NEW S, S \subseteq Objects, \A x \in S : pc[x] = "idle" /\ Epoch(x) >= head - 1,
           NEW D, \A x \in D : Epoch(x) < head - 1,
           pc'[c] = AfterGet(o), \A p \in Procs \ {c} : pc'[p] = IF p \in S THEN "wait" ELSE pc[p],
           handle' = handle \ D, generated' \subseteq generated, UNCHANGED <<head, owner>>
    PROVE  /\ WorkInv' /\ DisposedInv' /\ OwnerInv' /\ HandleAlive'
           /\ \A x \in Objects : Held(x)' => x = o \/ x \in S \/ (Held(x) /\ x \notin D)
<1>0. StateType /\ head \in Int /\ \A x \in Objects : Epoch(x) \in Int
  BY ObjectFacts DEF DagInv, TableInv, RestType, Epochs
<1>1. \A p \in Procs : pc'[p] # "idle" =>
        \/ p = c /\ Target(p)' = o
        \/ p \in S /\ Target(p)' = p
        \/ p # c /\ p \notin S /\ pc[p] # "idle" /\ pc'[p] = pc[p] /\ Target(p)' = Target(p)
  BY <1>0, GetWorkers
<1>2. WorkInv'
  BY <1>1 DEF LifeInv, WorkInv
<1>3. \A p \in Procs : pc'[p] # "idle" => Target(p)' \notin D
  <2> SUFFICES ASSUME NEW p \in Procs, pc'[p] # "idle", Target(p)' \in D PROVE FALSE
    OBVIOUS
  <2>1. Epoch(Target(p)') >= head - 1 /\ Epoch(Target(p)') < head - 1
    BY <1>2 DEF WorkInv
  <2>2. Target(p)' \in Objects
    BY <1>1 DEF DagInv, LockInv
  <2> QED
    BY <1>0, <2>1, <2>2
<1>4. DisposedInv'
  <2> SUFFICES ASSUME NEW x \in generated' PROVE x \in handle' \/ Epoch(x) < head - 1
    BY DEF DisposedInv
  <2> QED
    BY DEF LifeInv, DisposedInv
<1>5. OwnerInv'
  <2> SUFFICES ASSUME NEW x \in Objects, owner[x] # None
               PROVE  \E p \in Procs : owner[x] = p /\ pc'[p] = "generate" /\ Target(p)' = x
    BY DEF OwnerInv
  <2>1. PICK p \in Procs : owner[x] = p /\ pc[p] = "generate" /\ Target(p) = x
    BY DEF LifeInv, OwnerInv
  <2>2. p # c /\ p \notin S
    BY <2>1
  <2>3. pc'[p] = "generate"
    BY <2>1, <2>2
  <2> QED
    BY <1>1, <2>1, <2>2, <2>3
<1>6. HandleAlive'
  <2> SUFFICES ASSUME NEW d \in Conns, pc'[d] = "compute" PROVE obj'[d] \in handle'
    BY DEF HandleAlive
  <2>1. d \in Procs /\ Target(d)' = obj'[d]
    BY DEF Procs, Target
  <2>2. obj'[d] \notin D
    BY <1>3, <2>1
  <2>3. CASE d = c
    <3>1. o \in handle /\ obj'[d] = o
      BY <1>0, <2>1, <2>3 DEF AfterGet, StateType
    <3> QED
      BY <2>2, <3>1
  <2>4. CASE d # c
    <3>1. pc[d] = "compute" /\ obj'[d] = obj[d]
      BY <1>0, <2>1, <2>4, ObjectFacts DEF StateType
    <3> QED
      BY <2>2, <3>1 DEF LifeInv, HandleAlive
  <2> QED
    BY <2>3, <2>4
<1>7. ASSUME NEW x \in Objects, Held(x)' PROVE x = o \/ x \in S \/ (Held(x) /\ x \notin D)
  <2>1. CASE x \in handle'
    BY <2>1 DEF Held
  <2>2. CASE x \notin handle'
    <3>1. PICK p \in Procs : pc'[p] # "idle" /\ Target(p)' = x
      BY <1>7, <2>2 DEF Held
    <3> QED
      BY <1>1, <1>3, <3>1 DEF Held
  <2> QED
    BY <2>1, <2>2
<1> QED
  BY <1>2, <1>4, <1>5, <1>6, <1>7

\* What EvictAndAdd disposes of and keeps, when the table holds three or more.
LEMMA EvictFacts ==
    ASSUME NumCaches >= 3, DagInv, TableInv, NEW e \in Epochs, e \in {head - 1, head}, cached[e] = None,
           NEW o \in Objects, EvictAndAdd(o, e)
    PROVE  \E D \in SUBSET Objects :
             /\ handle' = handle \ D /\ \A x \in D : Epoch(x) < head - 1
             /\ cached'[e] = o /\ \A f \in Epochs \ {e} : cached'[f] \in {cached[f], None}
             /\ \A x \in Objects : cached[Epoch(x)] = x => x \in D \/ cached'[Epoch(x)] = x
<1>0. cached \in [Epochs -> Objects \cup {None}] /\ None \notin Objects
  BY ObjectFacts DEF DagInv, StateType
<1>1. CASE ~Full
  <2>1. cached' = [cached EXCEPT ![e] = o] /\ handle' = handle
    BY <1>1 DEF EvictAndAdd
  <2>2. \A x \in Objects : cached[Epoch(x)] = x => cached'[Epoch(x)] = x
    BY <1>0, <2>1, ObjectFacts
  <2> WITNESS {} \in SUBSET Objects
  <2> QED
    BY <1>0, <2>1, <2>2
<1>2. CASE Full
  <2> DEFINE old == Head(recent)
  <2>1. old \in Epochs /\ old < head - 1
    BY <1>2, EvictsOld
  <2>2. cached[old] # None
    <3>1. recent \in Seq(Epochs) /\ Len(recent) >= 1
      BY <1>2, BoundsAssumption DEF TableInv, RestType, Full
    <3>2. 1 \in 1..Len(recent) /\ recent[1] = old
      BY <3>1
    <3> QED
      BY <2>1, <3>2 DEF TableInv, Listed
  <2>4. cached' = [cached EXCEPT ![old] = None, ![e] = o] /\ handle' = handle \ {cached[old]}
    BY <1>2 DEF EvictAndAdd, Dispose
  <2>h. HIDE DEF old
  <2>3. cached[old] \in Objects /\ Epoch(cached[old]) = old
    BY <1>0, <2>1, <2>2 DEF TableInv, Filed
  <2>5. /\ cached'[e] = o /\ \A f \in Epochs \ {e} : cached'[f] \in {cached[f], None}
        /\ \A f \in Epochs \ {e, old} : cached'[f] = cached[f]
    BY <1>0, <2>1, <2>4
  <2>6. ASSUME NEW x \in Objects, cached[Epoch(x)] = x PROVE x \in {cached[old]} \/ cached'[Epoch(x)] = x
    BY <1>0, <2>5, <2>6, ObjectFacts
  <2> {cached[old]} \in SUBSET Objects
    BY <2>3
  <2> WITNESS {cached[old]} \in SUBSET Objects
  <2> QED
    BY <2>1, <2>3, <2>4, <2>5, <2>6
<1> QED
  BY <1>1, <1>2

\* Create takes an object nothing refers to, and records whether it is a spare one.
LEMMA CreateFacts ==
    ASSUME DagInv, NEW o \in Objects, NEW e \in Epochs, Create(o, e)
    PROVE  /\ Epoch(o) = e /\ pc[o] = "idle" /\ o # future /\ ~Held(o) /\ generated' \subseteq generated
           /\ o \in spare' <=> cached[e] # None
           /\ \A x \in Objects \ {o} : x \in spare' <=> x \in spare
<1>1. /\ Epoch(o) = e /\ pc[o] = "idle" /\ o # future /\ o \notin handle /\ generated' \subseteq generated
      /\ \A c \in Conns : obj[c] # o
  BY DEF Create, InUse
<1>2. ASSUME NEW p \in Procs, pc[p] # "idle" PROVE Target(p) # o
  BY <1>1, <1>2, TargetFacts DEF Procs
<1> QED
  BY <1>1, <1>2 DEF Create, Held

\* GetCacheAsync disposes of nothing that is in use and loses track of nothing.
LEMMA LifeGet ==
    ASSUME NumCaches >= 3, DagInv, TableInv, LifeInv, NEW c \in Conns, GetCacheAsync(c)
    PROVE  LifeInv'
<1>0. /\ cached \in [Epochs -> Objects \cup {None}] /\ future \in Objects \cup {None}
      /\ pc \in [Procs -> {"idle", "wait", "generate", "compute"}]
      /\ head \in Int /\ None \notin Objects /\ \A x \in Objects : Epoch(x) \in Epochs /\ x # c
  BY ObjectFacts DEF DagInv, StateType, TableInv, RestType, Epochs
<1>1. PICK e \in Epochs :
        \/ GetCached(c, e) \/ GetCachedAndPregenerate(c, e)
        \/ TakeFuture(c, e) \/ CreateCache(c, e)
  BY DEF GetCacheAsync
<1>2. /\ e \in {head - 1, head} /\ e \in Int /\ e >= head - 1 /\ e + 1 >= head
      /\ pc[c] = "idle" /\ UNCHANGED <<head, owner>>
  BY <1>0, <1>1 DEF GetCached, GetCachedAndPregenerate, TakeFuture, CreateCache, Asks, Got, Epochs
<1>3. cached[e] # None => cached[e] \in Objects /\ Epoch(cached[e]) = e
  BY <1>0 DEF TableInv, Filed
<1>s. PICK S : S = {}
  OBVIOUS
<1>c. c \in Procs
  BY DEF Procs
<1>4. CASE GetCached(c, e)
  <2>0. PICK o \in Objects : o = cached[e]
    BY <1>3, <1>4 DEF GetCached
  <2>1. /\ Epoch(o) = e /\ obj' = [obj EXCEPT ![c] = o] /\ pc' = [pc EXCEPT ![c] = AfterGet(o)]
        /\ UNCHANGED <<cached, future, spare, handle, generated>>
    BY <1>3, <1>4, <2>0, ObjectFacts DEF GetCached, Got
  <2>2. pc'[c] = AfterGet(o) /\ \A p \in Procs \ {c} : pc'[p] = IF p \in S THEN "wait" ELSE pc[p]
    BY <1>0, <1>s, <1>c, <2>1
  <2>3. /\ WorkInv' /\ DisposedInv' /\ OwnerInv' /\ HandleAlive'
        /\ \A x \in Objects : Held(x)' => x = o \/ x \in S \/ (Held(x) /\ x \notin S)
    <3>1. /\ Epoch(o) >= head - 1 /\ handle' = handle \ S /\ generated' \subseteq generated
          /\ S \subseteq Objects /\ \A x \in S : pc[x] = "idle" /\ Epoch(x) >= head - 1
          /\ \A x \in S : Epoch(x) < head - 1
      BY <1>2, <1>s, <2>1
    <3> QED
      BY <1>2, <2>1, <2>2, <3>1, GetLife
  <2>4. FoundInv' /\ FutureInv'
    <3>1. ASSUME NEW x \in Objects, Held(x)' PROVE x = future \/ cached[Epoch(x)] = x \/ x \in spare
      <4>1. x = o \/ Held(x)
        BY <1>s, <2>3, <3>1
      <4> QED
        BY <2>0, <2>1, <4>1 DEF LifeInv, FoundInv
    <3>2. FoundInv'
      BY <2>1, <3>1 DEF FoundInv
    <3> QED
      BY <1>2, <2>1, <3>2 DEF LifeInv, FutureInv
  <2> QED
    BY <2>3, <2>4 DEF LifeInv
<1>5. CASE GetCachedAndPregenerate(c, e)
  <2>0. PICK o \in Objects : o = cached[e]
    BY <1>3, <1>5 DEF GetCachedAndPregenerate
  <2>1. /\ Epoch(o) = e /\ obj' = [obj EXCEPT ![c] = o] /\ FutureEpoch <= e
        /\ e + 1 \in Epochs /\ UNCHANGED <<cached, handle>>
    BY <1>2, <1>3, <1>5, <2>0, ObjectFacts, BoundsAssumption DEF GetCachedAndPregenerate, Got, Epochs
  <2>2. PICK n \in Objects :
          /\ Create(n, e + 1) /\ future' = n
          /\ pc' = [pc EXCEPT ![c] = AfterGet(o), ![n] = "wait"]
    BY <1>5, <2>0 DEF GetCachedAndPregenerate
  <2>3. /\ Epoch(n) = e + 1 /\ pc[n] = "idle" /\ n # future /\ generated' \subseteq generated
        /\ n \in spare' <=> cached[e + 1] # None
        /\ \A x \in Objects \ {n} : x \in spare' <=> x \in spare
    BY <2>1, <2>2, CreateFacts
  <2>t. PICK T : T = {n}
    OBVIOUS
  <2>4. pc'[c] = AfterGet(o) /\ \A p \in Procs \ {c} : pc'[p] = IF p \in T THEN "wait" ELSE pc[p]
    BY <1>0, <1>c, <2>2, <2>t DEF Procs
  <2>5. /\ WorkInv' /\ DisposedInv' /\ OwnerInv' /\ HandleAlive'
        /\ \A x \in Objects : Held(x)' => x = o \/ x \in T \/ (Held(x) /\ x \notin S)
    <3>1. /\ Epoch(o) >= head - 1 /\ handle' = handle \ S /\ \A x \in S : Epoch(x) < head - 1
          /\ T \subseteq Objects /\ \A x \in T : pc[x] = "idle" /\ Epoch(x) >= head - 1
      <4>1. e + 1 >= head - 1
        BY <1>0, <1>2
      <4> QED
        BY <1>2, <1>s, <2>1, <2>3, <2>t, <4>1
    <3>2. /\ pc[c] = "idle" /\ head' = head /\ owner' = owner /\ generated' \subseteq generated
          /\ obj' = [obj EXCEPT ![c] = o]
      BY <1>2, <2>1, <2>3
    <3> QED
      BY <2>4, <3>1, <3>2, GetLife, ZenonT(60)
  <2>6. future \in Objects => future \in spare
    <3> SUFFICES ASSUME future \in Objects, future \notin spare PROVE FALSE
      OBVIOUS
    <3>1. Epoch(future) >= head /\ cached[Epoch(future)] = None
      BY <1>0 DEF LifeInv, FutureInv
    <3>2. Epoch(future) <= e /\ Epoch(future) \in Int
      BY <1>0, <2>1 DEF FutureEpoch, Epochs
    <3>3. Epoch(future) = e
      BY <1>0, <1>2, <3>1, <3>2
    <3> QED
      BY <1>0, <2>0, <3>1, <3>3
  <2>7. FoundInv'
    <3> SUFFICES ASSUME NEW x \in Objects, Held(x)' PROVE x = n \/ cached[Epoch(x)] = x \/ x \in spare'
      BY <2>1, <2>2 DEF FoundInv
    <3>1. x = o \/ x = n \/ Held(x)
      BY <2>5, <2>t
    <3>2. CASE x = o
      BY <2>0, <2>1, <3>2
    <3>3. CASE x # n /\ Held(x)
      BY <2>3, <2>6, <3>3 DEF LifeInv, FoundInv
    <3> QED
      BY <3>1, <3>2, <3>3
  <2>8. FutureInv'
    BY <1>2, <2>1, <2>2, <2>3 DEF FutureInv
  <2> QED
    BY <2>5, <2>7, <2>8 DEF LifeInv
<1>6. CASE TakeFuture(c, e)
  <2>1. e # -1
    BY BoundsAssumption DEF Epochs
  <2>2. /\ future \in Objects /\ Epoch(future) = e /\ cached[e] = None /\ EvictAndAdd(future, e)
        /\ future' = None /\ obj' = [obj EXCEPT ![c] = future]
        /\ pc' = [pc EXCEPT ![c] = AfterGet(future)] /\ UNCHANGED <<spare, generated>>
    BY <1>0, <1>6, <2>1 DEF TakeFuture, FutureEpoch, Got
  <2>3. PICK D \in SUBSET Objects :
          /\ handle' = handle \ D /\ \A x \in D : Epoch(x) < head - 1
          /\ cached'[e] = future /\ \A f \in Epochs \ {e} : cached'[f] \in {cached[f], None}
          /\ \A x \in Objects : cached[Epoch(x)] = x => x \in D \/ cached'[Epoch(x)] = x
    BY <1>2, <2>2, EvictFacts
  <2>4. pc'[c] = AfterGet(future) /\ \A p \in Procs \ {c} : pc'[p] = IF p \in S THEN "wait" ELSE pc[p]
    BY <1>0, <1>c, <1>s, <2>2
  <2>5. /\ WorkInv' /\ DisposedInv' /\ OwnerInv' /\ HandleAlive'
        /\ \A x \in Objects : Held(x)' => x = future \/ x \in S \/ (Held(x) /\ x \notin D)
    <3>1. /\ Epoch(future) >= head - 1 /\ generated' \subseteq generated
          /\ S \subseteq Objects /\ \A x \in S : pc[x] = "idle" /\ Epoch(x) >= head - 1
      BY <1>2, <1>s, <2>2
    <3> QED
      BY <1>2, <2>2, <2>3, <2>4, <3>1, GetLife
  <2>6. FoundInv'
    BY <1>s, <2>2, <2>3, <2>5 DEF LifeInv, FoundInv
  <2>7. FutureInv'
    BY <2>2 DEF FutureInv
  <2> QED
    BY <2>5, <2>6, <2>7 DEF LifeInv
<1>7. CASE CreateCache(c, e)
  <2>1. PICK n \in Objects : Create(n, e) /\ EvictAndAdd(n, e) /\ obj' = [obj EXCEPT ![c] = n]
    BY <1>7 DEF CreateCache, Got
  <2>2. cached[e] = None /\ FutureEpoch # e /\ future' = future /\ pc' = [pc EXCEPT ![c] = "wait"]
    BY <1>7 DEF CreateCache
  <2>3. /\ Epoch(n) = e /\ n # future /\ ~Held(n) /\ generated' \subseteq generated
        /\ n \notin spare' /\ \A x \in Objects \ {n} : x \in spare' <=> x \in spare
    BY <2>1, <2>2, CreateFacts
  <2>4. PICK D \in SUBSET Objects :
          /\ handle' = handle \ D /\ \A x \in D : Epoch(x) < head - 1
          /\ cached'[e] = n /\ \A f \in Epochs \ {e} : cached'[f] \in {cached[f], None}
          /\ \A x \in Objects : cached[Epoch(x)] = x => x \in D \/ cached'[Epoch(x)] = x
    BY <1>2, <2>1, <2>2, EvictFacts
  <2>5. AfterGet(n) = "wait"
    BY <2>3 DEF AfterGet, Held
  <2>6. pc'[c] = AfterGet(n) /\ \A p \in Procs \ {c} : pc'[p] = IF p \in S THEN "wait" ELSE pc[p]
    BY <1>0, <1>c, <1>s, <2>2, <2>5
  <2>7. /\ WorkInv' /\ DisposedInv' /\ OwnerInv' /\ HandleAlive'
        /\ \A x \in Objects : Held(x)' => x = n \/ x \in S \/ (Held(x) /\ x \notin D)
    <3>1. /\ Epoch(n) >= head - 1
          /\ S \subseteq Objects /\ \A x \in S : pc[x] = "idle" /\ Epoch(x) >= head - 1
      BY <1>2, <1>s, <2>3
    <3> QED
      BY <1>2, <2>1, <2>3, <2>4, <2>6, <3>1, GetLife
  <2>8. FoundInv'
    BY <1>s, <2>2, <2>3, <2>4, <2>7 DEF LifeInv, FoundInv
  <2>9. FutureInv'
    <3> SUFFICES ASSUME future # None, future \notin spare'
                 PROVE  Epoch(future) >= head /\ cached'[Epoch(future)] = None
      BY <1>2, <2>2 DEF FutureInv
    <3>1. future \in Objects /\ future \notin spare /\ Epoch(future) \in Epochs \ {e}
      BY <1>0, <2>2, <2>3 DEF FutureEpoch
    <3> QED
      BY <2>4, <3>1 DEF LifeInv, FutureInv
  <2> QED
    BY <2>7, <2>8, <2>9 DEF LifeInv
<1> QED
  BY <1>1, <1>4, <1>5, <1>6, <1>7

\* Every step keeps LifeInv, when the table holds three or more.
LEMMA LifeStep ==
    ASSUME NumCaches >= 3, DagInv, TableInv, LifeInv, [Next]_vars
    PROVE  LifeInv'
<1>0. StateType /\ head \in Int /\ \A x \in Objects : Epoch(x) \in Int
  BY ObjectFacts DEF DagInv, TableInv, RestType, Epochs
<1>1. ASSUME NEW c \in Conns, GetCacheAsync(c) PROVE LifeInv'
  BY <1>1, LifeGet
<1>2. ASSUME NEW p \in Procs, GenerateAsync(p) PROVE LifeInv'
  <2> DEFINE o == Target(p)
  <2>0. /\ UNCHANGED <<head, recent, cached, future, spare>> /\ pc[p] # "idle" /\ o \in Objects
        /\ \A q \in Procs : pc'[q] # "idle" => pc[q] # "idle" /\ Target(q)' = Target(q)
        /\ handle \subseteq handle' /\ handle' \subseteq handle \cup {o}
        /\ generated' \subseteq generated \cup handle'
        /\ \A c \in Conns : pc'[c] = "compute" =>
             pc[c] = "compute" \/ (c = p /\ o \in generated \cup handle')
    BY <1>2, GenerateFacts DEF tableVars
  <2>h. HIDE DEF o
  <2>1. WorkInv' /\ DisposedInv' /\ FutureInv'
    BY <2>0 DEF LifeInv, WorkInv, DisposedInv, FutureInv
  <2>2. FoundInv'
    <3>1. ASSUME NEW x \in Objects, Held(x)' PROVE Held(x)
      BY <2>0, <3>1 DEF Held, o
    <3> QED
      BY <2>0, <3>1 DEF LifeInv, FoundInv
  <2>3. OwnerInv'
    <3> SUFFICES ASSUME NEW x \in Objects, owner'[x] # None
                 PROVE  \E q \in Procs : owner'[x] = q /\ pc'[q] = "generate" /\ Target(q)' = x
      BY DEF OwnerInv
    <3>1. \/ UNCHANGED <<owner, pc, obj>>
          \/ owner' = [owner EXCEPT ![o] = p] /\ pc' = [pc EXCEPT ![p] = "generate"] /\ UNCHANGED obj
          \/ owner' = owner /\ pc[p] # "generate" /\ (Returns(p) \/ Throws(p))
          \/ owner' = [owner EXCEPT ![o] = None] /\ (Returns(p) \/ Throws(p))
      BY <1>2 DEF GenerateAsync, EnterLock, TaskCancelled, AlreadyGenerated, MapFile, CreateFile,
                  OpenFails, CreateFails, ComputeNode, Abort, Seal, SealFails, Unlock, objVars, o
    <3>2. owner[x] # None => \E q \in Procs : owner[x] = q /\ pc[q] = "generate" /\ Target(q) = x
      BY DEF LifeInv, OwnerInv
    <3>3. CASE UNCHANGED <<owner, pc, obj>>
      BY <3>2, <3>3 DEF Target
    <3>4. CASE owner' = [owner EXCEPT ![o] = p] /\ pc' = [pc EXCEPT ![p] = "generate"] /\ UNCHANGED obj
      <4>1. \A q \in Procs : Target(q)' = Target(q)
        BY <3>4 DEF Target
      <4>2. CASE x = o
        <5>1. owner'[x] = p /\ pc'[p] = "generate"
          BY <1>0, <3>4, <4>2 DEF StateType
        <5> QED
          BY <4>1, <4>2, <5>1 DEF o
      <4>3. CASE x # o
        <5>1. owner'[x] = owner[x] /\ \A q \in Procs : pc[q] = "generate" => pc'[q] = "generate"
          BY <1>0, <3>4, <4>3 DEF StateType
        <5> QED
          BY <3>2, <4>1, <5>1
      <4> QED
        BY <4>2, <4>3
    <3>5. ASSUME Returns(p) \/ Throws(p), owner'[x] = owner[x], owner[x] # p
          PROVE  \E q \in Procs : owner'[x] = q /\ pc'[q] = "generate" /\ Target(q)' = x
      <4>1. PICK y : pc' = [pc EXCEPT ![p] = y]
        BY <3>5, ExitFacts
      <4>2. PICK q \in Procs : owner[x] = q /\ pc[q] = "generate" /\ Target(q) = x
        BY <3>2, <3>5
      <4>3. pc'[q] = "generate"
        BY <1>0, <3>5, <4>1, <4>2 DEF StateType
      <4> QED
        BY <2>0, <3>5, <4>2, <4>3
    <3>6. CASE owner' = owner /\ pc[p] # "generate" /\ (Returns(p) \/ Throws(p))
      <4>1. owner[x] # p
        BY <3>2, <3>6
      <4> QED
        BY <3>5, <3>6, <4>1
    <3>7. CASE owner' = [owner EXCEPT ![o] = None] /\ (Returns(p) \/ Throws(p))
      <4>1. x # o /\ owner'[x] = owner[x]
        BY <1>0, <3>7 DEF StateType
      <4>2. owner[x] # p
        BY <3>2, <4>1 DEF o
      <4> QED
        BY <3>5, <3>7, <4>1, <4>2
    <3> QED
      BY <3>1, <3>3, <3>4, <3>6, <3>7
  <2>4. HandleAlive'
    <3> SUFFICES ASSUME NEW c \in Conns, pc'[c] = "compute" PROVE obj'[c] \in handle'
      BY DEF HandleAlive
    <3>1. c \in Procs /\ Target(c)' = obj'[c] /\ Target(c) = obj[c]
      BY DEF Procs, Target
    <3>2. obj'[c] = obj[c]
      BY <2>0, <3>1
    <3>3. CASE pc[c] = "compute"
      BY <2>0, <3>2, <3>3 DEF LifeInv, HandleAlive
    <3>4. CASE c = p /\ o \in generated \cup handle'
      <4>1. obj'[c] = o
        BY <3>1, <3>2, <3>4 DEF o
      <4>2. Epoch(o) >= head - 1
        BY <2>0 DEF LifeInv, WorkInv, o
      <4>3. o \in generated => o \in handle
        BY <1>0, <2>0, <4>2 DEF LifeInv, DisposedInv
      <4> QED
        BY <2>0, <3>4, <4>1, <4>3
    <3> QED
      BY <2>0, <3>3, <3>4
  <2> QED
    BY <2>1, <2>2, <2>3, <2>4 DEF LifeInv
<1>3. ASSUME NEW c \in Conns, Compute(c) PROVE LifeInv'
  <2>0. /\ c \in Procs /\ pc[c] = "compute" /\ pc' = [pc EXCEPT ![c] = "idle"]
        /\ obj' = [obj EXCEPT ![c] = None]
        /\ UNCHANGED <<head, cached, future, spare, handle, generated, owner>>
    BY <1>3 DEF Compute, Procs, tableVars, objVars
  <2>1. \A q \in Procs : pc'[q] # "idle" => pc[q] # "idle" /\ Target(q)' = Target(q)
    BY <1>0, <2>0, WorkersStay
  <2>2. \A q \in Procs : q # c => pc'[q] = pc[q]
    BY <1>0, <2>0 DEF StateType
  <2>3. WorkInv' /\ DisposedInv' /\ FutureInv'
    BY <2>0, <2>1 DEF LifeInv, WorkInv, DisposedInv, FutureInv
  <2>4. FoundInv'
    <3>1. ASSUME NEW x \in Objects, Held(x)' PROVE Held(x)
      BY <2>0, <2>1, <3>1 DEF Held
    <3> QED
      BY <2>0, <3>1 DEF LifeInv, FoundInv
  <2>5. OwnerInv'
    <3> SUFFICES ASSUME NEW x \in Objects, owner[x] # None
                 PROVE  \E q \in Procs : owner[x] = q /\ pc'[q] = "generate" /\ Target(q)' = x
      BY <2>0 DEF OwnerInv
    <3>1. PICK q \in Procs : owner[x] = q /\ pc[q] = "generate" /\ Target(q) = x
      BY DEF LifeInv, OwnerInv
    <3>2. q # c
      BY <2>0, <3>1
    <3> QED
      BY <2>1, <2>2, <3>1, <3>2
  <2>6. HandleAlive'
    <3>1. ASSUME NEW d \in Conns, pc'[d] = "compute" PROVE obj[d] \in handle /\ obj'[d] = obj[d]
      <4>1. d # c /\ pc[d] = "compute"
        BY <1>0, <2>0, <3>1 DEF StateType, Procs
      <4> QED
        BY <1>0, <2>0, <4>1 DEF StateType, LifeInv, HandleAlive
    <3> QED
      BY <2>0, <3>1 DEF HandleAlive
  <2> QED
    BY <2>3, <2>4, <2>5, <2>6 DEF LifeInv
<1>4. ASSUME UNCHANGED <<tableVars, objVars, pc, obj>>, WorkInv', FutureInv', head <= head', head' \in Int
      PROVE  LifeInv'
  <2>1. DisposedInv'
    <3>1. \A o \in generated : Epoch(o) \in Int
      BY <1>0 DEF StateType
    <3> QED
      BY <1>0, <1>4, <3>1 DEF LifeInv, DisposedInv, objVars
  <2>2. \A p \in Procs : Target(p)' = Target(p)
    BY <1>4 DEF Target
  <2>3. FoundInv' /\ OwnerInv' /\ HandleAlive'
    BY <1>4, <2>2 DEF LifeInv, FoundInv, Held, OwnerInv, HandleAlive, tableVars, objVars
  <2> QED
    BY <1>4, <2>1, <2>3 DEF LifeInv
<1>5. ASSUME UNCHANGED <<head, tableVars, objVars, pc, obj>> PROVE LifeInv'
  <2>1. WorkInv' /\ FutureInv'
    BY <1>5 DEF LifeInv, WorkInv, FutureInv, Target, tableVars
  <2> QED
    BY <1>0, <1>4, <1>5, <2>1
<1>6. ASSUME NEW c \in Conns, Disconnect(c) PROVE LifeInv'
  BY <1>5, <1>6 DEF Disconnect
<1>7. CASE NewEpoch
  <2>1. /\ head' = head + 1 /\ cached[head] # None /\ UNCHANGED <<tableVars, objVars, pc, obj>>
        /\ \A p \in Procs : pc[p] # "idle" => Epoch(Target(p)) >= head
    BY <1>7 DEF NewEpoch
  <2>2. WorkInv'
    BY <1>0, <2>1 DEF WorkInv, Target
  <2>3. FutureInv'
    <3> SUFFICES ASSUME future # None, future \notin spare
                 PROVE  Epoch(future) >= head + 1 /\ cached[Epoch(future)] = None
      BY <2>1 DEF FutureInv, tableVars
    <3>1. Epoch(future) >= head /\ cached[Epoch(future)] = None /\ Epoch(future) \in Int
      BY <1>0 DEF LifeInv, FutureInv, StateType
    <3>2. Epoch(future) # head
      BY <2>1, <3>1
    <3> QED
      BY <1>0, <3>1, <3>2
  <2> QED
    BY <1>0, <1>4, <2>1, <2>2, <2>3
<1>8. CASE Crash
  <2>0. /\ pc' = AllIdle /\ handle' = {} /\ generated' = {} /\ future' = None /\ owner' = Nobody
    BY <1>8 DEF Crash
  <2>1. \A p \in Procs : pc'[p] = "idle"
    BY <2>0 DEF AllIdle
  <2> QED
    BY <2>0, <2>1 DEF LifeInv, WorkInv, DisposedInv, FutureInv, FoundInv, Held, OwnerInv, HandleAlive,
                      Nobody, Procs
<1>9. CASE UNCHANGED vars
  BY <1>5, <1>9 DEF vars
<1> QED
  BY <1>1, <1>2, <1>3, <1>6, <1>7, <1>8, <1>9 DEF Next

\* Initially nobody works on a cache and no cache is disposed of.
LEMMA LifeInit == Init => LifeInv
<1> SUFFICES ASSUME Init PROVE LifeInv
  OBVIOUS
<1>1. \A p \in Procs : pc[p] = "idle"
  BY DEF Init, AllIdle
<1>2. WorkInv /\ DisposedInv /\ FutureInv /\ OwnerInv /\ HandleAlive
  BY <1>1 DEF Init, WorkInv, DisposedInv, FutureInv, OwnerInv, HandleAlive, Nobody, Procs
<1>3. FoundInv
  <2> SUFFICES ASSUME NEW o \in Objects, o \in handle PROVE cached[Epoch(o)] = o
    BY <1>1 DEF FoundInv, Held
  <2>1. Epoch(o) \in Epochs /\ Epoch(o) < Warm /\ o[2] = 1 /\ o = <<Epoch(o), 1>>
    BY DEF Init, Epoch, Objects
  <2> QED
    BY <2>1 DEF Init
<1> QED
  BY <1>2, <1>3 DEF LifeInv

\* LifeInv holds in every reachable state of a table of three or more, the code's limit.
THEOREM LifeInvariance == NumCaches >= 3 => (Spec => [](DagInv /\ LifeInv))
<1> SUFFICES ASSUME NumCaches >= 3 PROVE Spec => [](DagInv /\ LifeInv)
  OBVIOUS
<1>1. DagInv /\ TableInv /\ LifeInv /\ [Next]_vars => (DagInv /\ TableInv /\ LifeInv)'
  BY DagStep, TableStep, LifeStep
<1> QED
  BY DagInit, TableInit, LifeInit, <1>1, PTL DEF Spec

\* Cache.Compute never meets a handle that was deleted by an eviction or never set, although
\* GetCacheAsync disposes of an object without asking whether a request still has it.
THEOREM HandlesStayAlive == NumCaches >= 3 => (Spec => []HandleAlive)
<1> SUFFICES ASSUME NumCaches >= 3 PROVE Spec => []HandleAlive
  OBVIOUS
<1>1. DagInv /\ LifeInv => HandleAlive
  BY DEF LifeInv
<1> QED
  BY LifeInvariance, <1>1, PTL

\* Two generations never write one DAG file, except where one object is such a spare one.
THEOREM WritersAreSpares == NumCaches >= 3 => (Spec => []OneWriter)
<1> SUFFICES ASSUME NumCaches >= 3 PROVE Spec => []OneWriter
  OBVIOUS
<1>1. DagInv /\ LifeInv => OneWriter
  <2> SUFFICES ASSUME DagInv, LifeInv, NEW x \in Objects, NEW y \in Objects, x # y,
                      owner[x] # None, owner[y] # None, Epoch(x) = Epoch(y), x \notin spare, y \notin spare
               PROVE  FALSE
    BY DEF OneWriter
  <2>1. Held(x) /\ Held(y)
    BY DEF LifeInv, OwnerInv, Held
  <2>2. (x = future \/ cached[Epoch(x)] = x) /\ (y = future \/ cached[Epoch(y)] = y)
    BY <2>1 DEF LifeInv, FoundInv
  <2>3. ASSUME future \in {x, y} PROVE cached[Epoch(x)] = None
    BY <2>3, ObjectFacts DEF LifeInv, FutureInv
  <2> QED
    BY <2>2, <2>3, ObjectFacts
<1> QED
  BY LifeInvariance, <1>1, PTL

\* The epoch of a DAG that an eviction left mapped has passed, and the table has nothing for it.
EvictedInv ==
    \A e \in Epochs : <<e, "evicted">> \in stale => e < head - 1 /\ cached[e] = None

\* Every step keeps EvictedInv, when the table holds three or more.
LEMMA EvictedStep ==
    ASSUME NumCaches >= 3, DagInv, TableInv, EvictedInv, [Next]_vars
    PROVE  EvictedInv'
<1>0. /\ head \in Int /\ cached \in [Epochs -> Objects \cup {None}] /\ None \notin Objects
      /\ \A f \in Epochs : f \in Int
  BY ObjectFacts DEF DagInv, StateType, TableInv, RestType, Epochs
<1>1. ASSUME NEW e \in Epochs, NEW o, e \in {head - 1, head}, cached[e] = None,
             o \in Objects, Epoch(o) = e, EvictAndAdd(o, e), head' = head
      PROVE  EvictedInv'
  <2> SUFFICES ASSUME NEW f \in Epochs, <<f, "evicted">> \in stale'
               PROVE  f < head - 1 /\ cached'[f] = None
    BY <1>1 DEF EvictedInv
  <2>1. f < head - 1 => f # e
    BY <1>0, <1>1
  <2>2. CASE ~Full
    <3>1. cached' = [cached EXCEPT ![e] = o] /\ stale' = stale
      BY <1>1, <2>2 DEF EvictAndAdd
    <3>2. f < head - 1 /\ cached[f] = None
      BY <3>1 DEF EvictedInv
    <3> QED
      BY <1>0, <2>1, <3>1, <3>2
  <2>3. CASE Full
    <3> DEFINE old == Head(recent)
    <3>1. old \in Epochs /\ old < head - 1
      BY <1>1, <2>3, EvictsOld
    <3>2. /\ cached' = [cached EXCEPT ![old] = None, ![e] = o]
          /\ \/ stale' = stale
             \/ cached[old] \in handle /\ stale' \subseteq stale \cup {<<Epoch(cached[old]), "evicted">>}
      BY <1>1, <2>3 DEF EvictAndAdd, Dispose, Unmap
    <3>h. HIDE DEF old
    <3>3. cached[old] \in handle => Epoch(cached[old]) = old
      BY <1>0, <3>1 DEF DagInv, StateType, TableInv, Filed
    <3>4. <<f, "evicted">> \in stale \/ f = old
      BY <3>2, <3>3
    <3>5. f < head - 1 /\ (cached[f] = None \/ f = old)
      BY <3>1, <3>4 DEF EvictedInv
    <3> QED
      BY <1>0, <2>1, <3>1, <3>2, <3>5
  <2> QED
    BY <2>2, <2>3
<1>2. ASSUME head <= head', head' \in Int, cached' = cached,
             \A f \in Epochs : <<f, "evicted">> \in stale' => <<f, "evicted">> \in stale
      PROVE  EvictedInv'
  BY <1>0, <1>2 DEF EvictedInv
<1>3. ASSUME NEW c \in Conns, GetCacheAsync(c) PROVE EvictedInv'
  <2>0. PICK e \in Epochs :
          \/ GetCached(c, e) \/ GetCachedAndPregenerate(c, e)
          \/ TakeFuture(c, e) \/ CreateCache(c, e)
    BY <1>3 DEF GetCacheAsync
  <2>1. e \in {head - 1, head} /\ head' = head
    BY <2>0 DEF GetCached, GetCachedAndPregenerate, TakeFuture, CreateCache, Asks, Got
  <2>2. CASE GetCached(c, e) \/ GetCachedAndPregenerate(c, e)
    <3>1. UNCHANGED <<cached, stale>>
      BY <2>2 DEF GetCached, GetCachedAndPregenerate
    <3> QED
      BY <1>0, <1>2, <2>1, <3>1
  <2>3. CASE TakeFuture(c, e)
    <3>1. e # -1
      BY BoundsAssumption DEF Epochs
    <3>2. future \in Objects /\ Epoch(future) = e /\ cached[e] = None /\ EvictAndAdd(future, e)
      BY <2>3, <3>1 DEF TakeFuture, FutureEpoch, DagInv, StateType
    <3> QED
      BY <1>1, <2>1, <3>2
  <2>4. CASE CreateCache(c, e)
    <3>1. PICK o \in Objects : Create(o, e) /\ EvictAndAdd(o, e)
      BY <2>4 DEF CreateCache
    <3>2. cached[e] = None /\ Epoch(o) = e
      BY <2>4, <3>1 DEF CreateCache, Create
    <3> QED
      BY <1>1, <2>1, <3>1, <3>2
  <2> QED
    BY <2>0, <2>2, <2>3, <2>4
<1>4. ASSUME NEW p \in Procs, GenerateAsync(p) PROVE EvictedInv'
  <2>1. head' = head /\ cached' = cached
    BY <1>4, GenerateFacts DEF tableVars
  <2>2. UNCHANGED stale \/ Unmap(Target(p), "given up")
    BY <1>4 DEF GenerateAsync, EnterLock, TaskCancelled, AlreadyGenerated, MapFile, CreateFile,
       OpenFails, CreateFails, ComputeNode, Abort, Seal, SealFails
  <2>3. stale' \subseteq stale \cup {<<Epoch(Target(p)), "given up">>}
    BY <2>2 DEF Unmap
  <2>4. PICK g : stale' \subseteq stale \cup {<<g, "given up">>}
    BY <2>3
  <2>5. ASSUME NEW f \in Epochs, <<f, "evicted">> \in stale' PROVE <<f, "evicted">> \in stale
    <3>1. <<f, "evicted">>[2] # <<g, "given up">>[2]
      OBVIOUS
    <3> QED
      BY <2>4, <2>5, <3>1
  <2> QED
    BY <1>0, <1>2, <2>1, <2>5
<1>5. CASE NewEpoch
  <2>1. cached' = cached /\ stale' = stale /\ head' = head + 1
    BY <1>5 DEF NewEpoch, tableVars
  <2> QED
    BY <1>0, <1>2, <2>1
<1>6. CASE Crash
  BY <1>6 DEF Crash, EvictedInv
<1>7. CASE UNCHANGED vars \/ \E c \in Conns : Compute(c) \/ Disconnect(c)
  <2>1. UNCHANGED <<head, cached, stale>>
    BY <1>7 DEF vars, tableVars, Compute, Disconnect
  <2> QED
    BY <1>0, <1>2, <2>1
<1> QED
  BY <1>3, <1>4, <1>5, <1>6, <1>7 DEF Next

\* A Cache object that has a handle, and so a DAG file open, is in the table or the future
\* one, and no DAG of its epoch was left mapped by an eviction, although the munmap of
\* ethash_full_delete fails; unless it was pre-generated for an epoch the table had.
THEOREM HandlesStayFound == NumCaches >= 3 => (Spec => []HandlesAreFound)
<1> SUFFICES ASSUME NumCaches >= 3 PROVE Spec => []HandlesAreFound
  OBVIOUS
<1> DEFINE Inv == DagInv /\ TableInv /\ LifeInv /\ EvictedInv
<1>1. Init => Inv
  BY DagInit, TableInit, LifeInit DEF Init, EvictedInv
<1>2. Inv /\ [Next]_vars => Inv'
  BY DagStep, TableStep, LifeStep, EvictedStep
<1>3. Inv => HandlesAreFound
  <2> SUFFICES ASSUME Inv, NEW o \in handle \ spare
               PROVE  /\ o = future \/ cached[Epoch(o)] = o
                      /\ <<Epoch(o), "evicted">> \notin stale
    BY DEF HandlesAreFound
  <2>1. o \in Objects /\ o # None /\ Epoch(o) \in Epochs
    BY ObjectFacts DEF DagInv, StateType
  <2>2. o = future \/ cached[Epoch(o)] = o
    BY <2>1 DEF LifeInv, FoundInv, Held
  <2>3. ASSUME <<Epoch(o), "evicted">> \in stale PROVE FALSE
    <3>1. Epoch(o) < head - 1 /\ cached[Epoch(o)] = None
      BY <2>1, <2>3 DEF EvictedInv
    <3>2. Epoch(o) >= head
      BY <2>1, <2>2, <3>1 DEF LifeInv, FutureInv
    <3>3. head \in Int /\ Epoch(o) \in Int
      BY <2>1 DEF TableInv, RestType, Epochs
    <3> QED
      BY <3>1, <3>2, <3>3
  <2> QED
    BY <2>2, <2>3
<1> QED
  BY <1>1, <1>2, <1>3, PTL DEF Spec
=============================================================================
