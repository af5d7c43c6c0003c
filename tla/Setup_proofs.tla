----------------------------- MODULE Setup_proofs -----------------------------
(***************************************************************************)
(* What the threads that construct a workload promise one another, for     *)
(* every number of them: the datasets and strings of the generators, the   *)
(* pools of connections, and the actors and what their phases register.    *)
(***************************************************************************)
EXTENDS PoolManager, SharedGenerators, WorkloadContext, FiniteSetTheorems, SequenceTheorems, TLAPS

-----------------------------------------------------------------------------
(* DataSetCache and FrequencyMapSingletonGenerator.                        *)

GenPcs == {"start", "locked", "insert", "read", "finish", "waiting", "lookup",
           "construct", "make", "ready", "draw", "failed", "undefined"}

\* The mutex of the cache is with whoever searches it or inserts, and who
\* inserts does not find its path there.
DatasetLock ==
  /\ datasetMutex \in GenThreads \cup {Free}
  /\ genPc \in [GenThreads -> GenPcs] /\ path \in [GenThreads -> Paths]
  /\ \A t \in GenThreads : genPc[t] \in {"locked", "insert"} => datasetMutex = t
  /\ \A t \in GenThreads : genPc[t] = "insert" => path[t] \notin known

\* A file that is in the map and not done has one reader at most; what is done
\* was read to its end.
OneReader ==
  /\ known \subseteq Paths /\ done \subseteq known
  /\ data \in [Paths -> Nat] /\ \A p \in Paths : data[p] <= Lines[p]
  /\ \A t \in GenThreads : genPc[t] \in {"read", "finish"} => path[t] \in known \ done
  /\ \A t, u \in GenThreads :
       genPc[t] \in {"read", "finish"} /\ genPc[u] \in {"read", "finish"} /\ path[t] = path[u] => t = u
  /\ \A t \in GenThreads : genPc[t] = "finish" => data[path[t]] = Lines[path[t]]
  /\ \A p \in done : data[p] = Lines[p]
  /\ \A t \in GenThreads : genPc[t] = "lookup" => path[t] \in done

\* The map is made before a thread draws; what was given and what is left are
\* what it had, and the string that was drawn is still there when it is taken.
MapShared ==
  /\ mapMutex \in GenThreads \cup {Free}
  /\ draw \in MapStrings
  /\ taken \in [MapStrings -> Nat]
  /\ singleton = <<>> \/ singleton \in [MapStrings -> Nat]
  /\ singleton = <<>> => taken = [s \in MapStrings |-> 0]
  /\ singleton # <<>> => singleton \in [MapStrings -> Nat]
  /\ \A t \in GenThreads : genPc[t] = "draw" => mapMutex = t
  /\ \A t \in GenThreads : genPc[t] \in {"ready", "draw"} => singleton \in [MapStrings -> Nat]
  /\ \A t \in GenThreads : genPc[t] = "draw" => singleton[draw] > 0

GotOK == got \in [GenThreads -> Nat]

GenInv == DatasetLock /\ OneReader /\ MapShared /\ GotOK /\ SharedExactly

\* Searching the cache and inserting into it.
LEMMA CacheSteps ==
  ASSUME GenInv, NEW t \in GenThreads,
         LockDatasets(t) \/ FindPath(t) \/ Insert(t) \/ WaitDone(t)
  PROVE  GenInv'
<1> USE SharedAssumption DEF GenInv, GotOK, SharedExactly, GenStep, cacheVars, mapVars, GenPcs
<1>1. CASE LockDatasets(t)
  BY <1>1 DEF LockDatasets, DatasetLock, OneReader, MapShared, WholeDataset, StringsExactly
<1>2. CASE FindPath(t)
  <2>1. /\ genPc[t] = "locked" /\ UNCHANGED <<path, known, done, data, got, mapVars>>
        /\ \/ path[t] \in known /\ genPc' = [genPc EXCEPT ![t] = "waiting"] /\ datasetMutex' = Free
           \/ path[t] \notin known /\ genPc' = [genPc EXCEPT ![t] = "insert"] /\ datasetMutex' = datasetMutex
    BY <1>2 DEF FindPath
  <2>2. DatasetLock'
    BY <2>1 DEF DatasetLock
  <2>3. OneReader'
    BY <2>1 DEF OneReader, DatasetLock
  <2>4. WholeDataset' /\ StringsExactly' /\ MapShared' /\ GotOK'
    BY <2>1 DEF MapShared, WholeDataset, StringsExactly, DatasetLock
  <2> QED
    BY <2>2, <2>3, <2>4
<1>3. CASE Insert(t)
  <2>1. DatasetLock' /\ WholeDataset' /\ GotOK' /\ StringsExactly' /\ MapShared'
    BY <1>3 DEF Insert, DatasetLock, MapShared, WholeDataset, StringsExactly
  <2>2. OneReader'
    BY <1>3 DEF Insert, DatasetLock, OneReader
  <2> QED
    BY <2>1, <2>2
<1>4. CASE WaitDone(t)
  BY <1>4 DEF WaitDone, DatasetLock, OneReader, MapShared, WholeDataset, StringsExactly
<1> QED
  BY <1>1, <1>2, <1>3, <1>4

\* Reading a file, without the mutex, and using what was read.
LEMMA ReadSteps ==
  ASSUME GenInv, NEW t \in GenThreads, ReadFile(t) \/ SetDone(t) \/ LookUp(t)
  PROVE  GenInv'
<1> USE SharedAssumption DEF GenInv, GotOK, SharedExactly, GenStep, cacheVars, mapVars, GenPcs
<1>1. CASE ReadFile(t)
  <2>0. /\ genPc[t] = "read" /\ \E to \in {"read", "finish", "failed"} : genPc' = [genPc EXCEPT ![t] = to]
        /\ UNCHANGED <<path, datasetMutex, known, done, got, mapVars>>
    BY <1>1 DEF ReadFile
  <2>1. DatasetLock' /\ WholeDataset' /\ GotOK' /\ StringsExactly' /\ MapShared'
    BY <2>0 DEF DatasetLock, MapShared, WholeDataset, StringsExactly
  <2>2. CASE path[t] \in Missing
    <3>1. genPc' = [genPc EXCEPT ![t] = "failed"] /\ UNCHANGED data
      BY <1>1, <2>2 DEF ReadFile
    <3> QED
      BY <2>0, <2>1, <3>1 DEF DatasetLock, OneReader
  <2>3. CASE path[t] \notin Missing /\ data[path[t]] < Lines[path[t]]
    <3>1. genPc[t] = "read" /\ genPc' = [genPc EXCEPT ![t] = "read"] /\ UNCHANGED <<known, done, path>>
      BY <1>1, <2>3 DEF ReadFile
    <3>2. data' = [data EXCEPT ![path[t]] = @ + 1]
      BY <1>1, <2>3 DEF ReadFile
    <3>3. path[t] \in Paths /\ path[t] \in known \ done /\ data \in [Paths -> Nat] /\ genPc' = genPc
      BY <3>1 DEF OneReader, DatasetLock
    <3>4. \A u \in GenThreads \ {t} : genPc[u] \in {"read", "finish"} => path[u] # path[t]
      BY <3>1 DEF OneReader
    <3>5. data' \in [Paths -> Nat] /\ \A p \in Paths : data'[p] <= Lines[p]
      BY <2>3, <3>2, <3>3 DEF OneReader
    <3> QED
      <4>1. \A p \in Paths : p # path[t] => data'[p] = data[p]
        BY <3>2, <3>3
      <4>2. \A u \in GenThreads : genPc[u] = "finish" => path[u] \in Paths /\ path[u] # path[t]
        BY <3>1, <3>4 DEF DatasetLock
      <4>3. \A p \in done : p \in Paths /\ p # path[t]
        BY <3>3 DEF OneReader
      <4> QED
        BY <2>1, <3>1, <3>3, <3>5, <4>1, <4>2, <4>3 DEF OneReader
  <2>4. CASE path[t] \notin Missing /\ ~(data[path[t]] < Lines[path[t]])
    <3>1. genPc[t] = "read" /\ genPc' = [genPc EXCEPT ![t] = "finish"] /\ UNCHANGED <<known, done, path, data>>
      BY <1>1, <2>4 DEF ReadFile
    <3>2. data[path[t]] = Lines[path[t]]
      BY <2>4 DEF OneReader, DatasetLock
    <3> QED
      <4>1. \A u \in GenThreads : u # t => genPc'[u] = genPc[u]
        BY <3>1 DEF DatasetLock
      <4>2. genPc'[t] = "finish"
        BY <3>1 DEF DatasetLock
      <4>3. \A u \in GenThreads : genPc'[u] \in {"read", "finish"} <=> genPc[u] \in {"read", "finish"}
        BY <3>1, <4>1, <4>2
      <4>4. \A u \in GenThreads : genPc'[u] = "lookup" <=> genPc[u] = "lookup"
        BY <3>1, <4>1, <4>2
      <4>5. \A u \in GenThreads : genPc'[u] = "finish" => data'[path'[u]] = Lines[path'[u]]
        BY <3>1, <3>2, <4>1 DEF OneReader
      <4>6. \A u, w \in GenThreads :
              genPc'[u] \in {"read", "finish"} /\ genPc'[w] \in {"read", "finish"} /\ path'[u] = path'[w] => u = w
        BY <3>1, <4>3 DEF OneReader
      <4>7. \A u \in GenThreads : genPc'[u] \in {"read", "finish"} => path'[u] \in known' \ done'
        BY <3>1, <4>3 DEF OneReader
      <4>8. \A u \in GenThreads : genPc'[u] = "lookup" => path'[u] \in done'
        BY <3>1, <4>4 DEF OneReader
      <4>9. /\ known' \subseteq Paths /\ done' \subseteq known'
            /\ data' \in [Paths -> Nat] /\ \A p \in Paths : data'[p] <= Lines[p]
            /\ \A p \in done' : data'[p] = Lines[p]
        BY <3>1 DEF OneReader
      <4> QED
        BY <2>1, <4>5, <4>6, <4>7, <4>8, <4>9 DEF OneReader
  <2> QED
    BY <2>1, <2>2, <2>3, <2>4
<1>2. CASE SetDone(t)
  <2>1. DatasetLock' /\ WholeDataset' /\ GotOK' /\ StringsExactly' /\ MapShared'
    BY <1>2 DEF SetDone, DatasetLock, MapShared, WholeDataset, StringsExactly
  <2>2. OneReader'
    BY <1>2 DEF SetDone, DatasetLock, OneReader
  <2> QED
    BY <2>1, <2>2
<1>3. CASE LookUp(t)
  <2>1. data[path[t]] = Lines[path[t]] /\ data[path[t]] \in Nat
    BY <1>3 DEF LookUp, OneReader, DatasetLock
  <2>2. DatasetLock' /\ OneReader' /\ StringsExactly' /\ MapShared'
    <3>1. /\ genPc[t] = "lookup" /\ UNCHANGED <<path, datasetMutex, known, done, data, mapVars>>
          /\ \E to \in {"failed", "construct", "undefined"} : genPc' = [genPc EXCEPT ![t] = to]
      BY <1>3 DEF LookUp
    <3>2. OneReader'
      BY <3>1 DEF OneReader, DatasetLock
    <3> QED
      BY <3>1, <3>2 DEF DatasetLock, MapShared, StringsExactly
  <2>3. WholeDataset' /\ GotOK'
    BY <1>3, <2>1 DEF LookUp, DatasetLock, WholeDataset
  <2> QED
    BY <2>2, <2>3
<1> QED
  BY <1>1, <1>2, <1>3

\* Drawing a string and taking it, with the mutex of the map between the two.
LEMMA MapSteps ==
  ASSUME GenInv, NEW t \in GenThreads, ConstructSingleton(t) \/ DrawIndex(t) \/ Take(t)
  PROVE  GenInv'
<1> USE SharedAssumption DEF GenInv, GotOK, SharedExactly, GenStep, cacheVars, mapVars, GenPcs
<1>0. DatasetLock' /\ OneReader' /\ WholeDataset' /\ GotOK'
  <2>1. /\ UNCHANGED cacheVars
        /\ genPc[t] \in {"construct", "ready", "draw"}
        /\ \E to \in {"ready", "draw", "failed"} : genPc' = [genPc EXCEPT ![t] = to]
    BY DEF ConstructSingleton, DrawIndex, Take
  <2>2. DatasetLock' /\ WholeDataset' /\ GotOK'
    BY <2>1 DEF DatasetLock, WholeDataset
  <2>3. OneReader'
    BY <2>1 DEF DatasetLock, OneReader
  <2> QED
    BY <2>2, <2>3
<1>1. CASE ConstructSingleton(t)
  BY <1>0, <1>1 DEF ConstructSingleton, DatasetLock, MapShared, StringsExactly
<1>2. CASE DrawIndex(t)
  BY <1>0, <1>2 DEF DrawIndex, Left, DatasetLock, MapShared, StringsExactly
<1>3. CASE Take(t)
  <2>1. /\ mapMutex = t /\ draw \in MapStrings /\ singleton \in [MapStrings -> Nat] /\ singleton[draw] > 0
        /\ taken \in [MapStrings -> Nat]
    BY <1>3 DEF Take, MapShared
  <2>2. singleton' = [singleton EXCEPT ![draw] = @ - 1] /\ taken' = [taken EXCEPT ![draw] = @ + 1]
    <3>1. singleton[draw] # 0
      BY <2>1
    <3> QED
      BY <1>3, <3>1 DEF Take
  <2>3. singleton # <<>>
    <3>1. DOMAIN singleton = MapStrings /\ MapStrings # {}
      BY <2>1
    <3>2. DOMAIN << >> = {}
      OBVIOUS
    <3> QED
      BY <3>1, <3>2
  <2>4. singleton' \in [MapStrings -> Nat] /\ taken' \in [MapStrings -> Nat] /\ singleton' # <<>>
    <3>1. singleton' \in [MapStrings -> Nat] /\ taken' \in [MapStrings -> Nat]
      BY <2>1, <2>2
    <3>2. DOMAIN singleton' = MapStrings /\ MapStrings # {}
      BY <3>1, <2>1
    <3>3. DOMAIN << >> = {}
      OBVIOUS
    <3> QED
      BY <3>1, <3>2, <3>3
  <2>5. StringsExactly'
    <3> SUFFICES ASSUME NEW s \in MapStrings PROVE taken'[s] + singleton'[s] = MapCounts[s]
      BY DEF StringsExactly
    <3>1. taken[s] + singleton[s] = MapCounts[s]
      BY <2>3 DEF StringsExactly
    <3> QED
      BY <3>1, <2>1, <2>2
  <2>6. MapShared'
    BY <1>3, <2>1, <2>4 DEF Take, MapShared, DatasetLock
  <2> QED
    BY <1>0, <2>5, <2>6
<1> QED
  BY <1>1, <1>2, <1>3

\* SharedExactly: a thread that got a dataset has the whole of the file, though
\* another one read it without a lock, and over all threads each string of a
\* frequency map is given no more often than the map says and with none lost,
\* for every number of threads, files and strings.
THEOREM SharedIsExact == GenSpec => []SharedExactly
<1>1. GenInit => GenInv
  BY SharedAssumption
     DEF GenInit, GenInv, DatasetLock, OneReader, MapShared, GotOK, SharedExactly, WholeDataset,
         StringsExactly, GenPcs
<1>2. GenInv /\ [GenNext]_genVars => GenInv'
  <2> SUFFICES ASSUME GenInv, [GenNext]_genVars PROVE GenInv'
    OBVIOUS
  <2>1. CASE \E t \in GenThreads : LockDatasets(t) \/ FindPath(t) \/ Insert(t) \/ WaitDone(t)
    BY <2>1, CacheSteps
  <2>2. CASE \E t \in GenThreads : ReadFile(t) \/ SetDone(t) \/ LookUp(t)
    BY <2>2, ReadSteps
  <2>3. CASE \E t \in GenThreads : ConstructSingleton(t) \/ DrawIndex(t) \/ Take(t)
    BY <2>3, MapSteps
  <2>4. CASE UNCHANGED genVars
    BY <2>4
       DEF genVars, cacheVars, mapVars, GenInv, DatasetLock, OneReader, MapShared, GotOK, SharedExactly,
           WholeDataset, StringsExactly
  <2> QED
    BY <2>1, <2>2, <2>3, <2>4 DEF GenNext, Generate
<1>3. GenInv => SharedExactly
  BY DEF GenInv
<1> QED
  BY <1>1, <1>2, <1>3, PTL DEF GenSpec

-----------------------------------------------------------------------------
(* createClient(): a pool is made once.                                    *)

InVaults == {"emplace", "collection", "record", "create"}
InMaking == {"vaults", "options"} \cup InVaults
PoolPcs == {"idle", "name", "pool", "acquire", "failed"} \cup InMaking

\* The lock of a name is with whoever looks for its pool or makes one, and the
\* pool that is being made does not exist.
NameHeld ==
  /\ poolPc \in [Builders -> PoolPcs]
  /\ DOMAIN call = Builders
  /\ DOMAIN nameLock = Clients
  /\ made \in [Pools -> Nat]
  /\ \A t \in Builders : poolPc[t] # "idle" => call[t] \in Pools
  /\ \A t \in Builders : poolPc[t] \in InMaking \cup {"pool"} => nameLock[Client(t)] = t
  /\ \A t \in Builders : poolPc[t] \in InMaking => made[call[t]] = 0

\* What a thread may do to its call and to the lock of its name.
NameStep(t) ==
  /\ \E to \in PoolPcs :
       /\ poolPc' = [poolPc EXCEPT ![t] = to]
       /\ to \in InMaking => \/ poolPc[t] \in InMaking
                             \/ poolPc[t] = "pool" /\ made[call[t]] = 0
       /\ \/ nameLock' = nameLock /\ to # "pool"
          \/ UnlockName(t) /\ poolPc[t] \in InMaking \cup {"pool"} /\ to \notin InMaking \cup {"pool"}
          \/ /\ to = "pool" /\ nameLock[Client(t)] = Nobody
             /\ nameLock' = [nameLock EXCEPT ![Client(t)] = t]
  /\ call' = call /\ poolPc[t] # "idle"
  /\ made' = made

LEMMA NameSteps ==
  ASSUME NameHeld, NEW t \in Builders,
         LockName(t) \/ FindPool(t) \/ PoolThrows(t) \/ CreateKeyVault(t) \/ EmplaceVault(t)
         \/ CreateDataKeys(t) \/ RecordKeys(t) \/ CreateCollection(t) \/ EncryptionContextDone(t) \/ Acquire(t)
  PROVE  NameStep(t)
<1> USE DEF NameStep, PoolGoto, poolMap, PoolPcs, InMaking, InVaults
<1>1. CASE LockName(t)
  BY <1>1 DEF LockName
<1>2. CASE FindPool(t)
  <2>1. call[t] \in Pools /\ made[call[t]] \in Nat
    BY <1>2 DEF FindPool, NameHeld
  <2> QED
    BY <1>2, <2>1 DEF FindPool
<1>3. CASE PoolThrows(t)
  BY <1>3 DEF PoolThrows
<1>4. CASE CreateKeyVault(t) \/ EmplaceVault(t) \/ CreateDataKeys(t) \/ RecordKeys(t)
           \/ CreateCollection(t) \/ EncryptionContextDone(t)
  <2>1. /\ poolPc[t] \in {"vaults"} \cup InVaults
        /\ \E to \in InVaults \cup {"options"} : poolPc' = [poolPc EXCEPT ![t] = to]
        /\ UNCHANGED <<call, nameLock, poolMap>>
    <3>1. CASE CreateKeyVault(t)
      BY <3>1 DEF CreateKeyVault
    <3>2. CASE EmplaceVault(t)
      BY <3>2 DEF EmplaceVault
    <3>3. CASE CreateDataKeys(t)
      BY <3>3 DEF CreateDataKeys
    <3>4. CASE RecordKeys(t)
      BY <3>4 DEF RecordKeys
    <3>5. CASE CreateCollection(t)
      BY <3>5 DEF CreateCollection
    <3>6. CASE EncryptionContextDone(t)
      BY <3>6 DEF EncryptionContextDone
    <3> QED
      BY <1>4, <3>1, <3>2, <3>3, <3>4, <3>5, <3>6
  <2>2. PICK to \in InVaults \cup {"options"} : poolPc' = [poolPc EXCEPT ![t] = to]
    BY <2>1
  <2>3. to \in PoolPcs /\ to \in InMaking /\ to # "pool" /\ poolPc[t] \in InMaking /\ poolPc[t] # "idle"
    BY <2>1
  <2>4. made' = made /\ nameLock' = nameLock /\ call' = call
    BY <2>1
  <2> HIDE DEF PoolPcs, InMaking, InVaults, poolMap
  <2> QED
    BY <2>2, <2>3, <2>4
<1>5. CASE Acquire(t)
  BY <1>5 DEF Acquire
<1> QED
  BY <1>1, <1>2, <1>3, <1>4, <1>5

LEMMA NameKept ==
  ASSUME NameHeld, PoolMadeOnce, NEW t \in Builders, NameStep(t)
  PROVE  NameHeld' /\ PoolMadeOnce'
<1>1. PICK to \in PoolPcs :
       /\ poolPc' = [poolPc EXCEPT ![t] = to]
       /\ to \in InMaking => \/ poolPc[t] \in InMaking
                             \/ poolPc[t] = "pool" /\ made[call[t]] = 0
       /\ \/ nameLock' = nameLock /\ to # "pool"
          \/ UnlockName(t) /\ poolPc[t] \in InMaking \cup {"pool"} /\ to \notin InMaking \cup {"pool"}
          \/ /\ to = "pool" /\ nameLock[Client(t)] = Nobody
             /\ nameLock' = [nameLock EXCEPT ![Client(t)] = t]
  BY DEF NameStep
<1>2. \A u \in Builders : Client(u)' = Client(u) /\ (u # t => poolPc'[u] = poolPc[u])
  BY <1>1 DEF NameStep, Client, NameHeld
<1>3. poolPc'[t] = to /\ call[t] \in Pools /\ Client(t) \in Clients
  BY <1>1 DEF NameStep, NameHeld, Client, Pools
<1>4. DOMAIN nameLock' = Clients
  BY <1>1 DEF NameHeld, UnlockName
<1>5. \A u \in Builders \ {t} :
        poolPc[u] \in InMaking \cup {"pool"} => nameLock'[Client(u)] = nameLock[Client(u)]
  <2> SUFFICES ASSUME NEW u \in Builders \ {t}, poolPc[u] \in InMaking \cup {"pool"}
               PROVE  nameLock'[Client(u)] = nameLock[Client(u)]
    OBVIOUS
  <2>1. nameLock[Client(u)] = u /\ u # Nobody
    BY PoolAssumption DEF NameHeld
  <2>2. poolPc[t] \in InMaking \cup {"pool"} => nameLock[Client(t)] = t
    BY DEF NameHeld
  <2>3. nameLock[Client(t)] \in {t, Nobody} => Client(u) # Client(t)
    BY <2>1
  <2>4. Client(u) \in Clients /\ DOMAIN nameLock = Clients
    BY DEF NameHeld, Client, Pools, InMaking, InVaults
  <2> QED
    BY <1>1, <2>2, <2>3, <2>4 DEF UnlockName
<1>6. to \in InMaking \cup {"pool"} => nameLock'[Client(t)] = t
  BY <1>1, <1>3 DEF NameHeld
<1>7. \A u \in Builders : poolPc'[u] \in InMaking \cup {"pool"} => nameLock'[Client(u)'] = u
  BY <1>2, <1>3, <1>5, <1>6 DEF NameHeld
<1>8. poolPc' \in [Builders -> PoolPcs] /\ DOMAIN call' = Builders /\ made' \in [Pools -> Nat]
  BY <1>1 DEF NameHeld, NameStep
<1>9. \A u \in Builders : poolPc'[u] # "idle" => call'[u] \in Pools
  BY <1>2, <1>3 DEF NameHeld, NameStep
<1>10. \A u \in Builders : poolPc'[u] \in InMaking => made'[call'[u]] = 0
  BY <1>1, <1>2, <1>3 DEF NameHeld, NameStep, InMaking
<1> QED
  BY <1>4, <1>7, <1>8, <1>9, <1>10 DEF NameHeld, NameStep, PoolMadeOnce

\* The thread that looks for a name, and the one that puts its pool there.
LEMMA NameEnds ==
  ASSUME NameHeld, PoolMadeOnce, NEW t \in Builders, FindPools(t) \/ MakePool(t)
  PROVE  NameHeld' /\ PoolMadeOnce'
<1>1. CASE FindPools(t)
  <2>1. /\ poolPc[t] = "idle" /\ \E to \in {"name", "failed"} : poolPc' = [poolPc EXCEPT ![t] = to]
        /\ \E p \in Pools : call' = [call EXCEPT ![t] = p]
        /\ UNCHANGED <<nameLock, made>>
    BY <1>1 DEF FindPools, PoolGoto, poolMap
  <2>2. \A u \in Builders \ {t} : Client(u)' = Client(u) /\ poolPc'[u] = poolPc[u] /\ call'[u] = call[u]
    BY <2>1 DEF NameHeld, Client
  <2>3. poolPc'[t] \in {"name", "failed"} /\ call'[t] \in Pools
    BY <2>1 DEF NameHeld
  <2> QED
    BY <2>1, <2>2, <2>3 DEF NameHeld, PoolMadeOnce, PoolPcs, InMaking, InVaults
<1>2. CASE MakePool(t)
  <2>1. /\ poolPc[t] = "options" /\ poolPc' = [poolPc EXCEPT ![t] = "acquire"]
        /\ made' = [made EXCEPT ![call[t]] = @ + 1] /\ UnlockName(t) /\ call' = call
    BY <1>2 DEF MakePool, PoolGoto
  <2>2. call[t] \in Pools /\ made[call[t]] = 0 /\ nameLock[Client(t)] = t /\ made \in [Pools -> Nat]
    BY <2>1 DEF NameHeld, InMaking
  <2>3. \A u \in Builders \ {t} :
          poolPc[u] \in InMaking \cup {"pool"} => Client(u) # Client(t) /\ Client(u) \in Clients /\ call[u] # call[t]
    BY <2>2 DEF NameHeld, Client, Pools, InMaking, InVaults
  <2>4. made' \in [Pools -> Nat] /\ PoolMadeOnce'
    BY <2>1, <2>2 DEF PoolMadeOnce
  <2>5. /\ \A u \in Builders : Client(u)' = Client(u) /\ (u # t => poolPc'[u] = poolPc[u])
        /\ poolPc'[t] = "acquire" /\ "acquire" \notin InMaking \cup {"pool"} /\ poolPc' \in [Builders -> PoolPcs]
    BY <2>1 DEF NameHeld, Client, PoolPcs, InMaking, InVaults
  <2>6. \A u \in Builders : poolPc'[u] \in InMaking \cup {"pool"} => nameLock'[Client(u)'] = u
    BY <2>1, <2>3, <2>5 DEF NameHeld, UnlockName
  <2>7. \A u \in Builders : poolPc'[u] \in InMaking => made'[call'[u]] = 0
    BY <2>1, <2>3, <2>5 DEF NameHeld, InMaking, InVaults
  <2>8. DOMAIN nameLock' = Clients /\ DOMAIN call' = Builders
    BY <2>1 DEF NameHeld, UnlockName
  <2>9. \A u \in Builders : poolPc'[u] # "idle" => call'[u] \in Pools
    BY <2>1, <2>2, <2>5 DEF NameHeld
  <2> QED
    BY <2>4, <2>5, <2>6, <2>7, <2>8, <2>9 DEF NameHeld
<1> QED
  BY <1>1, <1>2

LEMMA NamesAlways ==
  /\ PoolInit => NameHeld /\ PoolMadeOnce
  /\ NameHeld /\ PoolMadeOnce /\ [PoolNext]_poolVars => NameHeld' /\ PoolMadeOnce'
<1>1. PoolInit => NameHeld /\ PoolMadeOnce
  BY DEF PoolInit, NameHeld, PoolMadeOnce, PoolPcs, InMaking, InVaults
<1>2. ASSUME NameHeld, PoolMadeOnce, [PoolNext]_poolVars PROVE NameHeld' /\ PoolMadeOnce'
  <2>1. CASE UNCHANGED poolVars
    BY <1>2, <2>1 DEF poolVars, poolMap, NameHeld, PoolMadeOnce, Client
  <2>2. CASE \E t \in Builders : FindPools(t) \/ MakePool(t)
    BY <1>2, <2>2, NameEnds
  <2>3. CASE \E t \in Builders :
                LockName(t) \/ FindPool(t) \/ PoolThrows(t) \/ CreateKeyVault(t) \/ EmplaceVault(t)
                \/ CreateDataKeys(t) \/ RecordKeys(t) \/ CreateCollection(t) \/ EncryptionContextDone(t) \/ Acquire(t)
    BY <1>2, <2>3, NameSteps, NameKept
  <2> QED
    BY <1>2, <2>1, <2>2, <2>3 DEF PoolNext, Build
<1> QED
  BY <1>1, <1>2

\* PoolMadeOnce: however many threads ask for a pool at once, and whichever of
\* them an exception ends on the way, a pool is constructed once at most.
THEOREM PoolsAreMadeOnce == PoolSpec => []PoolMadeOnce
  BY NamesAlways, PTL DEF PoolSpec

-----------------------------------------------------------------------------
(* createClient(): a pool has the keys its server has.                     *)

KV(c) == <<Uri[c], Vault[c]>>
StoreOf(c) == <<Server[Uri[c]], Vault[c]>>
PlaceOf(c, n) == <<Server[Uri[c]], n>>

\* Clients of one server reach a key vault through one URI, and an encrypted
\* collection has one key vault.  A configuration may break this: a key vault is
\* known by the URI, and a second URI for its server drops what it has.
SeparateVaults ==
  \A c, d \in Clients : Server[Uri[c]] = Server[Uri[d]] =>
    /\ Vault[c] = Vault[d] /\ Vault[c] # NoVault => Uri[c] = Uri[d]
    /\ Encrypted[c] \cap Encrypted[d] # {} => Vault[c] = Vault[d]

LEMMA VaultIds ==
  ASSUME NEW c \in Clients, Vault[c] # NoVault
  PROVE  KV(c) \in KeyVaultID /\ StoreOf(c) \in Servers \X Vaults
  BY DEF KV, StoreOf, KeyVaultID, Uris, Vaults, Servers

LEMMA Places ==
  ASSUME NEW c \in Clients, NEW n \in Encrypted[c]
  PROVE  Vault[c] # NoVault /\ n \in Collections /\ PlaceOf(c, n) \in Servers \X Collections
  BY PoolAssumption DEF PlaceOf, Uris, Servers

LEMMA SameStore ==
  ASSUME SeparateVaults, NEW c \in Clients, NEW d \in Clients, Vault[c] # NoVault, StoreOf(c) = StoreOf(d)
  PROVE  KV(c) = KV(d)
  BY DEF SeparateVaults, KV, StoreOf

LEMMA SamePlace ==
  ASSUME SeparateVaults, NEW c \in Clients, NEW d \in Clients, NEW n \in Encrypted[c], NEW m \in Encrypted[d],
         PlaceOf(c, n) = PlaceOf(d, m)
  PROVE  n = m /\ KV(c) = KV(d)
<1>1. n = m /\ Server[Uri[c]] = Server[Uri[d]]
  BY DEF PlaceOf
<1>2. Vault[c] # NoVault
  BY Places
<1> QED
  BY <1>1, <1>2 DEF SeparateVaults, KV

VaultTypes ==
  /\ knownVaults \subseteq KeyVaultID
  /\ keyVaults \in [KeyVaultID -> [Collections -> Nat]]
  /\ DOMAIN pools = Pools /\ raced \subseteq Pools
  /\ DOMAIN stored = Servers \X Vaults
  /\ DOMAIN created = Servers \X Collections
  /\ lastKey \in Nat

\* The collection of a key that is recorded is still to be made for it.
StillToMake(c, n) ==
  \E t \in Builders : poolPc[t] = "create" /\ KV(Client(t)) = KV(c) /\ coll = n

\* A key is recorded, and whoever recorded it is done with its collection.
Settled(c, n) == keyVaults[KV(c)][n] # NoKey /\ ~StillToMake(c, n)

\* What the thread with the lock of the key vaults is at.
VaultsHeld ==
  \A t \in Builders :
    /\ poolPc[t] \in InVaults => vaultsLock = t
    /\ poolPc[t] \in InVaults \cup {"vaults"} => Vault[Client(t)] # NoVault
    /\ poolPc[t] \in {"collection", "record", "create"} => KV(Client(t)) \in knownVaults
    /\ poolPc[t] \in {"record", "create"} => coll \in Encrypted[Client(t)]
    /\ poolPc[t] = "record" => /\ keyVaults[KV(Client(t))][coll] = NoKey
                               /\ key \in Nat \ {NoKey}
                               /\ ~dryRun => key \in stored[StoreOf(Client(t))]
    /\ poolPc[t] = "create" => keyVaults[KV(Client(t))][coll] = key

\* A key that is recorded is in its key vault, and its collection was made for
\* it or is about to be, unless the request that makes it has failed.
KeysStored ==
  \A c \in Clients : \A n \in Encrypted[c] :
    keyVaults[KV(c)][n] # NoKey =>
      /\ KV(c) \in knownVaults
      /\ ~dryRun => /\ keyVaults[KV(c)][n] \in stored[StoreOf(c)]
                    /\ \/ created[PlaceOf(c, n)] = keyVaults[KV(c)][n]
                       \/ StillToMake(c, n)
                       \/ PlaceOf(c, n) \in orphans

\* Who makes a pool, and whoever has made one, left the key vaults with the keys
\* of its collections settled; what the pool has of them is what was recorded,
\* and it has all of them but for a race.
PoolsHaveKeys ==
  /\ \A t \in Builders, c \in Clients : poolPc[t] = "options" /\ Client(t) = c =>
       \A n \in Encrypted[c] : Settled(c, n)
  /\ \A p \in Pools : made[p] > 0 => \A n \in Encrypted[p[1]] :
       /\ Settled(p[1], n)
       /\ pools[p][n] = NoKey => p \in raced
       /\ pools[p][n] # NoKey => pools[p][n] = keyVaults[KV(p[1])][n]

\* Only a call that has failed leaves a collection unmade.
OrphansFailed == orphans # {} => \E t \in Builders : poolPc[t] = "failed"

KeysInv == VaultTypes /\ VaultsHeld /\ KeysStored /\ PoolsHaveKeys /\ OrphansFailed

LEMMA KeysAreUsable ==
  ASSUME NameHeld, KeysInv
  PROVE  PoolsComplete
<1> SUFFICES ASSUME NEW p \in Pools, made[p] > 0, NEW n \in Encrypted[p[1]]
             PROVE  /\ pools[p][n] = NoKey => p \in raced
                    /\ pools[p][n] # NoKey /\ ~dryRun =>
                         /\ pools[p][n] \in stored[StoreOf(p[1])]
                         /\ created[PlaceOf(p[1], n)] = pools[p][n] \/ PlaceOf(p[1], n) \in orphans
  BY DEF PoolsComplete, Usable, StoreOf, PlaceOf, KeysInv, OrphansFailed
<1>1. p[1] \in Clients
  BY DEF Pools
<1>2. /\ keyVaults[KV(p[1])][n] # NoKey /\ ~StillToMake(p[1], n)
      /\ pools[p][n] = NoKey => p \in raced
      /\ pools[p][n] # NoKey => pools[p][n] = keyVaults[KV(p[1])][n]
  BY DEF KeysInv, PoolsHaveKeys, Settled
<1> QED
  BY <1>1, <1>2 DEF KeysInv, KeysStored

\* A step that settles no fewer keys, and makes no pool, keeps what pools have.
LEMMA PoolsKeep ==
  ASSUME PoolsHaveKeys, UNCHANGED <<pools, made, raced>>,
         \A c \in Clients : \A n \in Encrypted[c] :
           Settled(c, n) => Settled(c, n)' /\ keyVaults'[KV(c)][n] = keyVaults[KV(c)][n],
         \A t \in Builders, c \in Clients : poolPc'[t] = "options" /\ Client(t)' = c =>
           \/ poolPc[t] = "options" /\ Client(t) = c
           \/ \A n \in Encrypted[c] : Settled(c, n)'
  PROVE  PoolsHaveKeys'
<1>1. \A p \in Pools : p[1] \in Clients
  BY DEF Pools
<1>2. \A t \in Builders, c \in Clients : poolPc'[t] = "options" /\ Client(t)' = c =>
        \A n \in Encrypted[c] : Settled(c, n)'
  BY DEF PoolsHaveKeys
<1>3. \A p \in Pools : made'[p] > 0 => \A n \in Encrypted[p[1]] :
        /\ Settled(p[1], n)'
        /\ pools'[p][n] = NoKey => p \in raced'
        /\ pools'[p][n] # NoKey => pools'[p][n] = keyVaults'[KV(p[1])][n]
  BY <1>1 DEF PoolsHaveKeys
<1> QED
  BY <1>2, <1>3 DEF PoolsHaveKeys

\* One thread goes from one place to another, its call unchanged.
PoolMoves(t, from, to) ==
  /\ poolPc[t] = from /\ poolPc'[t] = to
  /\ \A u \in Builders \ {t} : poolPc'[u] = poolPc[u]
  /\ \A u \in Builders : Client(u)' = Client(u)
  /\ Client(t) \in Clients

LEMMA GotoMoves ==
  ASSUME NameHeld, NEW t \in Builders, NEW from, NEW to, from # "idle",
         PoolGoto(t, from, to), UNCHANGED call
  PROVE  PoolMoves(t, from, to)
  BY DEF PoolMoves, PoolGoto, NameHeld, Client, Pools

\* With the lock of the key vaults free, or its own, a thread is alone there.
LEMMA AloneInVaults ==
  ASSUME VaultsHeld, NEW t \in Builders, vaultsLock \in {t, Nobody}
  PROVE  \A u \in Builders \ {t} : poolPc[u] \notin InVaults
  BY PoolAssumption DEF VaultsHeld

\* Before the key vaults and after the pool is made.
LEMMA CallSteps ==
  ASSUME NameHeld, KeysInv, NEW t \in Builders, FindPools(t) \/ LockName(t) \/ FindPool(t) \/ Acquire(t)
  PROVE  KeysInv'
<1>1. UNCHANGED <<dryRun, pools, made, raced, vaultVars, serverVars>>
  BY DEF FindPools, LockName, FindPool, Acquire, poolMap
<1>2. \A u \in Builders \ {t} : poolPc'[u] = poolPc[u] /\ Client(u)' = Client(u)
  BY DEF FindPools, LockName, FindPool, Acquire, PoolGoto, NameHeld, Client
<1>3. /\ poolPc[t] \notin InVaults
      /\ poolPc'[t] \notin InVaults
      /\ poolPc'[t] = "vaults" => Vault[Client(t)'] # NoVault
      /\ poolPc'[t] = "options" => Encrypted[Client(t)'] = {}
      /\ poolPc[t] # "failed"
  <2>1. CASE FindPools(t)
    BY <2>1 DEF FindPools, PoolGoto, NameHeld, InVaults
  <2>2. CASE LockName(t)
    BY <2>2 DEF LockName, PoolGoto, NameHeld, InVaults
  <2>3. CASE FindPool(t)
    <3>1. Client(t) \in Clients /\ Client(t)' = Client(t)
      BY <2>3 DEF FindPool, PoolGoto, NameHeld, Client, Pools
    <3>2. poolPc[t] = "pool" /\ poolPc'[t] \in {"acquire", IF Vault[Client(t)] = NoVault THEN "options" ELSE "vaults"}
      BY <2>3 DEF FindPool, PoolGoto, NameHeld
    <3> QED
      BY <3>1, <3>2, PoolAssumption DEF InVaults
  <2>4. CASE Acquire(t)
    BY <2>4 DEF Acquire, PoolGoto, NameHeld, InVaults
  <2> QED
    BY <2>1, <2>2, <2>3, <2>4
<1>4. VaultTypes' /\ OrphansFailed'
  BY <1>1, <1>2, <1>3 DEF KeysInv, VaultTypes, OrphansFailed, vaultVars, serverVars
<1>5. VaultsHeld'
  BY <1>1, <1>2, <1>3 DEF KeysInv, VaultsHeld, InVaults, vaultVars, serverVars
<1>6. \A c \in Clients : \A n \in Encrypted[c] : StillToMake(c, n) <=> StillToMake(c, n)'
  BY <1>1, <1>2, <1>3 DEF StillToMake, vaultVars, InVaults
<1>7. KeysStored'
  BY <1>1, <1>6 DEF KeysInv, KeysStored, vaultVars, serverVars
<1>8. \A c \in Clients : \A n \in Encrypted[c] :
        Settled(c, n) => Settled(c, n)' /\ keyVaults'[KV(c)][n] = keyVaults[KV(c)][n]
  BY <1>1, <1>6 DEF Settled, vaultVars
<1>9. PoolsHaveKeys'
  BY <1>1, <1>2, <1>3, <1>8, PoolsKeep DEF KeysInv
<1> QED
  BY <1>4, <1>5, <1>7, <1>9 DEF KeysInv

\* The key vault that is dropped is nobody's: who has a key knows its vault.
LEMMA VaultCreated ==
  ASSUME SeparateVaults, NameHeld, KeysInv, NEW t \in Builders, CreateKeyVault(t)
  PROVE  KeysInv'
<1>1. UNCHANGED <<dryRun, call, pools, made, raced, knownVaults, keyVaults, coll, key, lastKey, created, orphans>>
  BY DEF CreateKeyVault, poolMap
<1>2. /\ vaultsLock = Nobody /\ vaultsLock' = t
      /\ \/ /\ KV(Client(t)) \notin knownVaults /\ PoolMoves(t, "vaults", "emplace")
            /\ stored' = IF dryRun THEN stored ELSE [stored EXCEPT ![StoreOf(Client(t))] = {}]
         \/ /\ KV(Client(t)) \in knownVaults /\ PoolMoves(t, "vaults", "collection") /\ stored' = stored
  BY <1>1, GotoMoves DEF CreateKeyVault, KvId, KV, At, StoreOf
<1>3. \A u \in Builders \ {t} : poolPc[u] \notin InVaults
  BY <1>2, AloneInVaults DEF KeysInv
<1>4. Vault[Client(t)] # NoVault /\ Client(t) \in Clients
  BY <1>2 DEF PoolMoves, KeysInv, VaultsHeld
<1>5. VaultTypes' /\ OrphansFailed'
  BY <1>1, <1>2 DEF KeysInv, VaultTypes, OrphansFailed, PoolMoves
<1>6. VaultsHeld'
  BY <1>1, <1>2, <1>3, <1>4 DEF KeysInv, VaultsHeld, PoolMoves, InVaults
<1>7. KeysStored'
  <2> SUFFICES ASSUME NEW c \in Clients, NEW n \in Encrypted[c], keyVaults[KV(c)][n] # NoKey
               PROVE  /\ KV(c) \in knownVaults
                      /\ ~dryRun => /\ keyVaults[KV(c)][n] \in stored'[StoreOf(c)]
                                    /\ created[PlaceOf(c, n)] = keyVaults[KV(c)][n] \/ PlaceOf(c, n) \in orphans
    BY <1>1 DEF KeysStored
  <2>1. /\ KV(c) \in knownVaults
        /\ ~dryRun => /\ keyVaults[KV(c)][n] \in stored[StoreOf(c)]
                      /\ created[PlaceOf(c, n)] = keyVaults[KV(c)][n] \/ StillToMake(c, n) \/ PlaceOf(c, n) \in orphans
    BY DEF KeysInv, KeysStored
  <2>2. ~StillToMake(c, n)
    BY <1>2, <1>3 DEF StillToMake, PoolMoves, InVaults
  <2>3. Vault[c] # NoVault /\ StoreOf(c) \in DOMAIN stored
    BY Places, VaultIds DEF KeysInv, VaultTypes
  <2>4. KV(Client(t)) \notin knownVaults => StoreOf(c) # StoreOf(Client(t))
    BY <1>4, <2>1, <2>3, SameStore
  <2> QED
    BY <1>2, <2>1, <2>2, <2>3, <2>4
<1>8. \A c \in Clients : \A n \in Encrypted[c] : ~StillToMake(c, n)'
  BY <1>1, <1>2, <1>3 DEF StillToMake, PoolMoves, InVaults
<1>9. PoolsHaveKeys'
  <2>1. \A c \in Clients : \A n \in Encrypted[c] :
          Settled(c, n) => Settled(c, n)' /\ keyVaults'[KV(c)][n] = keyVaults[KV(c)][n]
    BY <1>1, <1>8 DEF Settled
  <2> QED
    BY <1>1, <1>2, <2>1, PoolsKeep DEF KeysInv, PoolMoves
<1> QED
  BY <1>5, <1>6, <1>7, <1>9 DEF KeysInv

LEMMA VaultEmplaced ==
  ASSUME NameHeld, KeysInv, NEW t \in Builders, EmplaceVault(t)
  PROVE  KeysInv'
<1>1. /\ UNCHANGED <<dryRun, call, pools, made, raced, vaultsLock, keyVaults, coll, key, lastKey, stored, created, orphans>>
      /\ knownVaults' = knownVaults \cup {KV(Client(t))} /\ PoolMoves(t, "emplace", "collection")
  BY GotoMoves DEF EmplaceVault, poolMap, serverVars, KvId, KV
<1>2. vaultsLock = t /\ Vault[Client(t)] # NoVault /\ Client(t) \in Clients
  BY <1>1 DEF PoolMoves, KeysInv, VaultsHeld, InVaults
<1>3. \A u \in Builders \ {t} : poolPc[u] \notin InVaults
  BY <1>2, AloneInVaults DEF KeysInv
<1>4. VaultTypes' /\ OrphansFailed'
  BY <1>1, <1>2, VaultIds DEF KeysInv, VaultTypes, OrphansFailed, PoolMoves
<1>5. VaultsHeld'
  BY <1>1, <1>2, <1>3 DEF KeysInv, VaultsHeld, PoolMoves, InVaults
<1>6. \A c \in Clients : \A n \in Encrypted[c] : ~StillToMake(c, n) /\ ~StillToMake(c, n)'
  BY <1>1, <1>3 DEF StillToMake, PoolMoves, InVaults
<1>7. KeysStored'
  BY <1>1, <1>6 DEF KeysInv, KeysStored
<1>8. PoolsHaveKeys'
  <2>1. \A c \in Clients : \A n \in Encrypted[c] :
          Settled(c, n) => Settled(c, n)' /\ keyVaults'[KV(c)][n] = keyVaults[KV(c)][n]
    BY <1>1, <1>6 DEF Settled
  <2> QED
    BY <1>1, <2>1, PoolsKeep DEF KeysInv, PoolMoves
<1> QED
  BY <1>4, <1>5, <1>7, <1>8 DEF KeysInv

\* A data key is in its key vault before it is recorded.
LEMMA KeyCreated ==
  ASSUME NameHeld, KeysInv, NEW t \in Builders, CreateDataKeys(t)
  PROVE  KeysInv'
<1>1. /\ UNCHANGED <<dryRun, call, pools, made, raced, vaultsLock, knownVaults, keyVaults, created, orphans>>
      /\ PoolMoves(t, "collection", "record")
      /\ coll' \in Encrypted[Client(t)] /\ keyVaults[KV(Client(t))][coll'] = NoKey
      /\ lastKey' = lastKey + 1 /\ key' = lastKey'
      /\ stored' = IF dryRun THEN stored ELSE [stored EXCEPT ![StoreOf(Client(t))] = @ \cup {key'}]
  BY GotoMoves DEF CreateDataKeys, poolMap, KvId, KV, At, StoreOf
<1>2. /\ vaultsLock = t /\ Vault[Client(t)] # NoVault /\ Client(t) \in Clients
      /\ KV(Client(t)) \in knownVaults
  BY <1>1 DEF PoolMoves, KeysInv, VaultsHeld, InVaults
<1>3. \A u \in Builders \ {t} : poolPc[u] \notin InVaults
  BY <1>2, AloneInVaults DEF KeysInv
<1>4. key' \in Nat \ {NoKey} /\ lastKey' \in Nat
  BY <1>1 DEF KeysInv, VaultTypes, NoKey
<1>5. VaultTypes' /\ OrphansFailed'
  BY <1>1, <1>4 DEF KeysInv, VaultTypes, OrphansFailed, PoolMoves
<1>6. StoreOf(Client(t)) \in DOMAIN stored
  BY <1>2, VaultIds DEF KeysInv, VaultTypes
<1>7. ~dryRun => key' \in stored'[StoreOf(Client(t))]
  BY <1>1, <1>6
<1>8. VaultsHeld'
  BY <1>1, <1>2, <1>3, <1>4, <1>7 DEF KeysInv, VaultsHeld, PoolMoves, InVaults
<1>9. \A c \in Clients : \A n \in Encrypted[c] : ~StillToMake(c, n) /\ ~StillToMake(c, n)'
  BY <1>1, <1>3 DEF StillToMake, PoolMoves, InVaults
<1>10. \A c \in Clients : Vault[c] # NoVault => stored[StoreOf(c)] \subseteq stored'[StoreOf(c)]
  BY <1>1, VaultIds DEF KeysInv, VaultTypes
<1>11. KeysStored'
  BY <1>1, <1>9, <1>10, Places DEF KeysInv, KeysStored
<1>12. PoolsHaveKeys'
  <2>1. \A c \in Clients : \A n \in Encrypted[c] :
          Settled(c, n) => Settled(c, n)' /\ keyVaults'[KV(c)][n] = keyVaults[KV(c)][n]
    BY <1>1, <1>9 DEF Settled
  <2> QED
    BY <1>1, <2>1, PoolsKeep DEF KeysInv, PoolMoves
<1> QED
  BY <1>5, <1>8, <1>11, <1>12 DEF KeysInv

LEMMA KeyRecorded ==
  ASSUME NameHeld, KeysInv, NEW t \in Builders, RecordKeys(t)
  PROVE  KeysInv'
<1>1. /\ UNCHANGED <<dryRun, call, pools, made, raced, vaultsLock, knownVaults, coll, key, lastKey, stored, created, orphans>>
      /\ PoolMoves(t, "record", "create")
      /\ keyVaults' = [keyVaults EXCEPT ![KV(Client(t))][coll] = key]
  BY GotoMoves DEF RecordKeys, poolMap, serverVars, KvId, KV
<1>2. /\ vaultsLock = t /\ Vault[Client(t)] # NoVault /\ Client(t) \in Clients
      /\ KV(Client(t)) \in knownVaults /\ coll \in Encrypted[Client(t)]
      /\ keyVaults[KV(Client(t))][coll] = NoKey /\ key \in Nat \ {NoKey}
      /\ ~dryRun => key \in stored[StoreOf(Client(t))]
  BY <1>1 DEF PoolMoves, KeysInv, VaultsHeld, InVaults
<1>3. \A u \in Builders \ {t} : poolPc[u] \notin InVaults
  BY <1>2, AloneInVaults DEF KeysInv
<1>4. KV(Client(t)) \in KeyVaultID /\ coll \in Collections
  BY <1>2, VaultIds, Places
<1>5. /\ keyVaults' \in [KeyVaultID -> [Collections -> Nat]]
      /\ keyVaults'[KV(Client(t))][coll] = key
      /\ \A v \in KeyVaultID, n \in Collections :
           v # KV(Client(t)) \/ n # coll => keyVaults'[v][n] = keyVaults[v][n]
  BY <1>1, <1>2, <1>4 DEF KeysInv, VaultTypes
<1>6. \A c \in Clients : \A n \in Encrypted[c] : KV(c) \in KeyVaultID /\ n \in Collections
  BY Places, VaultIds
<1>7. \A c \in Clients : \A n \in Encrypted[c] :
        keyVaults[KV(c)][n] # NoKey => keyVaults'[KV(c)][n] = keyVaults[KV(c)][n]
  BY <1>2, <1>5, <1>6
<1>8. VaultTypes' /\ OrphansFailed'
  BY <1>1, <1>5 DEF KeysInv, VaultTypes, OrphansFailed, PoolMoves
<1>9. PoolsHaveKeys'
  <2>1. \A c \in Clients : \A n \in Encrypted[c] : keyVaults[KV(c)][n] # NoKey => ~StillToMake(c, n)'
    BY <1>1, <1>2, <1>3 DEF StillToMake, PoolMoves, InVaults
  <2>2. \A c \in Clients : \A n \in Encrypted[c] :
          Settled(c, n) => Settled(c, n)' /\ keyVaults'[KV(c)][n] = keyVaults[KV(c)][n]
    BY <1>7, <2>1 DEF Settled
  <2> QED
    BY <1>1, <2>2, PoolsKeep DEF KeysInv, PoolMoves
<1>11. VaultsHeld'
  BY <1>1, <1>2, <1>3, <1>5 DEF KeysInv, VaultsHeld, PoolMoves, InVaults
<1>12. KeysStored'
  <2> SUFFICES ASSUME NEW c \in Clients, NEW n \in Encrypted[c], keyVaults'[KV(c)][n] # NoKey
               PROVE  /\ KV(c) \in knownVaults
                      /\ ~dryRun => /\ keyVaults'[KV(c)][n] \in stored[StoreOf(c)]
                                    /\ \/ created[PlaceOf(c, n)] = keyVaults'[KV(c)][n]
                                       \/ StillToMake(c, n)' \/ PlaceOf(c, n) \in orphans
    BY <1>1 DEF KeysStored
  <2>1. CASE KV(c) = KV(Client(t)) /\ n = coll
    <3>1. StillToMake(c, n)'
      BY <1>1, <2>1 DEF StillToMake, PoolMoves
    <3>2. StoreOf(c) = StoreOf(Client(t))
      BY <2>1 DEF KV, StoreOf
    <3> QED
      BY <1>2, <1>5, <2>1, <3>1, <3>2
  <2>2. CASE KV(c) # KV(Client(t)) \/ n # coll
    <3>1. keyVaults'[KV(c)][n] = keyVaults[KV(c)][n]
      BY <1>5, <1>6, <2>2
    <3>2. ~StillToMake(c, n)
      BY <1>1, <1>3 DEF StillToMake, PoolMoves, InVaults
    <3> QED
      BY <3>1, <3>2 DEF KeysInv, KeysStored
  <2> QED
    BY <2>1, <2>2
<1> QED
  BY <1>8, <1>9, <1>11, <1>12 DEF KeysInv

\* The collection that is dropped and made again is no other key's.
LEMMA CollectionCreated ==
  ASSUME SeparateVaults, NameHeld, KeysInv, NEW t \in Builders, CreateCollection(t)
  PROVE  KeysInv'
<1>1. /\ UNCHANGED <<dryRun, call, pools, made, raced, vaultsLock, knownVaults, keyVaults, coll, key, lastKey, stored, orphans>>
      /\ PoolMoves(t, "create", "collection")
      /\ created' = IF dryRun THEN created ELSE [created EXCEPT ![PlaceOf(Client(t), coll)] = key]
  BY GotoMoves DEF CreateCollection, poolMap, vaultVars, At, PlaceOf
<1>2. /\ vaultsLock = t /\ Vault[Client(t)] # NoVault /\ Client(t) \in Clients
      /\ KV(Client(t)) \in knownVaults /\ coll \in Encrypted[Client(t)]
      /\ keyVaults[KV(Client(t))][coll] = key
  BY <1>1 DEF PoolMoves, KeysInv, VaultsHeld, InVaults
<1>3. \A u \in Builders \ {t} : poolPc[u] \notin InVaults
  BY <1>2, AloneInVaults DEF KeysInv
<1>4. VaultTypes' /\ OrphansFailed'
  BY <1>1 DEF KeysInv, VaultTypes, OrphansFailed, PoolMoves
<1>5. VaultsHeld'
  BY <1>1, <1>2, <1>3 DEF KeysInv, VaultsHeld, PoolMoves, InVaults
<1>6. KeysStored'
  <2> SUFFICES ASSUME NEW c \in Clients, NEW n \in Encrypted[c], keyVaults[KV(c)][n] # NoKey
               PROVE  /\ KV(c) \in knownVaults
                      /\ ~dryRun => /\ keyVaults[KV(c)][n] \in stored[StoreOf(c)]
                                    /\ created'[PlaceOf(c, n)] = keyVaults[KV(c)][n] \/ PlaceOf(c, n) \in orphans
    BY <1>1 DEF KeysStored
  <2>1. /\ KV(c) \in knownVaults
        /\ ~dryRun => /\ keyVaults[KV(c)][n] \in stored[StoreOf(c)]
                      /\ created[PlaceOf(c, n)] = keyVaults[KV(c)][n] \/ StillToMake(c, n) \/ PlaceOf(c, n) \in orphans
    BY DEF KeysInv, KeysStored
  <2>2. PlaceOf(c, n) \in DOMAIN created /\ PlaceOf(Client(t), coll) \in DOMAIN created
    BY <1>2, Places DEF KeysInv, VaultTypes
  <2>3. CASE KV(c) = KV(Client(t)) /\ n = coll
    <3>1. PlaceOf(c, n) = PlaceOf(Client(t), coll)
      BY <2>3 DEF KV, PlaceOf
    <3> QED
      BY <1>1, <1>2, <2>1, <2>2, <2>3, <3>1
  <2>4. CASE KV(c) # KV(Client(t)) \/ n # coll
    <3>1. PlaceOf(c, n) # PlaceOf(Client(t), coll)
      BY <1>2, <2>4, SamePlace
    <3>2. ~StillToMake(c, n)
      BY <1>1, <1>3, <2>4 DEF StillToMake, PoolMoves, InVaults
    <3> QED
      BY <1>1, <2>1, <2>2, <3>1, <3>2
  <2> QED
    BY <2>3, <2>4
<1>7. \A c \in Clients : \A n \in Encrypted[c] : ~StillToMake(c, n)'
  BY <1>1, <1>3 DEF StillToMake, PoolMoves, InVaults
<1>8. PoolsHaveKeys'
  <2>1. \A c \in Clients : \A n \in Encrypted[c] :
          Settled(c, n) => Settled(c, n)' /\ keyVaults'[KV(c)][n] = keyVaults[KV(c)][n]
    BY <1>1, <1>7 DEF Settled
  <2> QED
    BY <1>1, <2>1, PoolsKeep DEF KeysInv, PoolMoves
<1> QED
  BY <1>4, <1>5, <1>6, <1>8 DEF KeysInv

LEMMA ContextDone ==
  ASSUME NameHeld, KeysInv, NEW t \in Builders, EncryptionContextDone(t)
  PROVE  KeysInv'
<1>1. /\ UNCHANGED <<dryRun, call, pools, made, raced, knownVaults, keyVaults, coll, key, lastKey, stored, created, orphans>>
      /\ PoolMoves(t, "collection", "options")
      /\ \A n \in Encrypted[Client(t)] : keyVaults[KV(Client(t))][n] # NoKey
  BY GotoMoves DEF EncryptionContextDone, poolMap, serverVars, KvId, KV
<1>2. \A u \in Builders \ {t} : poolPc[u] \notin InVaults
  <2>1. vaultsLock = t
    BY <1>1 DEF PoolMoves, KeysInv, VaultsHeld, InVaults
  <2> QED
    BY <2>1, AloneInVaults DEF KeysInv
<1>3. VaultTypes' /\ OrphansFailed'
  BY <1>1 DEF KeysInv, VaultTypes, OrphansFailed, PoolMoves
<1>4. VaultsHeld'
  BY <1>1, <1>2 DEF KeysInv, VaultsHeld, PoolMoves, InVaults
<1>5. \A c \in Clients : \A n \in Encrypted[c] : ~StillToMake(c, n) /\ ~StillToMake(c, n)'
  BY <1>1, <1>2 DEF StillToMake, PoolMoves, InVaults
<1>6. KeysStored'
  BY <1>1, <1>5 DEF KeysInv, KeysStored
<1>7. PoolsHaveKeys'
  <2>1. \A c \in Clients : \A n \in Encrypted[c] :
          Settled(c, n) => Settled(c, n)' /\ keyVaults'[KV(c)][n] = keyVaults[KV(c)][n]
    BY <1>1, <1>5 DEF Settled
  <2>2. \A c \in Clients : c = Client(t) => \A n \in Encrypted[c] : Settled(c, n)'
    BY <1>1, <1>5 DEF Settled
  <2>3. \A u \in Builders, c \in Clients : poolPc'[u] = "options" /\ Client(u)' = c =>
           \/ poolPc[u] = "options" /\ Client(u) = c
           \/ \A n \in Encrypted[c] : Settled(c, n)'
    BY <1>1, <2>2 DEF PoolMoves
  <2> QED
    BY <1>1, <2>1, <2>3, PoolsKeep DEF KeysInv
<1> QED
  BY <1>3, <1>4, <1>6, <1>7 DEF KeysInv

\* An exception lets the locks go; a collection that was about to be made is not.
LEMMA CallThrows ==
  ASSUME NameHeld, KeysInv, NEW t \in Builders, PoolThrows(t)
  PROVE  KeysInv'
<1>1. /\ UNCHANGED <<dryRun, call, pools, made, raced, knownVaults, keyVaults, coll, key, lastKey, stored, created>>
      /\ poolPc[t] # "idle" /\ poolPc' = [poolPc EXCEPT ![t] = "failed"]
      /\ vaultsLock' = IF vaultsLock = t THEN Nobody ELSE vaultsLock
      /\ orphans' = IF poolPc[t] = "create" THEN orphans \cup {PlaceOf(Client(t), coll)} ELSE orphans
  BY DEF PoolThrows, poolMap, At, PlaceOf
<1>2. /\ poolPc'[t] = "failed" /\ \A u \in Builders \ {t} : poolPc'[u] = poolPc[u]
      /\ \A u \in Builders : Client(u)' = Client(u)
      /\ Client(t) \in Clients
  BY <1>1 DEF NameHeld, Client, Pools
<1>3. VaultTypes' /\ OrphansFailed'
  BY <1>1, <1>2 DEF KeysInv, VaultTypes, OrphansFailed
<1>4. VaultsHeld'
  BY <1>1, <1>2 DEF KeysInv, VaultsHeld, InVaults
<1>5. \A c \in Clients : \A n \in Encrypted[c] : StillToMake(c, n)' => StillToMake(c, n)
  BY <1>1, <1>2 DEF StillToMake
<1>6. \A c \in Clients : \A n \in Encrypted[c] :
        StillToMake(c, n) => StillToMake(c, n)' \/ PlaceOf(c, n) \in orphans'
  <2> SUFFICES ASSUME NEW c \in Clients, NEW n \in Encrypted[c], StillToMake(c, n)
               PROVE  StillToMake(c, n)' \/ PlaceOf(c, n) \in orphans'
    OBVIOUS
  <2>1. PICK u \in Builders : poolPc[u] = "create" /\ KV(Client(u)) = KV(c) /\ coll = n
    BY DEF StillToMake
  <2>2. CASE u = t
    <3>1. PlaceOf(c, n) = PlaceOf(Client(t), coll)
      BY <2>1, <2>2 DEF KV, PlaceOf
    <3> QED
      BY <1>1, <2>1, <2>2, <3>1
  <2>3. CASE u # t
    BY <1>1, <1>2, <2>1, <2>3 DEF StillToMake
  <2> QED
    BY <2>2, <2>3
<1>7. KeysStored'
  <2>1. orphans \subseteq orphans'
    BY <1>1
  <2> QED
    BY <1>1, <1>6, <2>1 DEF KeysInv, KeysStored
<1>8. PoolsHaveKeys'
  <2>1. \A c \in Clients : \A n \in Encrypted[c] :
          Settled(c, n) => Settled(c, n)' /\ keyVaults'[KV(c)][n] = keyVaults[KV(c)][n]
    BY <1>1, <1>5 DEF Settled
  <2>2. \A u \in Builders, c \in Clients : poolPc'[u] = "options" /\ Client(u)' = c =>
           poolPc[u] = "options" /\ Client(u) = c
    BY <1>2
  <2> QED
    BY <1>1, <2>1, <2>2, PoolsKeep DEF KeysInv
<1> QED
  BY <1>3, <1>4, <1>7, <1>8 DEF KeysInv

\* What makePool() reads from the map of key vaults is what was recorded; while
\* another thread is changing the map it may miss some of it.
LEMMA PoolMade ==
  ASSUME NameHeld, KeysInv, NEW t \in Builders, MakePool(t)
  PROVE  KeysInv'
<1>1. /\ UNCHANGED <<dryRun, call, vaultsLock, knownVaults, keyVaults, coll, key, lastKey, stored, created, orphans>>
      /\ PoolMoves(t, "options", "acquire")
      /\ made' = [made EXCEPT ![call[t]] = @ + 1]
  BY GotoMoves DEF MakePool, vaultVars, serverVars
<1>2. call[t] \in Pools /\ Client(t) = call[t][1] /\ Client(t) \in Clients
  BY <1>1 DEF NameHeld, PoolMoves, Client
<1>3. \A n \in Encrypted[Client(t)] :
        n \in Collections /\ generateSchemaMapDoc(t)[n] = keyVaults[KV(Client(t))][n]
  BY <1>2, Places DEF generateSchemaMapDoc, KvId, KV
<1>4. /\ raced \subseteq raced' /\ raced' \subseteq raced \cup {call[t]}
      /\ \E schema : /\ pools' = [pools EXCEPT ![call[t]] = schema]
                     /\ \A n \in Encrypted[Client(t)] :
                          \/ schema[n] = keyVaults[KV(Client(t))][n]
                          \/ schema[n] = NoKey /\ call[t] \in raced'
  <2>1. CASE Encrypted[Client(t)] # {} /\ \E u \in Builders : ChangesVaults(u)
    <3>1. raced' = raced \cup {call[t]}
      BY <2>1 DEF MakePool
    <3>2. PICK missed \in SUBSET Encrypted[Client(t)] :
            pools' = [pools EXCEPT ![call[t]] =
                        [c \in Collections |-> IF c \in missed THEN NoKey ELSE generateSchemaMapDoc(t)[c]]]
      BY <2>1 DEF MakePool
    <3> DEFINE schema == [c \in Collections |-> IF c \in missed THEN NoKey ELSE generateSchemaMapDoc(t)[c]]
    <3>3. \A n \in Encrypted[Client(t)] : schema[n] = keyVaults[KV(Client(t))][n] \/ schema[n] = NoKey
      BY <1>3
    <3> QED
      BY <3>1, <3>2, <3>3
  <2>2. CASE ~(Encrypted[Client(t)] # {} /\ \E u \in Builders : ChangesVaults(u))
    BY <1>3, <2>2 DEF MakePool
  <2> QED
    BY <2>1, <2>2
<1>6. VaultTypes' /\ OrphansFailed'
  BY <1>1, <1>2, <1>4 DEF KeysInv, VaultTypes, OrphansFailed, PoolMoves
<1>7. VaultsHeld'
  BY <1>1 DEF KeysInv, VaultsHeld, PoolMoves, InVaults
<1>8. \A c \in Clients : \A n \in Encrypted[c] : StillToMake(c, n) <=> StillToMake(c, n)'
  BY <1>1 DEF StillToMake, PoolMoves
<1>9. KeysStored'
  BY <1>1, <1>8 DEF KeysInv, KeysStored
<1>10. PoolsHaveKeys'
  <2>1. \A c \in Clients : \A n \in Encrypted[c] : Settled(c, n) => Settled(c, n)'
    BY <1>1, <1>8 DEF Settled
  <2>2. \A u \in Builders, c \in Clients : poolPc'[u] = "options" /\ Client(u)' = c =>
          \A n \in Encrypted[c] : Settled(c, n)'
    BY <1>1, <2>1 DEF PoolMoves, KeysInv, PoolsHaveKeys
  <2>3. ASSUME NEW p \in Pools, made'[p] > 0, NEW n \in Encrypted[p[1]]
        PROVE  /\ Settled(p[1], n)'
               /\ pools'[p][n] = NoKey => p \in raced'
               /\ pools'[p][n] # NoKey => pools'[p][n] = keyVaults'[KV(p[1])][n]
    <3>1. p[1] \in Clients
      BY DEF Pools
    <3>2. CASE p = call[t]
      <4>1. Settled(p[1], n)
        BY <1>1, <1>2, <2>3, <3>1, <3>2 DEF PoolMoves, KeysInv, PoolsHaveKeys
      <4>2. pools'[p][n] = keyVaults[KV(p[1])][n] \/ (pools'[p][n] = NoKey /\ p \in raced')
        BY <1>2, <1>4, <2>3, <3>2 DEF KeysInv, VaultTypes
      <4> QED
        BY <1>1, <2>1, <2>3, <3>1, <4>1, <4>2 DEF Settled
    <3>3. CASE p # call[t]
      <4>1. pools'[p] = pools[p] /\ made'[p] = made[p]
        BY <1>1, <1>4, <3>3 DEF KeysInv, VaultTypes, NameHeld
      <4> QED
        BY <1>1, <1>4, <2>1, <2>3, <3>1, <4>1 DEF KeysInv, PoolsHaveKeys
    <3> QED
      BY <3>2, <3>3
  <2> QED
    BY <2>2, <2>3 DEF PoolsHaveKeys
<1> QED
  BY <1>6, <1>7, <1>9, <1>10 DEF KeysInv

\* PoolsUsable: of clients whose key vaults are separate, each pool is made once,
\* and from then on has data keys its server has, and collections made for them,
\* whichever calls fail: no thread drops or replaces what another one relies on.
\* Only a pool that was read during a change of the map lacks keys, and only a
\* call that throws leaves a collection unmade.
THEOREM PoolsAreUsable ==
  ASSUME SeparateVaults
  PROVE  PoolSpec => []PoolsUsable
<1> DEFINE Inv == NameHeld /\ PoolMadeOnce /\ KeysInv
<1>1. PoolInit => Inv
  <2> SUFFICES ASSUME PoolInit PROVE Inv
    OBVIOUS
  <2>1. VaultTypes
    BY DEF PoolInit, VaultTypes, NoKey
  <2>2. VaultsHeld /\ PoolsHaveKeys /\ OrphansFailed
    BY DEF PoolInit, VaultsHeld, PoolsHaveKeys, OrphansFailed, InVaults
  <2>3. KeysStored
    BY Places, VaultIds DEF PoolInit, KeysStored
  <2> QED
    BY <2>1, <2>2, <2>3, NamesAlways DEF KeysInv
<1>2. Inv /\ [PoolNext]_poolVars => Inv'
  <2> SUFFICES ASSUME Inv, [PoolNext]_poolVars PROVE KeysInv'
    BY NamesAlways
  <2>1. CASE UNCHANGED poolVars
    BY <2>1 DEF poolVars, poolMap, vaultVars, serverVars, KeysInv, VaultTypes, VaultsHeld, KeysStored,
                PoolsHaveKeys, OrphansFailed, Settled, StillToMake, Client
  <2>2. CASE PoolNext
    <3>1. PICK t \in Builders : Build(t) \/ PoolThrows(t)
      BY <2>2 DEF PoolNext
    <3>2. CASE PoolThrows(t)
      BY <3>2, CallThrows
    <3>3. CASE FindPools(t) \/ LockName(t) \/ FindPool(t) \/ Acquire(t)
      BY <3>3, CallSteps
    <3>4. CASE CreateKeyVault(t) \/ CreateCollection(t)
      BY <3>4, VaultCreated, CollectionCreated
    <3>5. CASE EmplaceVault(t) \/ CreateDataKeys(t) \/ RecordKeys(t)
      BY <3>5, VaultEmplaced, KeyCreated, KeyRecorded
    <3>6. CASE EncryptionContextDone(t) \/ MakePool(t)
      BY <3>6, ContextDone, PoolMade
    <3> QED
      BY <3>1, <3>2, <3>3, <3>4, <3>5, <3>6 DEF Build
  <2> QED
    BY <2>1, <2>2
<1>3. Inv => PoolsUsable
  BY KeysAreUsable DEF PoolsUsable
<1> QED
  BY <1>1, <1>2, <1>3, PTL DEF PoolSpec

-----------------------------------------------------------------------------
(* The contexts of the actors, and their ids.                              *)

First(c) == contexts[c].firstId
Threads(c) == Actors[c].threads
Ids(c) == First(c) .. (First(c) + Threads(c) - 1)
PhaseKeys(c) == DOMAIN contexts[c].phases
LastIndex(c) == (Cardinality(PhaseKeys(c)) + PhaseNumbers - 1) % PhaseNumbers

\* The contexts claim intervals of ids that follow each other, and the RNGs of
\* what was claimed are made.
ContextsOK ==
  /\ workload \in Workloads
  /\ DOMAIN contexts = 1..Len(contexts) /\ Len(contexts) \in Nat /\ Len(contexts) <= Len(Actors)
  /\ nextWorkloadActorId \in Nat \ {0} /\ rngs \in Nat
  /\ contexts # <<>> => nextWorkloadActorId <= rngs
  /\ \A c \in DOMAIN contexts : First(c) \in Nat \ {0} /\ First(c) + Threads(c) <= nextWorkloadActorId
  /\ \A c, d \in DOMAIN contexts : c < d => First(c) + Threads(c) <= First(d)
  /\ stage \in {"make", "done"} => Len(contexts) = Len(Actors)

\* The Orchestrator was told of the last phase of each context, as its number
\* counts them, and of nothing else.
PhasesTold ==
  /\ maxPhase \in Nat
  /\ \A c \in DOMAIN contexts :
       /\ IsFiniteSet(PhaseKeys(c)) /\ Cardinality(PhaseKeys(c)) <= PhaseNumbers
       /\ ~Actors[c].hasPhases => PhaseKeys(c) = {}
       /\ Actors[c].phases # <<>> => PhaseKeys(c) # {}
       /\ Actors[c].hasPhases => LastIndex(c) <= maxPhase
  /\ maxPhase = 0 \/ \E c \in DOMAIN contexts : Actors[c].hasPhases /\ LastIndex(c) = maxPhase

\* The last index of a number of phases, as unsigned numbers have it.
LEMMA LastOfCount ==
  ASSUME NEW P \in Nat \ {0}, NEW k \in Nat
  PROVE  (k + P - 1) % P \in Nat /\ (k \in 1..P => (k + P - 1) % P = k - 1)
<1>1. k + P - 1 \in Nat
  OBVIOUS
<1>2. (k + P - 1) % P \in Nat
  BY <1>1
<1>3. k \in 1..P => (k + P - 1) % P = k - 1
  OBVIOUS
<1> QED
  BY <1>2, <1>3

LEMMA ActorsTyped ==
  ASSUME ContextsOK
  PROVE  /\ Contexts = 1..Len(Actors) /\ Len(Actors) \in Nat
         /\ \A c \in Contexts : Threads(c) \in Nat
         /\ DOMAIN contexts \subseteq Contexts
  BY PhasesAssumption DEF ContextsOK, Contexts, Actors, Threads

LEMMA ContextMade ==
  ASSUME ContextsOK, PhasesTold, NewActorContext
  PROVE  ContextsOK' /\ PhasesTold'
<1>0. PICK n : n = Len(contexts) + 1
  OBVIOUS
<1> DEFINE a == Actors[n]
           out == constructPhaseContexts(a.phases)
<1>1. /\ stage = "contexts" /\ Len(contexts) < Len(Actors) /\ UNCHANGED workload
      /\ \/ out.error /\ stage' = "failed" /\ UNCHANGED <<contexts, maxPhase, nextWorkloadActorId, rngs>>
         \/ /\ ~out.error /\ stage' = stage
            /\ contexts' = Append(contexts, [phases |-> out.phases, firstId |-> nextWorkloadActorId])
            /\ maxPhase' = IF a.hasPhases THEN phasesAtLeastTo(LastPhase(out)) ELSE maxPhase
            /\ claimActorIds(a.threads)
            /\ rngs' = Larger(rngs, nextWorkloadActorId')
  BY <1>0 DEF NewActorContext
<1>2. n \in Contexts /\ a.threads \in Nat /\ Actors' = Actors /\ Len(contexts) \in Nat
  BY <1>0, <1>1, PhasesAssumption DEF ContextsOK, Contexts, Actors
<1>3. CASE out.error
  <2>1. UNCHANGED <<contexts, maxPhase, nextWorkloadActorId, rngs>> /\ stage' = "failed"
    BY <1>1, <1>3
  <2>2. ContextsOK'
    BY <1>1, <1>2, <2>1 DEF ContextsOK, First, Threads
  <2>3. PhasesTold'
    BY <1>1, <1>2, <2>1 DEF PhasesTold, LastIndex, PhaseKeys
  <2> QED
    BY <2>2, <2>3
<1>4. CASE ~out.error
  <2>1. /\ contexts' = Append(contexts, [phases |-> out.phases, firstId |-> nextWorkloadActorId])
        /\ stage' = stage /\ nextWorkloadActorId' = nextWorkloadActorId + a.threads
        /\ rngs' = Larger(rngs, nextWorkloadActorId')
    BY <1>1, <1>4 DEF claimActorIds
  <2>2. /\ Len(contexts') = n /\ DOMAIN contexts' = 1..n
        /\ contexts'[n] = [phases |-> out.phases, firstId |-> nextWorkloadActorId]
        /\ \A c \in DOMAIN contexts : contexts'[c] = contexts[c]
    BY <1>0, <1>2, <2>1 DEF ContextsOK
  <2>3. DOMAIN contexts = 1..(n - 1) /\ n \in Nat \ {0}
    BY <1>0, <1>2 DEF ContextsOK
  <2>4. /\ First(n)' = nextWorkloadActorId /\ Threads(n)' = a.threads
        /\ \A c \in DOMAIN contexts : First(c)' = First(c) /\ Threads(c)' = Threads(c)
    BY <1>2, <2>2 DEF First, Threads
  <2>5. ContextsOK'
    <3>1. nextWorkloadActorId' \in Nat \ {0} /\ rngs' \in Nat /\ nextWorkloadActorId' <= rngs'
      BY <1>2, <2>1 DEF ContextsOK, Larger
    <3>2. \A c \in DOMAIN contexts : Threads(c) \in Nat
      BY ActorsTyped
    <3>3. \A c \in DOMAIN contexts' :
            First(c)' \in Nat \ {0} /\ First(c)' + Threads(c)' <= nextWorkloadActorId'
      BY <1>2, <2>1, <2>2, <2>3, <2>4, <3>2 DEF ContextsOK
    <3>4. \A c, d \in DOMAIN contexts' : c < d => First(c)' + Threads(c)' <= First(d)'
      <4> SUFFICES ASSUME NEW c \in DOMAIN contexts', NEW d \in DOMAIN contexts', c < d
                   PROVE  First(c)' + Threads(c)' <= First(d)'
        OBVIOUS
      <4>1. c \in DOMAIN contexts /\ (d = n \/ d \in DOMAIN contexts)
        BY <2>2, <2>3
      <4>2. First(c)' = First(c) /\ Threads(c)' = Threads(c)
        BY <2>4, <4>1
      <4> QED
        BY <2>4, <4>1, <4>2 DEF ContextsOK
    <3>5. stage' \notin {"make", "done"} /\ Len(contexts') \in Nat /\ Len(contexts') <= Len(Actors)
          /\ DOMAIN contexts' = 1..Len(contexts')
      BY <1>0, <1>1, <2>1, <2>2, <2>3, PhasesAssumption DEF ContextsOK, Actors
    <3> QED
      BY <1>1, <1>2, <3>1, <3>3, <3>4, <3>5 DEF ContextsOK
  <2>6. PhasesTold'
    <3>1. PhaseKeys(n)' = DOMAIN out.phases /\ LastIndex(n)' = LastPhase(out)
      BY <2>2 DEF PhaseKeys, LastIndex, LastPhase
    <3>2. \A c \in DOMAIN contexts : PhaseKeys(c)' = PhaseKeys(c) /\ LastIndex(c)' = LastIndex(c)
      BY <2>2 DEF PhaseKeys, LastIndex
    <3>3. /\ IsFiniteSet(PhaseKeys(n)') /\ Cardinality(PhaseKeys(n)') <= PhaseNumbers
          /\ ~a.hasPhases => PhaseKeys(n)' = {}
          /\ a.phases # <<>> => PhaseKeys(n)' # {}
      BY <1>2, <1>4, <3>1, PhasesAssumption DEF ContextsOK, Contexts, Actors
    <3>4. LastIndex(n)' \in Nat
      <4>1. Cardinality(PhaseKeys(n)') \in Nat
        BY <3>3, FS_CardinalityType
      <4> QED
        BY <4>1, WorkloadAssumption, LastOfCount DEF LastIndex
    <3>5. maxPhase' = IF a.hasPhases THEN Larger(maxPhase, LastIndex(n)') ELSE maxPhase
      BY <1>1, <1>4, <3>1 DEF phasesAtLeastTo
    <3>6. maxPhase' \in Nat /\ maxPhase <= maxPhase' /\ maxPhase \in Nat
      BY <3>4, <3>5 DEF PhasesTold, Larger
    <3>7. a.hasPhases => LastIndex(n)' <= maxPhase'
      BY <3>4, <3>5, <3>6 DEF Larger
    <3>8. maxPhase' = maxPhase \/ (a.hasPhases /\ maxPhase' = LastIndex(n)')
      BY <3>5 DEF Larger
    <3>9. \A c \in DOMAIN contexts : LastIndex(c) \in Nat
      <4> SUFFICES ASSUME NEW c \in DOMAIN contexts PROVE LastIndex(c) \in Nat
        OBVIOUS
      <4>1. Cardinality(PhaseKeys(c)) \in Nat
        BY FS_CardinalityType DEF PhasesTold
      <4> QED
        BY <4>1, WorkloadAssumption, LastOfCount DEF LastIndex
    <3> HIDE DEF out
    <3>10. \A c \in DOMAIN contexts' :
             /\ IsFiniteSet(PhaseKeys(c)') /\ Cardinality(PhaseKeys(c)') <= PhaseNumbers
             /\ ~Actors[c].hasPhases => PhaseKeys(c)' = {}
             /\ Actors[c].phases # <<>> => PhaseKeys(c)' # {}
             /\ Actors[c].hasPhases => LastIndex(c)' <= maxPhase'
      <4> SUFFICES ASSUME NEW c \in DOMAIN contexts'
                   PROVE  /\ IsFiniteSet(PhaseKeys(c)') /\ Cardinality(PhaseKeys(c)') <= PhaseNumbers
                          /\ ~Actors[c].hasPhases => PhaseKeys(c)' = {}
                          /\ Actors[c].phases # <<>> => PhaseKeys(c)' # {}
                          /\ Actors[c].hasPhases => LastIndex(c)' <= maxPhase'
        OBVIOUS
      <4>1. CASE c = n
        BY <3>3, <3>7, <4>1
      <4>2. CASE c # n
        <5>1. c \in DOMAIN contexts
          BY <2>2, <2>3, <4>2
        <5> QED
          BY <5>1, <3>2, <3>6, <3>9 DEF PhasesTold
      <4> QED
        BY <4>1, <4>2
    <3>11. maxPhase' = 0 \/ \E c \in DOMAIN contexts' : Actors[c].hasPhases /\ LastIndex(c)' = maxPhase'
      BY <2>2, <2>3, <3>2, <3>8 DEF PhasesTold
    <3> QED
      BY <1>2, <3>6, <3>10, <3>11 DEF PhasesTold
  <2> QED
    BY <2>5, <2>6
<1> QED
  BY <1>3, <1>4

\* A step of a thread that makes the actors of one context.
MakerStep(c) == Produce(c) \/ ConstructValue(c) \/ ConstructChecker(c) \/ ActorMade(c) \/ addItem(c)

\* No other step touches what the contexts claimed.
LEMMA ContextsKept ==
  ASSUME ContextsOK, [WorkloadNext]_workloadVars, ~NewActorContext
  PROVE  /\ UNCHANGED <<workload, contexts, maxPhase, nextWorkloadActorId, rngs>>
         /\ stage' \in {"make", "done"} => Len(contexts) = Len(Actors)
<1>1. CASE Register \/ BeginContexts \/ BeginMake \/ JoinMakers
  BY <1>1 DEF Register, BeginContexts, BeginMake, JoinMakers, setupVars, ContextsOK
<1>2. CASE \E c \in DOMAIN maker : MakerStep(c)
  BY <1>2 DEF MakerStep, Produce, ConstructValue, ConstructChecker, ActorMade, addItem, setupVars, ContextsOK
<1>3. CASE StartHook \/ StopHook \/ PeerAnswers
  BY <1>3 DEF StartHook, StopHook, PeerAnswers, setupVars, ContextsOK
<1>4. CASE UNCHANGED workloadVars
  BY <1>4 DEF workloadVars, setupVars, ContextsOK
<1> QED
  BY <1>1, <1>2, <1>3, <1>4 DEF WorkloadNext, MakerStep

LEMMA ContextsAlways ==
  /\ WorkloadInit => ContextsOK /\ PhasesTold
  /\ ContextsOK /\ PhasesTold /\ [WorkloadNext]_workloadVars => ContextsOK' /\ PhasesTold'
<1>1. WorkloadInit => ContextsOK /\ PhasesTold
  BY PhasesAssumption DEF WorkloadInit, ContextsOK, PhasesTold, Actors
<1>2. ASSUME ContextsOK, PhasesTold, [WorkloadNext]_workloadVars PROVE ContextsOK' /\ PhasesTold'
  <2>1. CASE NewActorContext
    BY <1>2, <2>1, ContextMade
  <2>2. CASE ~NewActorContext
    <3>1. /\ UNCHANGED <<workload, contexts, maxPhase, nextWorkloadActorId, rngs>>
          /\ stage' \in {"make", "done"} => Len(contexts) = Len(Actors)
      BY <1>2, <2>2, ContextsKept
    <3>2. ContextsOK'
      BY <1>2, <3>1 DEF ContextsOK, First, Threads, Actors
    <3>3. PhasesTold'
      BY <1>2, <3>1 DEF PhasesTold, LastIndex, PhaseKeys, Actors
    <3> QED
      BY <3>2, <3>3
  <2> QED
    BY <2>1, <2>2
<1> QED
  BY <1>1, <1>2

\* EveryPhaseRuns: of every workload, the Orchestrator goes through each phase of
\* an actor whose phases have no gap, and ends with a phase that some actor has,
\* unless a list of phases is empty and its size minus one wraps around.
THEOREM EveryPhaseIsRun == WorkloadSpec => []EveryPhaseRuns
<1>1. ContextsOK /\ PhasesTold => EveryPhaseRuns
  <2> SUFFICES ASSUME ContextsOK, PhasesTold, stage = "done" PROVE EveryPhaseRuns
    BY DEF EveryPhaseRuns
  <2>1. Contexts = DOMAIN contexts
    BY ActorsTyped DEF ContextsOK
  <2>2. \A c \in Contexts :
          /\ Cardinality(PhaseKeys(c)) \in Nat
          /\ PhaseKeys(c) # {} => LastIndex(c) = Cardinality(PhaseKeys(c)) - 1
    <3> SUFFICES ASSUME NEW c \in Contexts
                 PROVE  /\ Cardinality(PhaseKeys(c)) \in Nat
                        /\ PhaseKeys(c) # {} => LastIndex(c) = Cardinality(PhaseKeys(c)) - 1
      OBVIOUS
    <3>1. IsFiniteSet(PhaseKeys(c)) /\ Cardinality(PhaseKeys(c)) <= PhaseNumbers
      BY <2>1 DEF PhasesTold
    <3>2. Cardinality(PhaseKeys(c)) \in Nat /\ (PhaseKeys(c) # {} => Cardinality(PhaseKeys(c)) # 0)
      BY <3>1, FS_CardinalityType, FS_EmptySet
    <3>3. PhaseKeys(c) # {} => Cardinality(PhaseKeys(c)) \in 1..PhaseNumbers
      <4>1. PhaseNumbers \in Nat
        BY WorkloadAssumption
      <4>2. ASSUME NEW k \in Nat, k # 0, k <= PhaseNumbers PROVE k \in 1..PhaseNumbers
        BY <4>1, <4>2
      <4> QED
        BY <3>1, <3>2, <4>2
    <3> QED
      BY <3>2, <3>3, WorkloadAssumption, LastOfCount DEF LastIndex
  <2>3. ASSUME NEW c \in Contexts, Contiguous(c), NEW r \in PhaseKeys(c)
        PROVE  r <= maxPhase
    <3>1. PhaseKeys(c) = 0..(Cardinality(PhaseKeys(c)) - 1)
      BY <2>3 DEF Contiguous, PhaseKeys
    <3>2. LastIndex(c) = Cardinality(PhaseKeys(c)) - 1 /\ LastIndex(c) <= maxPhase
      BY <2>1, <2>2, <2>3 DEF PhasesTold
    <3> QED
      BY <2>2, <3>1, <3>2 DEF PhasesTold
  <2>4. ASSUME \A c \in Contexts : Actors[c].hasPhases => Actors[c].phases # <<>>
        PROVE  maxPhase = 0 \/ \E c \in Contexts : Cardinality(PhaseKeys(c)) = maxPhase + 1
    <3> SUFFICES ASSUME maxPhase # 0 PROVE \E c \in Contexts : Cardinality(PhaseKeys(c)) = maxPhase + 1
      OBVIOUS
    <3>1. PICK c \in Contexts : Actors[c].hasPhases /\ LastIndex(c) = maxPhase
      BY <2>1 DEF PhasesTold
    <3>2. PhaseKeys(c) # {}
      BY <2>1, <2>4, <3>1 DEF PhasesTold
    <3> QED
      BY <2>2, <3>1, <3>2
  <2> QED
    BY <2>3, <2>4 DEF EveryPhaseRuns, PhaseKeys
<1> QED
  BY <1>1, ContextsAlways, PTL DEF WorkloadSpec

-----------------------------------------------------------------------------
(* The threads that make the actors.                                       *)

MakerFields == {"at", "made", "id", "todo"}
MakerPcs == {"produce", "phases", "limiter", "add", "ended"}
NotAdded == {"produce", "phases", "limiter"}

\* A thread makes the actors of its context in the order of their ids, then puts
\* them into the bucket in that order: it has done so when it has ended, unless
\* one of the threads has thrown.
InOrder(c) ==
  /\ DOMAIN maker[c] = MakerFields
  /\ maker[c].at \in MakerPcs
  /\ Len(maker[c].made) \in Nat /\ DOMAIN maker[c].made = 1..Len(maker[c].made)
  /\ Len(maker[c].made) <= Threads(c)
  /\ maker[c].id = 0 \/ maker[c].id \in Ids(c)
  /\ maker[c].at \in NotAdded =>
       /\ \A i \in 1..Len(maker[c].made) : maker[c].made[i] = First(c) + i - 1
       /\ \A j \in Nat : <<c, j>> \notin bucket
  /\ maker[c].at = "produce" => nextActorId[c] = First(c) + Len(maker[c].made)
  /\ maker[c].at \in {"phases", "limiter"} =>
       /\ Len(maker[c].made) < Threads(c)
       /\ maker[c].id = First(c) + Len(maker[c].made)
       /\ nextActorId[c] = maker[c].id + 1
  /\ maker[c].at = "add" =>
       /\ \A i \in 1..Len(maker[c].made) :
            maker[c].made[i] = First(c) + Threads(c) - Len(maker[c].made) + i - 1
       /\ \A j \in Ids(c) : j < First(c) + Threads(c) - Len(maker[c].made) => <<c, j>> \in bucket
  /\ maker[c].at = "ended" /\ exceptions = 0 => \A j \in Ids(c) : <<c, j>> \in bucket

MakersOK ==
  /\ exceptions \in Nat
  /\ stage \in {"cast", "contexts"} => DOMAIN maker = {}
  /\ stage \in {"make", "done"} => DOMAIN maker = Contexts
  /\ DOMAIN maker \subseteq DOMAIN contexts /\ DOMAIN nextActorId = DOMAIN maker
  /\ stage = "done" => exceptions = 0 /\ \A c \in DOMAIN maker : maker[c].at = "ended"
  /\ \A c \in DOMAIN maker : InOrder(c)
  /\ \A x \in bucket : x[1] \in DOMAIN maker /\ x[2] \in Ids(x[1]) /\ x = <<x[1], x[2]>>

\* What the step of one thread leaves to the others.
OnlyMaker(c) ==
  /\ stage' = stage /\ UNCHANGED <<workload, contexts>>
  /\ DOMAIN maker' = DOMAIN maker /\ DOMAIN nextActorId' = DOMAIN nextActorId
  /\ DOMAIN maker'[c] = MakerFields
  /\ \A d \in DOMAIN maker \ {c} : maker'[d] = maker[d] /\ nextActorId'[d] = nextActorId[d]
  /\ exceptions' = exceptions \/ exceptions' = exceptions + 1
  /\ bucket' = bucket \/ \E j \in Ids(c) : bucket' = bucket \cup {<<c, j>>}

LEMMA OthersInOrder ==
  ASSUME ContextsOK, MakersOK, NEW c \in DOMAIN maker, stage = "make", OnlyMaker(c), InOrder(c)'
  PROVE  MakersOK'
<1>1. /\ \A d \in DOMAIN maker : First(d)' = First(d) /\ Threads(d)' = Threads(d) /\ Ids(d)' = Ids(d)
      /\ Contexts' = Contexts
  BY DEF OnlyMaker, First, Threads, Ids, Actors, Contexts
<1>2. exceptions' \in Nat /\ (exceptions' = 0 => exceptions = 0)
  BY DEF OnlyMaker, MakersOK
<1>3. ASSUME NEW d \in DOMAIN maker \ {c} PROVE InOrder(d)'
  <2>1. \A j : <<d, j>> \in bucket' <=> <<d, j>> \in bucket
    BY DEF OnlyMaker
  <2>2. maker'[d] = maker[d] /\ nextActorId'[d] = nextActorId[d] /\ InOrder(d)
    BY DEF OnlyMaker, MakersOK
  <2> QED
    BY <1>1, <1>2, <2>1, <2>2 DEF InOrder
<1>4. \A x \in bucket' : x[1] \in DOMAIN maker' /\ x[2] \in Ids(x[1])' /\ x = <<x[1], x[2]>>
  <2> SUFFICES ASSUME NEW x \in bucket'
               PROVE  x[1] \in DOMAIN maker /\ x[2] \in Ids(x[1]) /\ x = <<x[1], x[2]>>
    BY <1>1 DEF OnlyMaker
  <2>1. CASE x \in bucket
    BY <2>1 DEF MakersOK
  <2>2. CASE x \notin bucket
    <3>1. PICK j \in Ids(c) : x = <<c, j>>
      BY <2>2 DEF OnlyMaker
    <3> QED
      BY <3>1
  <2> QED
    BY <2>1, <2>2
<1>5. DOMAIN maker' = Contexts' /\ DOMAIN maker' \subseteq DOMAIN contexts' /\ DOMAIN nextActorId' = DOMAIN maker'
  BY <1>1 DEF OnlyMaker, MakersOK
<1>6. stage' = "make"
  BY DEF OnlyMaker
<1> QED
  BY <1>2, <1>3, <1>4, <1>5, <1>6 DEF MakersOK, OnlyMaker

\* What is known of a context whose thread is making its actors.
LEMMA MakerFacts ==
  ASSUME ContextsOK, MakersOK, NEW c \in DOMAIN maker
  PROVE  /\ First(c) \in Nat \ {0} /\ Threads(c) \in Nat
         /\ c \in Contexts /\ InOrder(c)
         /\ DOMAIN maker[c] = MakerFields
  BY ActorsTyped DEF ContextsOK, MakersOK, InOrder

LEMMA ProduceInOrder ==
  ASSUME ContextsOK, MakersOK, NEW c \in DOMAIN maker, Produce(c)
  PROVE  OnlyMaker(c) /\ InOrder(c)'
<1>1. /\ stage = "make" /\ maker[c].at = "produce" /\ stage' = stage
      /\ UNCHANGED <<workload, contexts, bucket>>
  BY DEF Produce, Making, setupVars
<1>2. First(c) \in Nat \ {0} /\ Threads(c) \in Nat /\ InOrder(c) /\ DOMAIN maker[c] = MakerFields
  BY MakerFacts
<1>3. /\ Len(maker[c].made) \in Nat /\ Len(maker[c].made) <= Threads(c)
      /\ nextActorId[c] = First(c) + Len(maker[c].made)
  BY <1>1, <1>2 DEF InOrder
<1>4. First(c)' = First(c) /\ Threads(c)' = Threads(c) /\ Ids(c)' = Ids(c)
  BY <1>1 DEF First, Threads, Ids, Actors
<1>5. CASE MakerThrows(c) /\ UNCHANGED nextActorId
  <2>1. maker' = [maker EXCEPT ![c].at = "ended"] /\ exceptions' = exceptions + 1 /\ nextActorId' = nextActorId
    BY <1>5 DEF MakerThrows
  <2>2. OnlyMaker(c)
    BY <1>1, <1>2, <2>1 DEF OnlyMaker, MakerFields
  <2>3. /\ DOMAIN maker'[c] = MakerFields /\ maker'[c].at = "ended"
        /\ maker'[c].made = maker[c].made /\ maker'[c].id = maker[c].id
    BY <1>2, <2>1 DEF MakerFields
  <2>4. exceptions' # 0
    BY <2>1 DEF MakersOK
  <2>5. InOrder(c)'
    BY <1>2, <1>4, <2>3, <2>4 DEF InOrder, MakerPcs, NotAdded
  <2> QED
    BY <2>2, <2>5
<1>6. CASE /\ Len(maker[c].made) < Threads(c)
           /\ maker' = [maker EXCEPT ![c].at = "phases", ![c].id = nextActorId[c],
                                     ![c].todo = DOMAIN contexts[c].phases]
           /\ nextActorId' = [nextActorId EXCEPT ![c] = @ + 1]
           /\ UNCHANGED exceptions
  <2>1. c \in DOMAIN nextActorId
    BY DEF MakersOK
  <2>2. /\ DOMAIN maker'[c] = MakerFields /\ maker'[c].at = "phases" /\ nextActorId'[c] = nextActorId[c] + 1
        /\ maker'[c].made = maker[c].made /\ maker'[c].id = nextActorId[c]
    BY <1>2, <1>6, <2>1 DEF MakerFields
  <2>3. OnlyMaker(c)
    BY <1>1, <1>6, <2>2 DEF OnlyMaker
  <2>4. nextActorId[c] \in Ids(c)
    BY <1>2, <1>3, <1>6 DEF Ids
  <2>5. InOrder(c)'
    BY <1>1, <1>2, <1>3, <1>4, <1>6, <2>2, <2>4 DEF InOrder, MakerPcs, NotAdded
  <2> QED
    BY <2>3, <2>5
<1>7. CASE /\ Len(maker[c].made) = Threads(c)
           /\ maker' = [maker EXCEPT ![c].at = "add"] /\ UNCHANGED <<nextActorId, exceptions>>
  <2>1. /\ DOMAIN maker'[c] = MakerFields /\ maker'[c].at = "add"
        /\ maker'[c].made = maker[c].made /\ maker'[c].id = maker[c].id
    BY <1>2, <1>7 DEF MakerFields
  <2>2. OnlyMaker(c)
    BY <1>1, <1>7, <2>1 DEF OnlyMaker
  <2>3. \A i \in 1..Len(maker[c].made) :
          maker[c].made[i] = First(c) + Threads(c) - Len(maker[c].made) + i - 1
    BY <1>1, <1>2, <1>3, <1>7 DEF InOrder, NotAdded
  <2>4. \A j \in Ids(c) : ~(j < First(c) + Threads(c) - Len(maker[c].made))
    BY <1>2, <1>7 DEF Ids
  <2>5. InOrder(c)'
    BY <1>2, <1>3, <1>4, <2>1, <2>3, <2>4 DEF InOrder, MakerPcs, NotAdded
  <2> QED
    BY <2>2, <2>5
<1>8. \/ MakerThrows(c) /\ UNCHANGED nextActorId
      \/ /\ Len(maker[c].made) < Threads(c)
         /\ maker' = [maker EXCEPT ![c].at = "phases", ![c].id = nextActorId[c],
                                   ![c].todo = DOMAIN contexts[c].phases]
         /\ nextActorId' = [nextActorId EXCEPT ![c] = @ + 1]
         /\ UNCHANGED exceptions
      \/ /\ ~(Len(maker[c].made) < Threads(c))
         /\ maker' = [maker EXCEPT ![c].at = "add"] /\ UNCHANGED <<nextActorId, exceptions>>
  BY DEF Produce, Threads
<1> QED
  BY <1>2, <1>3, <1>5, <1>6, <1>7, <1>8

\* The phases of one actor: they leave its id and what is made alone.
LEMMA PhasesInOrder ==
  ASSUME ContextsOK, MakersOK, NEW c \in DOMAIN maker, ConstructValue(c) \/ ConstructChecker(c)
  PROVE  OnlyMaker(c) /\ InOrder(c)'
<1>1. /\ stage = "make" /\ maker[c].at \in {"phases", "limiter"} /\ stage' = stage
      /\ UNCHANGED <<workload, contexts, bucket, nextActorId>>
  BY DEF ConstructValue, ConstructChecker, Making, setupVars
<1>2. First(c) \in Nat \ {0} /\ Threads(c) \in Nat /\ InOrder(c) /\ DOMAIN maker[c] = MakerFields
  BY MakerFacts
<1>3. First(c)' = First(c) /\ Threads(c)' = Threads(c) /\ Ids(c)' = Ids(c)
  BY <1>1 DEF First, Threads, Ids, Actors
<1>4. \/ maker' = [maker EXCEPT ![c].at = "ended"] /\ exceptions' = exceptions + 1
      \/ \E at \in {"phases", "limiter"} : \E todo :
            maker' = [maker EXCEPT ![c].at = at, ![c].todo = todo] /\ exceptions' = exceptions
  <2>1. CASE ConstructValue(c)
    BY <2>1 DEF ConstructValue, MakerThrows
  <2>2. CASE ConstructChecker(c)
    BY <2>2 DEF ConstructChecker
  <2> QED
    BY <2>1, <2>2
<1>5. CASE maker' = [maker EXCEPT ![c].at = "ended"] /\ exceptions' = exceptions + 1
  <2>1. /\ DOMAIN maker'[c] = MakerFields /\ maker'[c].at = "ended"
        /\ maker'[c].made = maker[c].made /\ maker'[c].id = maker[c].id
    BY <1>2, <1>5 DEF MakerFields
  <2>2. exceptions' # 0
    BY <1>5 DEF MakersOK
  <2>3. InOrder(c)'
    BY <1>2, <1>3, <2>1, <2>2 DEF InOrder, MakerPcs, NotAdded
  <2> QED
    BY <1>1, <1>5, <2>1, <2>3 DEF OnlyMaker
<1>6. CASE \E at \in {"phases", "limiter"} : \E todo :
             maker' = [maker EXCEPT ![c].at = at, ![c].todo = todo] /\ exceptions' = exceptions
  <2>0. PICK at \in {"phases", "limiter"} : \E todo : maker' = [maker EXCEPT ![c].at = at, ![c].todo = todo]
    BY <1>6
  <2>1. PICK todo : maker' = [maker EXCEPT ![c].at = at, ![c].todo = todo]
    BY <2>0
  <2>2. /\ DOMAIN maker'[c] = MakerFields /\ maker'[c].at \in {"phases", "limiter"}
        /\ maker'[c].made = maker[c].made /\ maker'[c].id = maker[c].id
    BY <1>2, <2>1 DEF MakerFields
  <2>3. InOrder(c)'
    BY <1>1, <1>2, <1>3, <2>2 DEF InOrder, MakerPcs, NotAdded
  <2> QED
    BY <1>1, <1>6, <2>1, <2>2, <2>3 DEF OnlyMaker
<1> QED
  BY <1>4, <1>5, <1>6

LEMMA MadeInOrder ==
  ASSUME ContextsOK, MakersOK, NEW c \in DOMAIN maker, ActorMade(c)
  PROVE  OnlyMaker(c) /\ InOrder(c)'
<1>1. /\ stage = "make" /\ maker[c].at = "phases" /\ stage' = stage
      /\ UNCHANGED <<workload, contexts, bucket, nextActorId, exceptions>>
      /\ maker' = [maker EXCEPT ![c].at = "produce", ![c].made = Append(@, maker[c].id)]
  BY DEF ActorMade, Making, setupVars
<1>2. First(c) \in Nat \ {0} /\ Threads(c) \in Nat /\ InOrder(c) /\ DOMAIN maker[c] = MakerFields
  BY MakerFacts
<1>3. First(c)' = First(c) /\ Threads(c)' = Threads(c) /\ Ids(c)' = Ids(c)
  BY <1>1 DEF First, Threads, Ids, Actors
<1>4. /\ DOMAIN maker'[c] = MakerFields /\ maker'[c].at = "produce"
      /\ maker'[c].made = Append(maker[c].made, maker[c].id) /\ maker'[c].id = maker[c].id
  BY <1>1, <1>2 DEF MakerFields
<1>5. /\ Len(maker[c].made) \in Nat /\ DOMAIN maker[c].made = 1..Len(maker[c].made)
      /\ Len(maker[c].made) < Threads(c)
      /\ maker[c].id = First(c) + Len(maker[c].made)
      /\ nextActorId[c] = maker[c].id + 1
      /\ \A i \in 1..Len(maker[c].made) : maker[c].made[i] = First(c) + i - 1
  BY <1>1, <1>2 DEF InOrder, NotAdded
<1>6. /\ Len(maker'[c].made) = Len(maker[c].made) + 1 /\ DOMAIN maker'[c].made = 1..Len(maker'[c].made)
      /\ \A i \in 1..Len(maker'[c].made) : maker'[c].made[i] = First(c) + i - 1
  BY <1>2, <1>4, <1>5
<1>7. nextActorId'[c] = First(c) + Len(maker'[c].made)
  BY <1>1, <1>2, <1>5, <1>6
<1>8. InOrder(c)'
  <2>1. /\ Len(maker'[c].made) \in Nat /\ DOMAIN maker'[c].made = 1..Len(maker'[c].made)
        /\ Len(maker'[c].made) <= Threads(c)
    BY <1>2, <1>5, <1>6
  <2>2. maker[c].id = 0 \/ maker[c].id \in Ids(c)
    BY <1>2 DEF InOrder
  <2>3. \A j \in Nat : <<c, j>> \notin bucket'
    BY <1>1, <1>2 DEF InOrder, NotAdded
  <2> QED
    BY <1>3, <1>4, <1>6, <1>7, <2>1, <2>2, <2>3 DEF InOrder, MakerPcs, NotAdded
<1> QED
  BY <1>1, <1>4, <1>8 DEF OnlyMaker

LEMMA AddedInOrder ==
  ASSUME ContextsOK, MakersOK, NEW c \in DOMAIN maker, addItem(c)
  PROVE  OnlyMaker(c) /\ InOrder(c)'
<1>1. /\ stage = "make" /\ maker[c].at = "add" /\ stage' = stage
      /\ UNCHANGED <<workload, contexts, nextActorId, exceptions>>
  BY DEF addItem, Making, setupVars
<1>2. First(c) \in Nat \ {0} /\ Threads(c) \in Nat /\ InOrder(c) /\ DOMAIN maker[c] = MakerFields
  BY MakerFacts
<1>3. First(c)' = First(c) /\ Threads(c)' = Threads(c) /\ Ids(c)' = Ids(c)
  BY <1>1 DEF First, Threads, Ids, Actors
<1>4. /\ Len(maker[c].made) \in Nat /\ DOMAIN maker[c].made = 1..Len(maker[c].made)
      /\ Len(maker[c].made) <= Threads(c)
      /\ maker[c].id = 0 \/ maker[c].id \in Ids(c)
      /\ \A i \in 1..Len(maker[c].made) :
           maker[c].made[i] = First(c) + Threads(c) - Len(maker[c].made) + i - 1
      /\ \A j \in Ids(c) : j < First(c) + Threads(c) - Len(maker[c].made) => <<c, j>> \in bucket
  BY <1>1, <1>2 DEF InOrder
<1>5. CASE maker[c].made = <<>>
  <2>1. maker' = [maker EXCEPT ![c].at = "ended"] /\ bucket' = bucket
    BY <1>5 DEF addItem
  <2>2. /\ DOMAIN maker'[c] = MakerFields /\ maker'[c].at = "ended"
        /\ maker'[c].made = maker[c].made /\ maker'[c].id = maker[c].id
    BY <1>2, <2>1 DEF MakerFields
  <2>3. Len(maker[c].made) = 0
    BY <1>5
  <2>4. \A j \in Ids(c) : <<c, j>> \in bucket
    BY <1>2, <1>4, <2>3 DEF Ids
  <2>5. InOrder(c)'
    BY <1>3, <1>4, <2>1, <2>2, <2>4 DEF InOrder, MakerPcs, NotAdded
  <2> QED
    BY <1>1, <2>1, <2>2, <2>5 DEF OnlyMaker
<1>6. CASE maker[c].made # <<>>
  <2>1. /\ bucket' = bucket \cup {<<c, Head(maker[c].made)>>}
        /\ maker' = [maker EXCEPT ![c].made = Tail(@)]
    BY <1>6 DEF addItem
  <2>2. /\ DOMAIN maker'[c] = MakerFields /\ maker'[c].at = "add"
        /\ maker'[c].made = Tail(maker[c].made) /\ maker'[c].id = maker[c].id
    BY <1>1, <1>2, <2>1 DEF MakerFields
  <2>3. Len(maker[c].made) > 0
    BY <1>4, <1>6
  <2>4. Head(maker[c].made) = First(c) + Threads(c) - Len(maker[c].made) /\ Head(maker[c].made) \in Ids(c)
    BY <1>2, <1>4, <2>3 DEF Ids
  <2>5. /\ Len(maker'[c].made) = Len(maker[c].made) - 1 /\ DOMAIN maker'[c].made = 1..Len(maker'[c].made)
        /\ \A i \in 1..Len(maker'[c].made) : maker'[c].made[i] = maker[c].made[i + 1]
    BY <1>4, <1>6, <2>2, <2>3
  <2>6. \A i \in 1..Len(maker'[c].made) :
          maker'[c].made[i] = First(c) + Threads(c) - Len(maker'[c].made) + i - 1
    BY <1>2, <1>4, <2>3, <2>5
  <2>7. \A j \in Ids(c) : j < First(c) + Threads(c) - Len(maker'[c].made) => <<c, j>> \in bucket'
    <3> SUFFICES ASSUME NEW j \in Ids(c), j < First(c) + Threads(c) - Len(maker'[c].made)
                 PROVE  <<c, j>> \in bucket'
      OBVIOUS
    <3>1. j \in Nat
      BY <1>2 DEF Ids
    <3>2. j < First(c) + Threads(c) - Len(maker[c].made) \/ j = Head(maker[c].made)
      BY <1>2, <1>4, <2>4, <2>5, <3>1
    <3> QED
      BY <1>4, <2>1, <3>2
  <2>8. Len(maker'[c].made) \in Nat /\ Len(maker'[c].made) <= Threads(c)
    BY <1>2, <1>4, <2>3, <2>5
  <2>9. InOrder(c)'
    BY <1>3, <1>4, <2>2, <2>5, <2>6, <2>7, <2>8 DEF InOrder, MakerPcs, NotAdded
  <2> QED
    BY <1>1, <2>1, <2>2, <2>4, <2>9 DEF OnlyMaker
<1> QED
  BY <1>5, <1>6

LEMMA MakersAlways ==
  ASSUME ContextsOK, MakersOK, [WorkloadNext]_workloadVars
  PROVE  MakersOK'
<1>1. CASE Register \/ BeginContexts \/ NewActorContext
  <2>1. DOMAIN maker = {} /\ bucket = {}
    BY <1>1 DEF Register, BeginContexts, NewActorContext, MakersOK
  <2>2. UNCHANGED <<maker, bucket, exceptions, nextActorId>> /\ stage' \notin {"make", "done"}
    BY <1>1 DEF Register, BeginContexts, NewActorContext, makeVars
  <2> QED
    BY <2>1, <2>2 DEF MakersOK
<1>2. CASE BeginMake
  <2>1. /\ stage = "contexts" /\ Len(contexts) = Len(Actors) /\ stage' = "make"
        /\ nextActorId' = [c \in Contexts |-> contexts[c].firstId]
        /\ maker' = [c \in Contexts |-> [at |-> "produce", made |-> <<>>, id |-> 0, todo |-> {}]]
        /\ UNCHANGED <<workload, contexts, bucket, exceptions>>
    BY <1>2 DEF BeginMake, setupVars
  <2>2. bucket = {} /\ Contexts = DOMAIN contexts /\ Contexts' = Contexts
    BY <2>1, ActorsTyped DEF MakersOK, ContextsOK, Contexts, Actors
  <2>3. ASSUME NEW c \in Contexts PROVE InOrder(c)'
    <3>1. Threads(c)' \in Nat /\ First(c)' = contexts[c].firstId /\ First(c) \in Nat
      BY <2>1, <2>2, ActorsTyped DEF Threads, First, Actors, ContextsOK
    <3>2. /\ DOMAIN maker'[c] = MakerFields /\ maker'[c].at = "produce" /\ maker'[c].made = <<>>
          /\ maker'[c].id = 0 /\ nextActorId'[c] = First(c)'
      BY <2>1, <3>1 DEF MakerFields
    <3> QED
      BY <2>1, <2>2, <3>1, <3>2 DEF InOrder, MakerPcs, NotAdded, First
  <2> QED
    BY <2>1, <2>2, <2>3 DEF MakersOK
<1>3. CASE \E c \in DOMAIN maker : MakerStep(c)
  <2>1. PICK c \in DOMAIN maker : MakerStep(c)
    BY <1>3
  <2>2. stage = "make"
    BY <2>1 DEF MakerStep, Produce, ConstructValue, ConstructChecker, ActorMade, addItem, Making
  <2> QED
    BY <2>1, <2>2, ProduceInOrder, PhasesInOrder, MadeInOrder, AddedInOrder, OthersInOrder DEF MakerStep
<1>4. CASE JoinMakers \/ StartHook \/ StopHook \/ PeerAnswers \/ UNCHANGED workloadVars
  <2>1. UNCHANGED <<maker, bucket, exceptions, nextActorId, workload, contexts>>
    BY <1>4 DEF JoinMakers, StartHook, StopHook, PeerAnswers, workloadVars, makeVars, setupVars
  <2>2. \/ stage' = stage
        \/ /\ stage = "make" /\ stage' \in {"done", "failed"}
           /\ stage' = "done" => exceptions = 0 /\ \A c \in Contexts : maker[c].at = "ended"
    BY <1>4 DEF JoinMakers, StartHook, StopHook, PeerAnswers, workloadVars, MakersOK
  <2>3. Contexts' = Contexts /\ \A c \in DOMAIN maker : InOrder(c)' = InOrder(c) /\ Ids(c)' = Ids(c)
    BY <2>1 DEF InOrder, Ids, First, Threads, Actors, Contexts
  <2> QED
    BY <2>1, <2>2, <2>3 DEF MakersOK
<1> QED
  BY <1>1, <1>2, <1>3, <1>4 DEF WorkloadNext, MakerStep

\* Two contexts have no id in common.
LEMMA IdsApart ==
  ASSUME ContextsOK, NEW c \in DOMAIN contexts, NEW d \in DOMAIN contexts, NEW j \in Ids(c) \cap Ids(d)
  PROVE  c = d
<1>1. First(c) \in Nat /\ First(d) \in Nat /\ Threads(c) \in Nat /\ Threads(d) \in Nat /\ c \in Nat /\ d \in Nat
  BY ActorsTyped DEF ContextsOK
<1>2. /\ c < d => First(c) + Threads(c) <= First(d)
      /\ d < c => First(d) + Threads(d) <= First(c)
  BY DEF ContextsOK
<1>3. j \in Int /\ First(c) <= j /\ j < First(c) + Threads(c) /\ First(d) <= j /\ j < First(d) + Threads(d)
  BY <1>1 DEF Ids
<1> QED
  BY <1>1, <1>2, <1>3

\* AllOrNothing: the threads of the contexts, in whatever order they run, give no
\* id to two actors and none whose RNG is not there; and a workload that is
\* constructed has as many actors of each context as its Threads.
THEOREM AllActorsOrNone == WorkloadSpec => []AllOrNothing
<1>1. WorkloadInit => ContextsOK /\ PhasesTold /\ MakersOK
  BY ContextsAlways DEF WorkloadInit, MakersOK
<1>2. ContextsOK /\ PhasesTold /\ MakersOK /\ [WorkloadNext]_workloadVars
        => (ContextsOK /\ PhasesTold /\ MakersOK)'
  BY ContextsAlways, MakersAlways
<1>3. ContextsOK /\ MakersOK => AllOrNothing
  <2> SUFFICES ASSUME ContextsOK, MakersOK PROVE AllOrNothing
    OBVIOUS
  <2>1. \A x, y \in bucket : x[2] = y[2] => x = y
    <3> SUFFICES ASSUME NEW x \in bucket, NEW y \in bucket, x[2] = y[2] PROVE x = y
      OBVIOUS
    <3>1. /\ x[1] \in DOMAIN contexts /\ x[2] \in Ids(x[1]) /\ x = <<x[1], x[2]>>
          /\ y[1] \in DOMAIN contexts /\ y[2] \in Ids(y[1]) /\ y = <<y[1], y[2]>>
      BY DEF MakersOK
    <3>2. x[1] = y[1]
      BY <3>1, IdsApart
    <3> QED
      BY <3>1, <3>2
  <2>2. \A c, d \in DOMAIN maker : c # d /\ maker[c].id = maker[d].id => maker[c].id = 0
    <3> SUFFICES ASSUME NEW c \in DOMAIN maker, NEW d \in DOMAIN maker, c # d, maker[c].id = maker[d].id,
                        maker[c].id # 0
                 PROVE  FALSE
      OBVIOUS
    <3>1. maker[c].id \in Ids(c) \cap Ids(d) /\ c \in DOMAIN contexts /\ d \in DOMAIN contexts
      BY DEF MakersOK, InOrder
    <3> QED
      BY <3>1, IdsApart
  <2>3. \A c \in DOMAIN maker : maker[c].id <= rngs
    <3> SUFFICES ASSUME NEW c \in DOMAIN maker PROVE maker[c].id <= rngs
      OBVIOUS
    <3>1. /\ First(c) \in Nat \ {0} /\ Threads(c) \in Nat /\ (maker[c].id = 0 \/ maker[c].id \in Ids(c))
          /\ c \in DOMAIN contexts
      BY MakerFacts DEF InOrder, MakersOK
    <3>2. First(c) + Threads(c) <= nextWorkloadActorId /\ nextWorkloadActorId \in Nat /\ rngs \in Nat
      BY <3>1 DEF ContextsOK
    <3>3. contexts # <<>>
      BY <3>1
    <3>4. nextWorkloadActorId <= rngs
      BY <3>3 DEF ContextsOK
    <3> QED
      BY <3>1, <3>2, <3>4 DEF Ids
  <2>4. ASSUME stage = "done", NEW c \in Contexts
        PROVE  Cardinality({x \in bucket : x[1] = c}) = Actors[c].threads
    <3>1. c \in DOMAIN maker
      BY <2>4 DEF MakersOK
    <3>2. First(c) \in Nat \ {0} /\ Threads(c) \in Nat /\ \A j \in Ids(c) : <<c, j>> \in bucket
      BY <2>4, <3>1, MakerFacts DEF MakersOK, InOrder
    <3>3. {x \in bucket : x[1] = c} = {c} \X Ids(c)
      <4>1. ASSUME NEW x \in bucket, x[1] = c PROVE x \in {c} \X Ids(c)
        BY <4>1 DEF MakersOK
      <4>2. ASSUME NEW x \in {c} \X Ids(c) PROVE x \in bucket /\ x[1] = c
        BY <3>2, <4>2
      <4> QED
        BY <4>1, <4>2
    <3>4. IsFiniteSet(Ids(c)) /\ Cardinality(Ids(c)) = Threads(c)
      <4>1. PICK lo, hi : lo = First(c) /\ hi = First(c) + Threads(c) - 1
        OBVIOUS
      <4>2. Ids(c) = lo..hi /\ lo \in Int /\ hi \in Int
        BY <3>2, <4>1 DEF Ids
      <4>3. IsFiniteSet(lo..hi) /\ Cardinality(lo..hi) = IF lo > hi THEN 0 ELSE hi - lo + 1
        BY <4>2, FS_Interval
      <4>4. (IF lo > hi THEN 0 ELSE hi - lo + 1) = Threads(c)
        BY <3>2, <4>1
      <4> QED
        BY <4>2, <4>3, <4>4
    <3>5. IsFiniteSet({c}) /\ Cardinality({c}) = 1
      BY FS_Singleton
    <3>6. Cardinality({c} \X Ids(c)) = 1 * Threads(c)
      BY <3>4, <3>5, FS_Product
    <3>7. Cardinality({c} \X Ids(c)) = Threads(c)
      BY <3>2, <3>6
    <3>8. Cardinality({x \in bucket : x[1] = c}) = Threads(c)
      BY <3>3, <3>7
    <3> QED
      BY <3>8 DEF Threads
  <2> QED
    BY <2>1, <2>2, <2>3, <2>4 DEF AllOrNothing, IdsUnique, AllActors
<1> QED
  BY <1>1, <1>2, <1>3, PTL DEF WorkloadSpec

-----------------------------------------------------------------------------
(* What the phases of the actors register.                                 *)

\* A stream for each operation.
StreamsOK ==
  /\ IsFiniteSet(ops)
  /\ Len(streams) \in Nat /\ DOMAIN streams = 1..Len(streams)
  /\ OneStreamPerOperation

HooksOf(l) == {i \in DOMAIN hooks : hooks[i] = l}

\* A hook for each user, and the coordinator's at the end.
HooksOK ==
  /\ Len(hooks) \in Nat /\ DOMAIN hooks = 1..Len(hooks)
  /\ users \in [Limiters -> Nat]
  /\ \A l \in Limiters : IsFiniteSet(HooksOf(l)) /\ users[l] = Cardinality(HooksOf(l))
  /\ stage = "done" => hooks[Len(hooks)] = Coordinator

\* The phases whose checker the actor that is being made does not have yet.
Pending(c) == IF maker[c].at = "limiter" THEN maker[c].todo[2] ELSE maker[c].todo

\* The k-th actor of a context has the checker of a phase.
HasChecker(c, k, r) ==
  \/ maker[c].at \in {"add", "ended"}
  \/ k <= Len(maker[c].made)
  \/ k = Len(maker[c].made) + 1 /\ maker[c].at \in {"phases", "limiter"} /\ r \notin Pending(c)

DoneUses(l) == {u \in Uses(l) : HasChecker(u[1], u[2][1], u[2][2])}

TodoOK ==
  \A c \in DOMAIN maker :
    /\ maker[c].at = "phases" => maker[c].todo \subseteq PhaseKeys(c)
    /\ maker[c].at = "limiter" => maker[c].todo[1] \in maker[c].todo[2] /\ maker[c].todo[2] \subseteq PhaseKeys(c)

\* As long as nobody has thrown, a limiter has a user for each checker that was
\* made for it.
UsersOK ==
  /\ stage \in {"cast", "contexts"} => \A l \in Limiters : users[l] = 0
  /\ stage \in {"make", "done"} /\ exceptions = 0 =>
       \A l \in Limiters : IsFiniteSet(DoneUses(l)) /\ users[l] = Cardinality(DoneUses(l))

LEMMA UseShape ==
  ASSUME NEW l, NEW u
  PROVE  u \in Uses(l) <=>
           \E c \in Contexts : \E k \in 1..Threads(c), r \in PhaseKeys(c) :
              u = <<c, <<k, r>>>> /\ PhaseOf(c, r).limiter = l
<1>1. ASSUME u \in Uses(l)
      PROVE  \E c \in Contexts : \E k \in 1..Threads(c), r \in PhaseKeys(c) :
               u = <<c, <<k, r>>>> /\ PhaseOf(c, r).limiter = l
  <2>1. PICK c \in Contexts : u \in {c} \X ((1..Threads(c)) \X PhaseKeys(c))
    BY <1>1 DEF Uses, Threads, PhaseKeys
  <2>2. PICK k \in 1..Threads(c), r \in PhaseKeys(c) : u = <<c, <<k, r>>>>
    BY <2>1
  <2>3. PhaseOf(u[1], u[2][2]).limiter = l
    BY <1>1 DEF Uses
  <2> QED
    BY <2>2, <2>3
<1>2. ASSUME NEW c \in Contexts, NEW k \in 1..Threads(c), NEW r \in PhaseKeys(c),
             u = <<c, <<k, r>>>>, PhaseOf(c, r).limiter = l
      PROVE  u \in Uses(l)
  BY <1>2 DEF Uses, Threads, PhaseKeys
<1> QED
  BY <1>1, <1>2

LEMMA UsesKept ==
  ASSUME UNCHANGED <<workload, contexts>>
  PROVE  /\ \A l : Uses(l)' = Uses(l)
         /\ \A c, r : PhaseOf(c, r)' = PhaseOf(c, r)
         /\ Contexts' = Contexts
         /\ \A c : Threads(c)' = Threads(c) /\ PhaseKeys(c)' = PhaseKeys(c)
  BY DEF Uses, PhaseOf, Contexts, Actors, Threads, PhaseKeys

LEMMA TodoKept ==
  ASSUME ContextsOK, MakersOK, TodoOK, NEW c \in DOMAIN maker, MakerStep(c), OnlyMaker(c)
  PROVE  TodoOK'
<1>1. DOMAIN maker[c] = MakerFields /\ \A d : PhaseKeys(d)' = PhaseKeys(d)
  BY MakerFacts, UsesKept DEF OnlyMaker
<1>2. \/ maker'[c].at \in {"ended", "add", "produce"}
      \/ maker'[c].at = "phases" /\ maker'[c].todo \subseteq PhaseKeys(c)
      \/ /\ maker'[c].at = "limiter"
         /\ maker'[c].todo[1] \in maker'[c].todo[2] /\ maker'[c].todo[2] \subseteq PhaseKeys(c)
  <2>1. CASE Produce(c)
    <3>1. \/ maker' = [maker EXCEPT ![c].at = "ended"]
          \/ maker' = [maker EXCEPT ![c].at = "add"]
          \/ maker' = [maker EXCEPT ![c].at = "phases", ![c].id = nextActorId[c], ![c].todo = PhaseKeys(c)]
      BY <2>1 DEF Produce, MakerThrows, PhaseKeys
    <3>2. CASE maker' = [maker EXCEPT ![c].at = "phases", ![c].id = nextActorId[c], ![c].todo = PhaseKeys(c)]
      BY <1>1, <3>2 DEF MakerFields
    <3>3. CASE maker' = [maker EXCEPT ![c].at = "ended"] \/ maker' = [maker EXCEPT ![c].at = "add"]
      BY <1>1, <3>3 DEF MakerFields
    <3> QED
      BY <3>1, <3>2, <3>3
  <2>2. CASE ConstructValue(c)
    <3>1. maker[c].at = "phases" /\ maker[c].todo \subseteq PhaseKeys(c)
      BY <2>2 DEF ConstructValue, Making, TodoOK
    <3>2. \/ maker' = [maker EXCEPT ![c].at = "ended"]
          \/ \E r \in maker[c].todo :
               maker' = [maker EXCEPT ![c].at = "limiter", ![c].todo = <<r, maker[c].todo>>]
      BY <2>2 DEF ConstructValue, MakerThrows
    <3>3. CASE maker' = [maker EXCEPT ![c].at = "ended"]
      BY <1>1, <3>3 DEF MakerFields
    <3>4. ASSUME NEW r \in maker[c].todo,
                 maker' = [maker EXCEPT ![c].at = "limiter", ![c].todo = <<r, maker[c].todo>>]
          PROVE  /\ maker'[c].at = "limiter"
                 /\ maker'[c].todo[1] \in maker'[c].todo[2] /\ maker'[c].todo[2] \subseteq PhaseKeys(c)
      <4>1. PICK todo : todo = <<r, maker[c].todo>>
        OBVIOUS
      <4>2. maker'[c].at = "limiter" /\ maker'[c].todo = todo
        BY <1>1, <3>4, <4>1 DEF MakerFields
      <4>3. maker'[c].todo[1] = r /\ maker'[c].todo[2] = maker[c].todo
        BY <4>1, <4>2
      <4> QED
        BY <3>1, <4>2, <4>3
    <3> QED
      BY <3>2, <3>3, <3>4
  <2>3. CASE ConstructChecker(c)
    <3>1. maker[c].at = "limiter" /\ maker[c].todo[2] \subseteq PhaseKeys(c)
      BY <2>3 DEF ConstructChecker, Making, TodoOK
    <3> QED
      BY <1>1, <2>3, <3>1 DEF ConstructChecker, MakerFields
  <2>4. CASE ActorMade(c)
    BY <1>1, <2>4 DEF ActorMade, MakerFields
  <2>5. CASE addItem(c)
    BY <1>1, <2>5 DEF addItem, MakerFields, Making
  <2> QED
    BY <2>1, <2>2, <2>3, <2>4, <2>5 DEF MakerStep
<1> QED
  BY <1>1, <1>2 DEF TodoOK, OnlyMaker

\* Only the construction of a checker makes one.
LEMMA CheckersKept ==
  ASSUME ContextsOK, MakersOK, TodoOK, NEW c \in DOMAIN maker,
         Produce(c) \/ ConstructValue(c) \/ ActorMade(c) \/ addItem(c), exceptions' = 0,
         NEW k \in 1..Threads(c), NEW r \in PhaseKeys(c)
  PROVE  HasChecker(c, k, r)' <=> HasChecker(c, k, r)
<1>1. DOMAIN maker[c] = MakerFields /\ InOrder(c) /\ exceptions \in Nat /\ Threads(c) \in Nat
  BY MakerFacts DEF MakersOK
<1>2. Len(maker[c].made) \in Nat /\ DOMAIN maker[c].made = 1..Len(maker[c].made) /\ Len(maker[c].made) <= Threads(c)
  BY <1>1 DEF InOrder
<1>3. CASE Produce(c)
  <2>1. maker[c].at = "produce" /\ ~MakerThrows(c)
    BY <1>1, <1>3 DEF Produce, Making, MakerThrows
  <2>2. \/ maker' = [maker EXCEPT ![c].at = "phases", ![c].id = nextActorId[c], ![c].todo = PhaseKeys(c)]
        \/ ~(Len(maker[c].made) < Threads(c)) /\ maker' = [maker EXCEPT ![c].at = "add"]
    BY <1>3, <2>1 DEF Produce, PhaseKeys, Threads
  <2>3. \/ maker'[c].at = "phases" /\ maker'[c].todo = PhaseKeys(c) /\ maker'[c].made = maker[c].made
        \/ Len(maker[c].made) = Threads(c) /\ maker'[c].at = "add"
    <3>1. CASE maker' = [maker EXCEPT ![c].at = "phases", ![c].id = nextActorId[c], ![c].todo = PhaseKeys(c)]
      BY <1>1, <3>1 DEF MakerFields
    <3>2. CASE ~(Len(maker[c].made) < Threads(c)) /\ maker' = [maker EXCEPT ![c].at = "add"]
      BY <1>1, <1>2, <3>2 DEF MakerFields
    <3> QED
      BY <2>2, <3>1, <3>2
  <2> QED
    BY <1>2, <2>1, <2>3 DEF HasChecker, Pending
<1>4. CASE ConstructValue(c)
  <2>1. maker[c].at = "phases"
    BY <1>4 DEF ConstructValue, Making
  <2>2. ~MakerThrows(c)
    BY <1>1 DEF MakerThrows
  <2>a. PICK s \in maker[c].todo :
          maker' = [maker EXCEPT ![c].at = "limiter", ![c].todo = <<s, maker[c].todo>>]
    BY <1>4, <2>2 DEF ConstructValue
  <2>3. PICK todo :
          todo = <<s, maker[c].todo>> /\ maker' = [maker EXCEPT ![c].at = "limiter", ![c].todo = todo]
    BY <2>a
  <2>4. maker'[c].at = "limiter" /\ maker'[c].todo = todo /\ maker'[c].made = maker[c].made
    BY <1>1, <2>3 DEF MakerFields
  <2>5. maker'[c].todo[2] = maker[c].todo
    BY <2>3, <2>4
  <2> QED
    BY <2>1, <2>4, <2>5 DEF HasChecker, Pending
<1>5. CASE ActorMade(c)
  <2>1. /\ maker[c].at = "phases" /\ maker[c].todo = {}
        /\ maker' = [maker EXCEPT ![c].at = "produce", ![c].made = Append(@, maker[c].id)]
    BY <1>5 DEF ActorMade, Making
  <2>2. maker'[c].at = "produce" /\ maker'[c].made = Append(maker[c].made, maker[c].id)
    BY <1>1, <2>1 DEF MakerFields
  <2>3. Len(maker'[c].made) = Len(maker[c].made) + 1
    BY <1>2, <2>2
  <2> QED
    BY <1>1, <1>2, <2>1, <2>2, <2>3 DEF HasChecker, Pending
<1>6. CASE addItem(c)
  <2>1. maker[c].at = "add"
    BY <1>6 DEF addItem, Making
  <2>2. maker' = [maker EXCEPT ![c].at = "ended"] \/ maker' = [maker EXCEPT ![c].made = Tail(@)]
    BY <1>6 DEF addItem
  <2>3. maker'[c].at \in {"add", "ended"}
    BY <1>1, <2>1, <2>2 DEF MakerFields
  <2> QED
    BY <2>1, <2>3 DEF HasChecker
<1> QED
  BY <1>3, <1>4, <1>5, <1>6

\* The construction of a checker makes one, of a phase that had none.
LEMMA CheckerMade ==
  ASSUME ContextsOK, MakersOK, TodoOK, NEW c \in DOMAIN maker, ConstructChecker(c)
  PROVE  \E n \in 1..Threads(c), s \in PhaseKeys(c) :
           /\ ~HasChecker(c, n, s)
           /\ IF PhaseOf(c, s).limiter # "" THEN getRateLimiter(PhaseOf(c, s).limiter)
              ELSE UNCHANGED <<users, hooks>>
           /\ \A k \in 1..Threads(c), r \in PhaseKeys(c) :
                HasChecker(c, k, r)' <=> HasChecker(c, k, r) \/ (k = n /\ r = s)
<1>1. DOMAIN maker[c] = MakerFields /\ InOrder(c) /\ Threads(c) \in Nat
  BY MakerFacts
<1>2. PICK s, n : s = maker[c].todo[1] /\ n = Len(maker[c].made) + 1
  OBVIOUS
<1>3. maker[c].at = "limiter" /\ s \in maker[c].todo[2] /\ maker[c].todo[2] \subseteq PhaseKeys(c)
  BY <1>2 DEF ConstructChecker, Making, TodoOK
<1>4. Len(maker[c].made) \in Nat /\ Len(maker[c].made) < Threads(c)
  BY <1>1, <1>3 DEF InOrder
<1>5. n \in 1..Threads(c) /\ s \in PhaseKeys(c)
  BY <1>1, <1>2, <1>3, <1>4
<1>6. maker' = [maker EXCEPT ![c].at = "phases", ![c].todo = maker[c].todo[2] \ {s}]
  BY <1>2 DEF ConstructChecker
<1>7. maker'[c].at = "phases" /\ maker'[c].todo = maker[c].todo[2] \ {s} /\ maker'[c].made = maker[c].made
  BY <1>1, <1>6 DEF MakerFields
<1>8. ~HasChecker(c, n, s)
  BY <1>2, <1>3, <1>4 DEF HasChecker, Pending
<1>9. \A k \in 1..Threads(c), r \in PhaseKeys(c) :
        HasChecker(c, k, r)' <=> HasChecker(c, k, r) \/ (k = n /\ r = s)
  BY <1>2, <1>3, <1>4, <1>7 DEF HasChecker, Pending
<1>10. IF PhaseOf(c, s).limiter # "" THEN getRateLimiter(PhaseOf(c, s).limiter) ELSE UNCHANGED <<users, hooks>>
  BY <1>2 DEF ConstructChecker
<1> QED
  BY <1>5, <1>8, <1>9, <1>10

\* A step of one thread, of those that construct no checker.
LEMMA UsersKept ==
  ASSUME ContextsOK, MakersOK, TodoOK, UsersOK, NEW c \in DOMAIN maker, OnlyMaker(c), stage = "make",
         Produce(c) \/ ConstructValue(c) \/ ActorMade(c) \/ addItem(c), UNCHANGED users
  PROVE  UsersOK'
<1> SUFFICES ASSUME exceptions' = 0, NEW l \in Limiters
             PROVE  DoneUses(l)' = DoneUses(l)
  BY DEF UsersOK, OnlyMaker, MakersOK
<1>1. \A d \in DOMAIN maker \ {c} : \A k, r : HasChecker(d, k, r)' <=> HasChecker(d, k, r)
  BY DEF OnlyMaker, HasChecker, Pending
<1>2. \A k \in 1..Threads(c), r \in PhaseKeys(c) : HasChecker(c, k, r)' <=> HasChecker(c, k, r)
  BY CheckersKept
<1>3. DOMAIN maker = Contexts /\ Uses(l)' = Uses(l)
  BY UsesKept DEF MakersOK, OnlyMaker
<1>4. ASSUME NEW u \in Uses(l)
      PROVE  HasChecker(u[1], u[2][1], u[2][2])' <=> HasChecker(u[1], u[2][1], u[2][2])
  <2>1. PICK d \in Contexts : \E k \in 1..Threads(d), r \in PhaseKeys(d) : u = <<d, <<k, r>>>>
    BY UseShape
  <2>2. PICK k \in 1..Threads(d), r \in PhaseKeys(d) : u = <<d, <<k, r>>>>
    BY <2>1
  <2>3. u[1] = d /\ u[2][1] = k /\ u[2][2] = r
    BY <2>2
  <2>4. HasChecker(d, k, r)' <=> HasChecker(d, k, r)
    BY <1>1, <1>2, <1>3
  <2> QED
    BY <2>3, <2>4
<1> QED
  BY <1>3, <1>4 DEF DoneUses

\* A checker with a limiter is a new user of it, of no other.
LEMMA UserAdded ==
  ASSUME ContextsOK, MakersOK, TodoOK, UsersOK, HooksOK, NEW c \in DOMAIN maker, OnlyMaker(c), stage = "make",
         ConstructChecker(c)
  PROVE  UsersOK' /\ HooksOK'
<1>1. PICK n \in 1..Threads(c), s \in PhaseKeys(c) :
         /\ ~HasChecker(c, n, s)
         /\ IF PhaseOf(c, s).limiter # "" THEN getRateLimiter(PhaseOf(c, s).limiter)
            ELSE UNCHANGED <<users, hooks>>
         /\ \A k \in 1..Threads(c), r \in PhaseKeys(c) :
              HasChecker(c, k, r)' <=> HasChecker(c, k, r) \/ (k = n /\ r = s)
  BY CheckerMade
<1> DEFINE m == PhaseOf(c, s).limiter
           new == <<c, <<n, s>>>>
<1>2. "" \notin Limiters
  BY WorkloadAssumption
<1>3. users \in [Limiters -> Nat] /\ Len(hooks) \in Nat /\ DOMAIN hooks = 1..Len(hooks)
  BY DEF HooksOK
<1>4. /\ users' \in [Limiters -> Nat]
      /\ \A l \in Limiters : users'[l] = IF l = m THEN users[l] + 1 ELSE users[l]
  <2>1. CASE m = ""
    BY <1>1, <1>2, <1>3, <2>1
  <2>2. CASE m # ""
    <3>1. users' = [users EXCEPT ![m] = @ + 1]
      BY <1>1, <2>2 DEF getRateLimiter
    <3>2. PICK q : q = m
      OBVIOUS
    <3>3. users' = [users EXCEPT ![q] = users[q] + 1]
      BY <3>1, <3>2
    <3>4. \A l \in Limiters : users'[l] = IF l = q THEN users[l] + 1 ELSE users[l]
      BY <1>3, <3>3
    <3>5. users' \in [Limiters -> Nat]
      <4>1. users' = [l \in Limiters |-> IF l = q THEN users[q] + 1 ELSE users[l]]
        BY <1>3, <3>3
      <4>2. \A l \in Limiters : users[l] \in Nat
        BY <1>3
      <4> QED
        BY <4>1, <4>2
    <3> QED
      BY <3>2, <3>4, <3>5
  <2> QED
    BY <2>1, <2>2
<1>5. HooksOK'
  <2>1. CASE m = ""
    <3>1. UNCHANGED <<users, hooks>> /\ stage' = "make"
      BY <1>1, <2>1 DEF OnlyMaker
    <3> QED
      BY <3>1 DEF HooksOK, HooksOf
  <2>2. CASE m # ""
    <3>1. hooks' = Append(hooks, m)
      BY <1>1, <2>2 DEF getRateLimiter
    <3>2. Len(hooks') = Len(hooks) + 1 /\ DOMAIN hooks' = 1..Len(hooks')
          /\ hooks'[Len(hooks) + 1] = m /\ \A i \in 1..Len(hooks) : hooks'[i] = hooks[i]
      BY <1>3, <3>1
    <3>3. ASSUME NEW l \in Limiters
          PROVE  IsFiniteSet(HooksOf(l)') /\ users'[l] = Cardinality(HooksOf(l)')
      <4>1. IsFiniteSet(HooksOf(l)) /\ users[l] = Cardinality(HooksOf(l)) /\ users[l] \in Nat
        BY <1>3 DEF HooksOK
      <4>2. CASE l = m
        <5>1. HooksOf(l)' = HooksOf(l) \cup {Len(hooks) + 1} /\ Len(hooks) + 1 \notin HooksOf(l)
          BY <1>3, <3>2, <4>2 DEF HooksOf
        <5> QED
          BY <1>4, <4>1, <4>2, <5>1, FS_AddElement
      <4>3. CASE l # m
        <5>1. HooksOf(l)' = HooksOf(l)
          BY <1>3, <3>2, <4>3 DEF HooksOf
        <5> QED
          BY <1>4, <4>1, <4>3, <5>1
      <4> QED
        BY <4>2, <4>3
    <3> QED
      BY <1>3, <1>4, <3>2, <3>3 DEF HooksOK, OnlyMaker
  <2> QED
    BY <2>1, <2>2
<1>6. UsersOK'
  <2> SUFFICES ASSUME exceptions' = 0, NEW l \in Limiters
               PROVE  IsFiniteSet(DoneUses(l)') /\ users'[l] = Cardinality(DoneUses(l)')
    BY DEF UsersOK, OnlyMaker
  <2>1. IsFiniteSet(DoneUses(l)) /\ users[l] = Cardinality(DoneUses(l)) /\ users[l] \in Nat
    BY <1>3 DEF UsersOK, OnlyMaker, MakersOK
  <2>2. \A d \in DOMAIN maker \ {c} : \A k, r : HasChecker(d, k, r)' <=> HasChecker(d, k, r)
    BY DEF OnlyMaker, HasChecker, Pending
  <2>3. DOMAIN maker = Contexts /\ Uses(l)' = Uses(l)
    BY UsesKept DEF MakersOK, OnlyMaker
  <2>4. ASSUME NEW u \in Uses(l)
        PROVE  HasChecker(u[1], u[2][1], u[2][2])' <=> HasChecker(u[1], u[2][1], u[2][2]) \/ u = new
    <3>1. PICK d \in Contexts : \E k \in 1..Threads(d), r \in PhaseKeys(d) : u = <<d, <<k, r>>>>
      BY UseShape
    <3>2. PICK k \in 1..Threads(d), r \in PhaseKeys(d) : u = <<d, <<k, r>>>>
      BY <3>1
    <3>3. u[1] = d /\ u[2][1] = k /\ u[2][2] = r /\ (u = new <=> d = c /\ k = n /\ r = s)
      BY <3>2
    <3>4. HasChecker(d, k, r)' <=> HasChecker(d, k, r) \/ (d = c /\ k = n /\ r = s)
      BY <1>1, <2>2, <2>3
    <3> QED
      BY <3>3, <3>4
  <2>5. new \in Uses(l) <=> l = m
    <3>1. CASE l = m
      BY <2>3, <3>1, UseShape
    <3>2. ASSUME new \in Uses(l) PROVE l = m
      <4>1. PICK d \in Contexts : \E k \in 1..Threads(d), r \in PhaseKeys(d) :
               new = <<d, <<k, r>>>> /\ PhaseOf(d, r).limiter = l
        BY <3>2, UseShape
      <4>2. PICK k \in 1..Threads(d), r \in PhaseKeys(d) : new = <<d, <<k, r>>>> /\ PhaseOf(d, r).limiter = l
        BY <4>1
      <4>3. d = c /\ r = s
        BY <4>2
      <4> QED
        BY <4>2, <4>3
    <3> QED
      BY <3>1, <3>2
  <2>6. ~HasChecker(new[1], new[2][1], new[2][2])
    BY <1>1
  <2>7. CASE l = m
    <3>1. DoneUses(l)' = DoneUses(l) \cup {new} /\ new \notin DoneUses(l)
      BY <2>3, <2>4, <2>5, <2>6, <2>7 DEF DoneUses
    <3>2. IsFiniteSet(DoneUses(l) \cup {new}) /\ Cardinality(DoneUses(l) \cup {new}) = Cardinality(DoneUses(l)) + 1
      BY <2>1, <3>1, FS_AddElement
    <3>3. users'[l] = users[l] + 1
      BY <1>4, <2>7
    <3> QED
      BY <2>1, <3>1, <3>2, <3>3
  <2>8. CASE l # m
    <3>1. DoneUses(l)' = DoneUses(l)
      BY <2>3, <2>4, <2>5, <2>8 DEF DoneUses
    <3> QED
      BY <1>4, <2>1, <2>8, <3>1
  <2> QED
    BY <2>7, <2>8
<1> QED
  BY <1>5, <1>6

\* An operation that is asked for again has its stream.
LEMMA StreamAdded ==
  ASSUME StreamsOK, NEW op, operation(op), UNCHANGED workload
  PROVE  StreamsOK'
<1>1. UseGrpc' = UseGrpc
  BY DEF UseGrpc
<1>2. IsFiniteSet(ops) /\ Cardinality(ops) \in Nat
  BY FS_CardinalityType DEF StreamsOK
<1>3. CASE op \in ops
  <2>1. ops' = ops /\ streams' = streams
    BY <1>3 DEF operation
  <2> QED
    BY <1>1, <2>1 DEF StreamsOK, OneStreamPerOperation
<1>4. CASE op \notin ops
  <2>1. ops' = ops \cup {op} /\ streams' = IF UseGrpc THEN Append(streams, op) ELSE streams
    BY <1>4 DEF operation
  <2>2. IsFiniteSet(ops') /\ Cardinality(ops') = Cardinality(ops) + 1
    BY <1>2, <1>4, <2>1, FS_AddElement
  <2>3. CASE UseGrpc
    <3>1. Len(streams) \in Nat /\ DOMAIN streams = 1..Len(streams) /\ Len(streams) = Cardinality(ops)
      BY <2>3 DEF StreamsOK, OneStreamPerOperation
    <3>2. Len(streams') = Len(streams) + 1 /\ DOMAIN streams' = 1..Len(streams')
      BY <2>1, <2>3, <3>1
    <3>3. Len(streams') \in Nat /\ Len(streams') = Cardinality(ops')
      BY <2>2, <3>1, <3>2
    <3> QED
      BY <1>1, <2>2, <2>3, <3>2, <3>3 DEF StreamsOK, OneStreamPerOperation
  <2>4. CASE ~UseGrpc
    BY <1>1, <2>1, <2>2, <2>4 DEF StreamsOK, OneStreamPerOperation
  <2> QED
    BY <2>3, <2>4
<1> QED
  BY <1>3, <1>4

RegisterInv == StreamsOK /\ HooksOK /\ TodoOK /\ UsersOK

LEMMA StreamsKept ==
  ASSUME StreamsOK, [WorkloadNext]_workloadVars, UNCHANGED workload
  PROVE  StreamsOK'
<1>1. CASE UNCHANGED <<ops, streams>>
  BY <1>1 DEF StreamsOK, OneStreamPerOperation, UseGrpc
<1>2. CASE \E c \in DOMAIN maker : ConstructValue(c)
  <2>1. UNCHANGED <<ops, streams>> \/ \E k : operation(k)
    BY <1>2 DEF ConstructValue
  <2> QED
    BY <1>1, <2>1, StreamAdded
<1>3. CASE \E c \in DOMAIN maker : Produce(c) \/ ConstructChecker(c) \/ ActorMade(c) \/ addItem(c)
  BY <1>1, <1>3 DEF Produce, ConstructChecker, ActorMade, addItem
<1>4. CASE Register \/ BeginContexts \/ NewActorContext \/ BeginMake \/ JoinMakers
  BY <1>1, <1>4 DEF Register, BeginContexts, NewActorContext, BeginMake, JoinMakers, makeVars
<1>5. CASE StartHook \/ StopHook \/ PeerAnswers \/ UNCHANGED workloadVars
  BY <1>1, <1>5 DEF StartHook, StopHook, PeerAnswers, workloadVars, makeVars
<1> QED
  BY <1>2, <1>3, <1>4, <1>5 DEF WorkloadNext

\* The hook of the coordinator comes last and is no user's.
LEMMA CoordinatorAdded ==
  ASSUME HooksOK, hooks' = Append(hooks, Coordinator), UNCHANGED users
  PROVE  HooksOK'
<1>1. Len(hooks) \in Nat /\ DOMAIN hooks = 1..Len(hooks) /\ Coordinator \notin Limiters
  BY WorkloadAssumption DEF HooksOK
<1>2. /\ Len(hooks') = Len(hooks) + 1 /\ DOMAIN hooks' = 1..Len(hooks')
      /\ hooks'[Len(hooks) + 1] = Coordinator /\ \A i \in 1..Len(hooks) : hooks'[i] = hooks[i]
  BY <1>1
<1>3. \A l \in Limiters : HooksOf(l)' = HooksOf(l)
  BY <1>1, <1>2 DEF HooksOf
<1> QED
  BY <1>1, <1>2, <1>3 DEF HooksOK

LEMMA RegisterAlways ==
  ASSUME ContextsOK, MakersOK, RegisterInv, [WorkloadNext]_workloadVars
  PROVE  RegisterInv'
<1>1. UNCHANGED workload /\ StreamsOK'
  <2>1. UNCHANGED workload
    BY ContextsKept DEF NewActorContext
  <2> QED
    BY <2>1, StreamsKept DEF RegisterInv
<1>2. CASE Register \/ BeginContexts \/ NewActorContext
  <2>1. UNCHANGED <<maker, users, hooks>> /\ stage' \in {"cast", "contexts", "failed"} /\ stage \in {"cast", "contexts"}
    BY <1>2 DEF Register, BeginContexts, NewActorContext, makeVars
  <2>2. DOMAIN maker = {}
    BY <2>1 DEF MakersOK
  <2>3. HooksOK'
    BY <2>1 DEF RegisterInv, HooksOK, HooksOf
  <2>4. TodoOK' /\ UsersOK'
    BY <2>1, <2>2 DEF RegisterInv, TodoOK, UsersOK
  <2> QED
    BY <1>1, <2>3, <2>4 DEF RegisterInv
<1>3. CASE BeginMake
  <2>1. /\ stage = "contexts" /\ stage' = "make" /\ UNCHANGED <<workload, contexts, users, hooks>>
        /\ maker' = [c \in Contexts |-> [at |-> "produce", made |-> <<>>, id |-> 0, todo |-> {}]]
    BY <1>3 DEF BeginMake, setupVars
  <2>2. HooksOK'
    BY <2>1 DEF RegisterInv, HooksOK, HooksOf
  <2>3. \A c \in Contexts : maker'[c].at = "produce" /\ Len(maker'[c].made) = 0
    BY <2>1
  <2>4. TodoOK'
    BY <2>1, <2>3 DEF TodoOK
  <2>5. ASSUME NEW l \in Limiters PROVE DoneUses(l)' = {}
    <3> SUFFICES ASSUME NEW u \in DoneUses(l)' PROVE FALSE
      OBVIOUS
    <3>1. u \in Uses(l) /\ HasChecker(u[1], u[2][1], u[2][2])'
      BY <2>1, UsesKept DEF DoneUses
    <3>2. PICK d \in Contexts : \E k \in 1..Threads(d), r \in PhaseKeys(d) : u = <<d, <<k, r>>>>
      BY <3>1, UseShape
    <3>3. PICK k \in 1..Threads(d), r \in PhaseKeys(d) : u = <<d, <<k, r>>>>
      BY <3>2
    <3>4. HasChecker(d, k, r)'
      BY <3>1, <3>3
    <3>5. k \in Nat \ {0}
      BY ActorsTyped
    <3> QED
      BY <2>3, <3>4, <3>5 DEF HasChecker
  <2>6. UsersOK'
    BY <2>1, <2>5, FS_EmptySet DEF RegisterInv, UsersOK
  <2> QED
    BY <1>1, <2>2, <2>4, <2>6 DEF RegisterInv
<1>4. CASE \E c \in DOMAIN maker : MakerStep(c)
  <2>1. PICK c \in DOMAIN maker : MakerStep(c)
    BY <1>4
  <2>2. stage = "make"
    BY <2>1 DEF MakerStep, Produce, ConstructValue, ConstructChecker, ActorMade, addItem, Making
  <2>3. OnlyMaker(c)
    BY <2>1, ProduceInOrder, PhasesInOrder, MadeInOrder, AddedInOrder DEF MakerStep
  <2>4. TodoOK'
    BY <2>1, <2>3, TodoKept DEF RegisterInv
  <2>5. CASE ConstructChecker(c)
    BY <1>1, <2>2, <2>3, <2>4, <2>5, UserAdded DEF RegisterInv
  <2>6. CASE Produce(c) \/ ConstructValue(c) \/ ActorMade(c) \/ addItem(c)
    <3>1. UNCHANGED <<users, hooks>>
      BY <2>6 DEF Produce, ConstructValue, ActorMade, addItem
    <3>2. HooksOK'
      BY <2>3, <3>1 DEF RegisterInv, HooksOK, HooksOf, OnlyMaker
    <3>3. UsersOK'
      BY <2>2, <2>3, <2>6, <3>1, UsersKept DEF RegisterInv
    <3> QED
      BY <1>1, <2>4, <3>2, <3>3 DEF RegisterInv
  <2> QED
    BY <2>1, <2>5, <2>6 DEF MakerStep
<1>5. CASE JoinMakers \/ StartHook \/ StopHook \/ PeerAnswers \/ UNCHANGED workloadVars
  <2>1. UNCHANGED <<workload, contexts, maker, users, exceptions>>
    BY <1>5 DEF JoinMakers, StartHook, StopHook, PeerAnswers, workloadVars, makeVars, setupVars
  <2>2. \/ stage' = stage /\ hooks' = hooks
        \/ stage = "make" /\ stage' = "failed" /\ hooks' = hooks
        \/ stage = "make" /\ stage' = "done" /\ hooks' = Append(hooks, Coordinator)
    BY <1>5 DEF JoinMakers, StartHook, StopHook, PeerAnswers, workloadVars
  <2>3. HooksOK'
    <3>1. CASE hooks' = hooks /\ (stage' = stage \/ stage' = "failed")
      BY <2>1, <2>2, <3>1 DEF RegisterInv, HooksOK, HooksOf
    <3>2. CASE hooks' = Append(hooks, Coordinator)
      BY <2>1, <3>2, CoordinatorAdded DEF RegisterInv
    <3> QED
      BY <2>2, <3>1, <3>2
  <2>4. TodoOK'
    BY <2>1 DEF RegisterInv, TodoOK, PhaseKeys
  <2>5. \A l : DoneUses(l)' = DoneUses(l)
    BY <2>1, UsesKept DEF DoneUses, HasChecker, Pending
  <2>6. UsersOK'
    BY <2>1, <2>2, <2>5 DEF RegisterInv, UsersOK
  <2> QED
    BY <1>1, <2>3, <2>4, <2>6 DEF RegisterInv
<1> QED
  BY <1>2, <1>3, <1>4, <1>5 DEF WorkloadNext, MakerStep

\* RegisteredOnce: in whatever order the threads construct the phases of their
\* actors, an operation has one stream although phases ask for it again; and of a
\* workload that is constructed each phase that names a limiter is one user of it
\* and one hook, and the coordinator's hook comes after all of them.
THEOREM AllIsRegisteredOnce == WorkloadSpec => []RegisteredOnce
<1> DEFINE Inv == ContextsOK /\ PhasesTold /\ MakersOK /\ RegisterInv
<1>1. WorkloadInit => Inv
  <2> SUFFICES ASSUME WorkloadInit PROVE MakersOK /\ RegisterInv
    BY ContextsAlways
  <2>1. MakersOK /\ TodoOK
    BY DEF WorkloadInit, MakersOK, TodoOK
  <2>2. StreamsOK
    BY FS_EmptySet DEF WorkloadInit, StreamsOK, OneStreamPerOperation
  <2>3. HooksOK /\ UsersOK
    <3>1. \A l : HooksOf(l) = {}
      BY DEF WorkloadInit, HooksOf
    <3>2. IsFiniteSet({}) /\ Cardinality({}) = 0
      BY FS_EmptySet
    <3>3. \A l \in Limiters : users[l] = 0 /\ IsFiniteSet(HooksOf(l)) /\ Cardinality(HooksOf(l)) = 0
      BY <3>1, <3>2 DEF WorkloadInit
    <3>4. Len(hooks) \in Nat /\ DOMAIN hooks = 1..Len(hooks) /\ users \in [Limiters -> Nat] /\ stage = "cast"
      BY DEF WorkloadInit
    <3> QED
      BY <3>3, <3>4 DEF HooksOK, UsersOK
  <2> QED
    BY <2>1, <2>2, <2>3 DEF RegisterInv
<1>2. Inv /\ [WorkloadNext]_workloadVars => Inv'
  BY ContextsAlways, MakersAlways, RegisterAlways
<1>3. Inv => RegisteredOnce
  <2> SUFFICES ASSUME Inv PROVE LimitersComplete
    BY DEF RegisteredOnce, RegisterInv, StreamsOK
  <2> SUFFICES ASSUME stage = "done", NEW l \in Limiters
               PROVE  /\ hooks[Len(hooks)] = Coordinator
                      /\ users[l] = Cardinality(Uses(l)) /\ users[l] = Cardinality(HooksOf(l))
    BY DEF LimitersComplete, HooksOf, RegisterInv, HooksOK
  <2>1. DoneUses(l) = Uses(l)
    <3>1. ASSUME NEW u \in Uses(l) PROVE HasChecker(u[1], u[2][1], u[2][2])
      <4>1. PICK d \in Contexts : \E k \in 1..Threads(d), r \in PhaseKeys(d) : u = <<d, <<k, r>>>>
        BY UseShape
      <4>2. u[1] \in Contexts
        BY <4>1
      <4> QED
        BY <4>2 DEF MakersOK, HasChecker
    <3> QED
      BY <3>1 DEF DoneUses
  <2> QED
    BY <2>1 DEF RegisterInv, HooksOK, UsersOK, MakersOK
<1> QED
  BY <1>1, <1>2, <1>3, PTL DEF WorkloadSpec
=============================================================================
