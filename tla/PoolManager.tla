----------------------------- MODULE PoolManager -----------------------------
(***************************************************************************)
(* PoolManager::createClient() and the EncryptionManager below it, called  *)
(* by the threads that construct the actors.  A lock for the map of names, *)
(* a lock for the pools of each name, and a lock for the map of key        *)
(* vaults; the options of a pool are built from that last map without it.  *)
(*                                                                         *)
(* A server is a set of key vaults and of collections.  Each encrypted     *)
(* collection has one field, so one data key.  Any request to a server may *)
(* fail, and its exception ends the thread.                                *)
(***************************************************************************)
EXTENDS Naturals, FiniteSets

CONSTANTS
  Builders,           \* the threads of parallelRun()
  Clients,            \* names under "Clients"
  Instances,
  Collections,        \* namespaces of encrypted collections
  Schemas,            \* those that "Encryption" describes
  Uri,                \* Uri[c]: the whole URI of client c, options included
  Server,             \* Server[u]: the server a URI leads to
  Vault,              \* Vault[c]: its key vault, NoVault without EncryptionOptions
  Encrypted,          \* Encrypted[c]: the collections of its EncryptionOptions
  MaxPoolSize,
  MaxCalls            \* bound: calls of a thread

NoVault == "none"
Nobody == "nobody"

ASSUME PoolAssumption ==
  /\ Encrypted \in [Clients -> SUBSET Collections]
  /\ \A c \in Clients : Vault[c] = NoVault => Encrypted[c] = {}
  /\ MaxPoolSize \in Nat /\ MaxCalls \in Nat
  /\ Nobody \notin Builders

VARIABLES
  dryRun,
  poolPc, call, calls,
  encryptionManager,  \* it is made
  nameLock,           \* lap.first of each client
  pools,              \* the pool's schema map, by client and instance
  entries,            \* connections taken from it
  made,               \* how often it was constructed: it exists if that is not 0
  raced,              \* history: pools whose options were read during a change
  vaultsLock,
  knownVaults,        \* the keys of _keyVaults
  keyVaults,          \* its values: the collections that have data keys
  coll, key,          \* of the thread that holds vaultsLock
  lastKey,
  stored,             \* per server: data keys in each key vault
  created,            \* per server: the key an existing collection needs
  orphans             \* history: collections that were not made, though their keys are recorded

poolMap == <<pools, entries, made, raced>>
serverVars == <<lastKey, stored, created, orphans>>
vaultVars == <<vaultsLock, knownVaults, keyVaults, coll, key>>
poolVars == <<dryRun, poolPc, call, calls, encryptionManager, nameLock, poolMap, vaultVars,
              serverVars>>

Pools == Clients \X Instances
Uris == {Uri[c] : c \in Clients}
Servers == {Server[u] : u \in Uris}
Vaults == {Vault[c] : c \in Clients} \ {NoVault}
KeyVaultID == Uris \X Vaults
MaxKeys == Cardinality(KeyVaultID) * Cardinality(Collections)
Keys == 1..MaxKeys
NoKey == 0

\* What a schema map says: the data key of each collection it has.
SchemaMaps == [Collections -> Keys \cup {NoKey}]

PoolTypeOK ==
  /\ dryRun \in BOOLEAN /\ encryptionManager \in BOOLEAN
  /\ poolPc \in [Builders -> {"idle", "name", "pool", "vaults", "emplace", "collection", "record",
                              "create", "options", "acquire", "failed"}]
  /\ call \in [Builders -> Pools] /\ calls \in [Builders -> 0..MaxCalls]
  /\ nameLock \in [Clients -> Builders \cup {Nobody}]
  /\ pools \in [Pools -> SchemaMaps] /\ raced \in SUBSET Pools
  /\ entries \in [Pools -> 0..MaxPoolSize] /\ made \in [Pools -> Nat]
  /\ vaultsLock \in Builders \cup {Nobody}
  /\ knownVaults \in SUBSET KeyVaultID /\ keyVaults \in [KeyVaultID -> SchemaMaps]
  /\ coll \in Collections /\ key \in Keys \cup {NoKey} /\ lastKey \in Keys \cup {NoKey}
  /\ stored \in [Servers \X Vaults -> SUBSET Keys]
  /\ created \in [Servers \X Collections -> Keys \cup {NoKey}]
  /\ orphans \in SUBSET (Servers \X Collections)

PoolInit ==
  /\ dryRun \in BOOLEAN /\ encryptionManager = FALSE
  /\ poolPc = [t \in Builders |-> "idle"]
  /\ call = [t \in Builders |-> CHOOSE p \in Pools : TRUE]
  /\ calls = [t \in Builders |-> 0]
  /\ nameLock = [c \in Clients |-> Nobody]
  /\ pools = [p \in Pools |-> [c \in Collections |-> NoKey]] /\ raced = {}
  /\ entries = [p \in Pools |-> 0] /\ made = [p \in Pools |-> 0]
  /\ vaultsLock = Nobody
  /\ knownVaults = {} /\ keyVaults = [v \in KeyVaultID |-> [c \in Collections |-> NoKey]]
  /\ coll = CHOOSE c \in Collections : TRUE
  /\ key = NoKey /\ lastKey = NoKey
  /\ stored = [v \in Servers \X Vaults |-> {}]
  /\ created = [c \in Servers \X Collections |-> NoKey] /\ orphans = {}

Client(t) == call[t][1]
KvId(t) == <<Uri[Client(t)], Vault[Client(t)]>>
At(t, x) == <<Server[Uri[Client(t)]], x>>

PoolGoto(t, from, to) == poolPc[t] = from /\ poolPc' = [poolPc EXCEPT ![t] = to]

-----------------------------------------------------------------------------
(* createClient().                                                         *)

\* What happens under _poolsLock.  The constructor of the EncryptionManager
\* throws when the configuration is wrong.
FindPools(t) ==
  /\ calls[t] < MaxCalls
  /\ \/ PoolGoto(t, "idle", "name") /\ encryptionManager' = TRUE
     \/ ~encryptionManager /\ PoolGoto(t, "idle", "failed") /\ UNCHANGED encryptionManager
  /\ \E p \in Pools : call' = [call EXCEPT ![t] = p]
  /\ calls' = [calls EXCEPT ![t] = @ + 1]
  /\ UNCHANGED <<dryRun, nameLock, poolMap, vaultVars, serverVars>>

LockName(t) ==
  /\ PoolGoto(t, "name", "pool")
  /\ nameLock[Client(t)] = Nobody
  /\ nameLock' = [nameLock EXCEPT ![Client(t)] = t]
  /\ UNCHANGED <<dryRun, call, calls, encryptionManager, poolMap, vaultVars, serverVars>>

UnlockName(t) == nameLock' = [nameLock EXCEPT ![Client(t)] = Nobody]

FindPool(t) ==
  /\ IF made[call[t]] > 0
     THEN PoolGoto(t, "pool", "acquire") /\ UnlockName(t)
     ELSE PoolGoto(t, "pool", IF Vault[Client(t)] = NoVault THEN "options" ELSE "vaults") /\ UNCHANGED nameLock
  /\ UNCHANGED <<dryRun, call, calls, encryptionManager, poolMap, vaultVars, serverVars>>

\* Fault: the exception leaves the map of key vaults locked.
PoolThrows_KeepsVaults(t) ==
  /\ poolPc[t] \in {"vaults", "emplace", "collection", "create", "options"}
  /\ poolPc' = [poolPc EXCEPT ![t] = "failed"]
  /\ UnlockName(t)
  /\ UNCHANGED <<dryRun, call, calls, encryptionManager, poolMap, vaultVars, serverVars>>

\* An option or a URI is wrong, or a request has failed: every lock is let go.
\* What was recorded stays, a key whose collection was not made too.
PoolThrows(t) ==
  /\ poolPc[t] \in {"vaults", "emplace", "collection", "create", "options"}
  /\ poolPc' = [poolPc EXCEPT ![t] = "failed"]
  /\ UnlockName(t)
  /\ vaultsLock' = IF vaultsLock = t THEN Nobody ELSE vaultsLock
  /\ orphans' = IF poolPc[t] = "create" THEN orphans \cup {At(t, coll)} ELSE orphans
  /\ UNCHANGED <<dryRun, call, calls, encryptionManager, poolMap, knownVaults, keyVaults, coll, key,
                 lastKey, stored, created>>

-----------------------------------------------------------------------------
(* createEncryptionContext().                                              *)

\* Fault: a key vault is dropped though it is in the map.
CreateKeyVault_Again(t) ==
  /\ Encrypted[Client(t)] \subseteq Schemas
  /\ vaultsLock = Nobody /\ vaultsLock' = t
  /\ PoolGoto(t, "vaults", "emplace")
  /\ stored' = IF dryRun THEN stored ELSE [stored EXCEPT ![At(t, Vault[Client(t)])] = {}]
  /\ UNCHANGED <<dryRun, call, calls, encryptionManager, nameLock, poolMap, knownVaults, keyVaults,
                 coll, key, lastKey, created, orphans>>

\* The request that drops what there is of a key vault, if we did not already
\* make it.
CreateKeyVault(t) ==
  /\ Encrypted[Client(t)] \subseteq Schemas
  /\ vaultsLock = Nobody /\ vaultsLock' = t
  /\ IF KvId(t) \notin knownVaults
     THEN /\ PoolGoto(t, "vaults", "emplace")
          /\ stored' = IF dryRun THEN stored ELSE [stored EXCEPT ![At(t, Vault[Client(t)])] = {}]
     ELSE PoolGoto(t, "vaults", "collection") /\ UNCHANGED stored
  /\ UNCHANGED <<dryRun, call, calls, encryptionManager, nameLock, poolMap, knownVaults, keyVaults,
                 coll, key, lastKey, created, orphans>>

EmplaceVault(t) ==
  /\ PoolGoto(t, "emplace", "collection")
  /\ knownVaults' = knownVaults \cup {KvId(t)}
  /\ UNCHANGED <<dryRun, call, calls, encryptionManager, nameLock, poolMap, vaultsLock, keyVaults,
                 coll, key, serverVars>>

\* In a dry run there are schemas without a key id; one stands for it.
CreateDataKeys(t) ==
  /\ PoolGoto(t, "collection", "record")
  /\ coll' \in {c \in Encrypted[Client(t)] : keyVaults[KvId(t)][c] = NoKey}
  /\ lastKey' = lastKey + 1 /\ key' = lastKey'
  /\ stored' = IF dryRun THEN stored ELSE [stored EXCEPT ![At(t, Vault[Client(t)])] = @ \cup {key'}]
  /\ UNCHANGED <<dryRun, call, calls, encryptionManager, nameLock, poolMap, vaultsLock, knownVaults,
                 keyVaults, created, orphans>>

RecordKeys(t) ==
  /\ PoolGoto(t, "record", "create")
  /\ keyVaults' = [keyVaults EXCEPT ![KvId(t)][coll] = key]
  /\ UNCHANGED <<dryRun, call, calls, encryptionManager, nameLock, poolMap, vaultsLock, knownVaults,
                 coll, key, serverVars>>

\* The collection is dropped and made again.
CreateCollection(t) ==
  /\ PoolGoto(t, "create", "collection")
  /\ created' = IF dryRun THEN created ELSE [created EXCEPT ![At(t, coll)] = key]
  /\ UNCHANGED <<dryRun, call, calls, encryptionManager, nameLock, poolMap, vaultVars,
                 lastKey, stored, orphans>>

EncryptionContextDone(t) ==
  /\ PoolGoto(t, "collection", "options")
  /\ \A c \in Encrypted[Client(t)] : keyVaults[KvId(t)][c] # NoKey
  /\ vaultsLock' = Nobody
  /\ UNCHANGED <<dryRun, call, calls, encryptionManager, nameLock, poolMap, knownVaults, keyVaults,
                 coll, key, serverVars>>

-----------------------------------------------------------------------------
(* makePool(), and the rest of createClient().                             *)

\* A thread that is about to change the map of key vaults.
ChangesVaults(t) == poolPc[t] \in {"emplace", "record"}

generateSchemaMapDoc(t) ==
  [c \in Collections |-> IF c \in Encrypted[Client(t)] THEN keyVaults[KvId(t)][c] ELSE NoKey]

\* The map of key vaults is read without its lock.  While another thread
\* changes it, find() may miss what is there, and the schema is left out.
MakePool(t) ==
  /\ PoolGoto(t, "options", "acquire")
  /\ IF Encrypted[Client(t)] # {} /\ \E u \in Builders : ChangesVaults(u)
     THEN /\ raced' = raced \cup {call[t]}
          /\ \E missed \in SUBSET Encrypted[Client(t)] :
               pools' = [pools EXCEPT ![call[t]] =
                           [c \in Collections |-> IF c \in missed THEN NoKey
                                                  ELSE generateSchemaMapDoc(t)[c]]]
     ELSE /\ pools' = [pools EXCEPT ![call[t]] = generateSchemaMapDoc(t)]
          /\ UNCHANGED raced
  /\ made' = [made EXCEPT ![call[t]] = @ + 1]
  /\ UnlockName(t)
  /\ UNCHANGED <<dryRun, call, calls, encryptionManager, entries, vaultVars, serverVars>>

\* try_acquire(), and the ping of _preWarm(), which may fail too.
Acquire(t) ==
  /\ \/ /\ entries[call[t]] < MaxPoolSize
        /\ PoolGoto(t, "acquire", "idle")
        /\ entries' = [entries EXCEPT ![call[t]] = @ + 1]
     \/ /\ entries[call[t]] = MaxPoolSize \/ ~dryRun
        /\ PoolGoto(t, "acquire", "failed")
        /\ UNCHANGED entries
  /\ UNCHANGED <<dryRun, call, calls, encryptionManager, nameLock, pools, made, raced, vaultVars, serverVars>>

-----------------------------------------------------------------------------
Build(t) ==
  \/ FindPools(t) \/ LockName(t) \/ FindPool(t)
  \/ CreateKeyVault(t) \/ EmplaceVault(t) \/ CreateDataKeys(t) \/ RecordKeys(t)
  \/ CreateCollection(t) \/ EncryptionContextDone(t) \/ MakePool(t) \/ Acquire(t)

PoolNext == \E t \in Builders : Build(t) \/ PoolThrows(t)

PoolSpec == PoolInit /\ [][PoolNext]_poolVars

-----------------------------------------------------------------------------
(* Properties.                                                             *)

\* A pool is constructed once, however many threads ask for it at once and
\* whichever of them fails on the way.
PoolMadeOnce == \A p \in Pools : made[p] <= 1

\* A pool has the key of each of its encrypted collections, unless its options
\* were read during a change; the key is in its key vault, and the collection was
\* made for that key, unless the request that makes it has failed.
Usable(p) ==
  LET c == p[1] IN
  \A n \in Encrypted[c] :
    /\ pools[p][n] = NoKey => p \in raced
    /\ pools[p][n] # NoKey /\ ~dryRun =>
         /\ pools[p][n] \in stored[<<Server[Uri[c]], Vault[c]>>]
         /\ created[<<Server[Uri[c]], n>>] = pools[p][n] \/ <<Server[Uri[c]], n>> \in orphans

\* That is so from the moment a pool is made, while other pools of its key vault
\* are made and whichever of their calls fail; and a collection is only missing
\* when a call has thrown, which ends the construction of the actors.
PoolsComplete ==
  /\ \A p \in Pools : made[p] > 0 => Usable(p)
  /\ orphans # {} => \E t \in Builders : poolPc[t] = "failed"

\* Both, for threads that ask for pools at once: what they share is made once,
\* and nobody drops or replaces what another one's pool relies on.
PoolsUsable == PoolMadeOnce /\ PoolsComplete

\* A call of createClient() ends, with a client or with an exception: nobody
\* waits for ever for one of the three locks.
CallsReturn == \A t \in Builders : poolPc[t] # "idle" ~> poolPc[t] \in {"idle", "failed"}

\* "This function could be called from multiple threads simultaneously": no
\* thread reads the map of key vaults while another one changes it.
NoVaultRace == raced = {}
=============================================================================
