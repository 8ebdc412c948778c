# A TLA+ verification of oncekv

oncekv is a distributed key/value store in which "each pair of key/value can be
set **only one time**" (`src/README.md`). This directory holds TLA+ models of
its parts, the TLC configurations that check them on small instances, and
TLAPS proofs. `PROJECT.json` maps every definition to the lines it models.

    tlc -workers 2 -config MCDBNode_service.cfg MCDBNode    # one run
    tlapm DBNodeProofs.tla                                  # the proofs of DBNode
    tlapm DBClusterProofs.tla                               # ... and likewise
    tlapm ClientProofs.tla
    tlapm CacheNodeProofs.tla
    tlapm CacheMasterProofs.tla
    tlapm CodecProofs.tla
    tlapm BoltStoreProofs.tla

## The system

| part | source | state | operations | talks to |
|---|---|---|---|---|
| db store | `db/node/store/store.go` | map `m`, raft log, snapshots, peers file | Set, Add, Delete, Get, Join, Peers, Open; fsm Apply, Snapshot, Restore | raft |
| db service | `db/node/service` | none of its own | handleGet, handleSet, handleJoin, Start, tryToJoin, updatePeers | store, other nodes (HTTP), etcd |
| db master | `db/master/master.go` | list of peers and addresses, in etcd | heartbeat, removeNodes, Peers, UpdatePeers, RegisterPeer | nodes (`/ping`), etcd |
| client | `client` | server lists, fastDB, fastCache | Put, Get, refresh | caches and databases (HTTP), the two masters |
| cache master | `cache/master` | nodes map in memory and in etcd, db list | JoinNode, heartbeat, removeNode, syncDBs | cache nodes, etcd, db master |
| cache node | `cache/node` | groupcache, peers, dbs, fastDB | handleGetKey, fetchData, tryAllDBFind, handleMeta, join | databases, cache master, other caches |
| groupcache | vendored | two caches, loads under way, peers | Get, PickPeer, ServeHTTP | the cache node's fetchData, other nodes |
| raftboltdb | `raftboltdb` | raft log and stable store in bolt | StoreLogs, DeleteRange, Set, Add, Get | bolt |
| meta | `meta` | etcd | Get, Put, WatchModify | etcd |
| shard master, consistent hash | `db/master/shardmaster.go`, `utils/consistenthash` | ring | Query, Add, Get | - |
| admin | `admin` | none | lists of servers over HTTP and websocket | masters |

What is hard in it:

* **db store and service**: a command may commit after its writer was told that
  it failed; a leader that was replaced, or whose state machine is behind, still
  answers; nodes rebuild their map from snapshots and replayed commands.
  Correct means: replicas agree, an acknowledged write is there for ever, a key
  has one value for ever, every request is answered.
* **starting, joining and the list of peers**: several processes read and
  replace one etcd key, without transactions; goroutines put lists they read
  earlier; a node is pinged before it listens. Correct means: one cluster, the
  list names the live nodes, the dead ones leave it.
* **client**: fan-outs of goroutines, a timer, late goroutines, one shared
  variable. Correct means: a result is one that a server gave, failures are
  reported at once, every call returns.
* **cache node**: a load of a key may ask a peer, which may be loading the same
  key, by another list of peers; a miss is an error on one path and an empty
  value on another; a timer races the databases. Correct means: what is cached
  is the final value, a miss is not remembered, every request is answered.
* **cache master**: a map shared between a heartbeat and joins without a copy,
  its second copy in etcd, goroutines of old heartbeats that remove nodes that
  have joined again. Correct means: memory and etcd agree, dead nodes leave,
  live ones get the current lists.
* **raftboltdb**: two goroutines of raft write, one by a range it computed
  earlier; commits fail, the process crashes between two transactions. Correct
  means: a call has its whole effect or none, the log has no hole.

`PROJECT.json` lists these hazards one by one, at their lines.

## Modules

### `OnceKV`: the promise
A map `kv`; the only step sets a key that is not set.

### `DBNode`: store and key handlers
* `m`, `applied`, `up`: the map, the number of applied commands, the running
  nodes. `snap` and `pend` are the snapshot on disk and the clone that
  `fsm.Snapshot` returned and `Persist` has not written yet. `req[r]` is the
  handler of a request: before `Store.Add` (`"add"`), waiting for the raft
  future (`"wait"`), before `Store.Get` (`"read"`), answered (`"done"`).
* Actions of the code: `handleSet`, `propose` (Store.Add, Set, Delete up to the
  raft queue), `handleGet`, `Get`, `Apply`, `TakeSnapshot`, `Persist`,
  `InstallSnapshot` (Restore), `Open`, `Crash`.
* raft is abstracted to a committed `log`, terms, `leadTerm[n]` (what n believes)
  and `inflight` commands. `Commit` may commit a command of an earlier leader
  long after its writer was answered an error. A command in flight stays
  committable for ever, which is more than raft allows. A node in `leadTerm` t
  learns of no commit of a later term until it steps down.
* `states` is a history variable: the map after each prefix of the log.
* The membership is fixed here.

### `DBCluster`: start, join, list of peers, db master
* `peers` and `registered` are etcd keys. `pc[n]` is how far `Start` has come;
  `todo`, `asked` and `joins` are the join in progress at the joining node and
  at the leader, and `granted[n]` is the configuration whose commit made the node
  that was asked answer StatusOK, while that answer is under way; `conf[n]` is the
  JSON peers file, which survives crashes;
  `upd` are the goroutines of `updatePeers`; `hb` and `rem` are the heartbeat and
  the `removeNodes` goroutine of the master. `booted` is history: who ever found
  the list empty.
* Every etcd access is a step of its own, and it may fail (`MaxFaults`), as may
  a ping of a live node.
* raft has more behaviours here than the vendored version, so that what holds in
  the model holds whatever raft decides. `joins[p]` are the AddPeer entries that
  are not committed at the leader p, and `dispatched` is every configuration that
  a leader put in a log. A leader adds a peer to its own configuration when
  AddPeer is queued (`tryPeer`); when an entry commits it takes over the
  configuration of that entry (`Join`), and when an older one does, such as that
  of its election, it falls back (`Replicate` with itself); followers apply what
  is committed (`Replicate`). Whoever has peers, or runs in single mode, and of
  whose configuration a majority runs may be elected (`Elect`), on however old a
  configuration; two leaders may overlap until one steps down. Left out, because
  they only exclude some of this: terms, votes, the comparison of logs, and the
  order of entries.
* A restarted node applies its log again and writes the peers file once for each
  entry: a crash leaves the file as it is or with any dispatched configuration
  (`Crash`).
* A join takes four steps: the request, which AddPeer queues or handleJoin refuses
  (`tryPeer`), the commit at the leader, after which handleJoin answers and leaves
  updatePeers to a goroutine (`Join`), the read of the list by that goroutine
  (`readPeers`), and the arrival of the answer, with which tryToJoin returns
  (`joinAnswered`). Between them the leader may step down or crash: the answer then
  arrives all the same or is lost (`joinAnswerLost`), the goroutine may never run,
  and the joining node goes on to the next peer although the entry has committed.
* The order in which `tryToJoin` asks is left open (the code: sorted).
* A heartbeat that has found nobody dead is over with its last ping (`Round`), and
  `removeNodes` ends with its fetch if none of the dead nodes is on the list.
* One `removeNodes` goroutine at a time is a bound of the model.

### `Client`: Put and Get
* `fan[c][stage]` holds the variables that the goroutines of one fan-out
  (`tryAllCaches`, `tryAllDBFind`, `tryAllDBSet`) close over; a fan-out lives on
  after its call has returned. `setDB`, `setCache` are the `go setFastDB(..)`
  that have not run yet. `said` is history: the answers a call received.
* In `tryAllDBSet` the assignment to the shared `err` (`SetAnswers`) and the
  locked section that reads it (`SetDone`) are two steps, and the sender's read
  (`SetReturns`) a third: this is the data race of the code. The torn reads the
  Go memory model would allow for an interface or a string are not modelled;
  they lead to a URL that fails, which an answer may do anyway.
* In the initial state the `update` of `newClient` has found every server, and
  earlier calls may have left a fast cache (`LeftFast`); later updates replace the
  lists by any pair of `Listing`.
* `find` limits the wait for the header of an answer only: the fast cache's answer
  (`FastCache`) and the reading of its body by parseData (`FastBody`) are two steps.
  Of the fast database no body is read, because it never answers 200 to a Get.
* Durations are ranked: ideal, slow, requestTimeout.
* The servers answer anything they can answer (external). A database never has
  a value for the client, because the URL the client asks is not routed.

### `CacheNode`: GET at a cache node
* `main` and `hot` are the two caches of groupcache, `ld[n]` the one load of the
  key at node n (singleflight) with the variables of `tryAllDBFind`, `rq`, `at`
  and `ret` the calls of `Group.Get`: one per request of a client (`handleGetKey`)
  and one per load that asks a peer (`ServeHTTP`). `pool`, `dbs` and `fastDB` are
  the fields of the node.
* Actions: `handleGetKey`, the lookup and the wait of singleflight (`Do`), the steps
  of a load (ask the owner, ask the fast database, ask all, an answer, the timer,
  the return), `setFastDB`, `handleMeta`, eviction, crash.
* There is one key; a list of peers decides its owner by the distance on the
  ring, `Dist`. groupcache keeps keys apart except for the size of its caches,
  which `Evict` stands for.
* The reply of the join is a list of HTTP addresses, and the node makes it its
  pool: requests to such peers fail and the load goes on locally. The first
  heartbeat replaces it by node addresses.
* A database may miss a key that is stored (`settled` FALSE), but has no wrong
  value: that is `ReadsAgree` of `DBNode`. Goroutines of a `tryAllDBFind` that has
  returned only touch variables nobody reads, and are left out.

### `CacheMaster`: join, heartbeat, removal, watch
* `nodesMap` and `mdbs` are the fields of the master, `nodes` and `dbList` the etcd
  keys, `pc`, `pool` and `dbs` the nodes. `hb` and `hbPeers` are the heartbeat loop,
  `snd[g]` the goroutines it starts (syncDBs, sendPeers, removeNode), which
  overlap with the next heartbeats; `watch` is the WatchModify goroutine.
* The heartbeat's lock covers only the assignment of the map, which is not
  copied: `nodeAddrs` and `httpAddrs` read the map at two moments. `JoinNode` and
  `removeNode` change it and put it in etcd under the lock, in two steps.
* Posts and etcd calls may fail, also after having had their effect. A concurrent
  read and write of the Go map, for which the runtime may abort the process, is
  a read at one moment or a `MasterCrash`.
* `Budgets` is a set of bounds; `Init` chooses one and `bounds` counts it down.

### `CacheSystem`: master and nodes together
`CacheMaster` and an instance of `CacheNode` share `pool` and `dbs`: the lists by
which the nodes find the owner of a key are the ones the master really sends.

### `Codec`, `LogStore` and `BoltStore`: the log on disk
* `Codec` is `util.go`: `uint64ToBytes` and `bytesToUint64` for keys of `Width` bytes of
  `Base` values, and `Less`, the order of bytes.Compare (external).
* `LogStore` is what raft expects: a map from numbers to entries and one for the
  StableStore; a call (`tx.call`, of goroutine `tx.by`) takes effect at one moment
  or not at all.
* `BoltStore`: `file` is what is committed (`made` says that the buckets are there),
  `tx` the one write transaction with the buckets as it will leave them, `ret` the
  results. The keys of `file.logs` are bytes, and a cursor goes through them by
  `Less`. `Begin`, `Commit`, `Rollback` and `CommitFails` are bolt's.
* raft is the caller: the main loop opens, appends (with the deletion of
  conflicting entries before), sets its term, installs snapshots; the snapshot
  goroutine computes its range (`compactLogs`) and deletes it later (`compact`). A
  snapshot may be taken at any index of the log, more than what is applied.
* When StoreLogs fails after DeleteRange has succeeded, raft's last index in
  memory is past the end of the log: `LogIsWhole` is stated for behaviours in
  which no Commit failed (`failed`), `ImplementsLogStore` for all.

### MC modules
`MCDBNode`, `MCDBCluster` and `MCClient` add symmetry sets (nodes; requests or calls of
one kind; servers of one kind), used in safety runs only, `MCDBCluster` also the
constraint of the three-node run (`OneFounder`; the run with two nodes has none),
`MCClient` the server lists that `update` may find, `MCCacheNode` the distances and
the lists a heartbeat may send, `MCCacheMaster` and `MCCacheSystem` the bounds;
`MCCacheSystem` also the constraint that reads are made between heartbeats, when
both nodes run. `MCBoltStore` adds nothing.

## What the runs check

| run | shows | bounds |
|---|---|---|
| `dbnode_service` | `ReplicaMatchesLog`, `AckedIsCommitted`, `ReadsAgree`, refinement of `OnceKV` | 2 nodes, 1 key, values "" and "a", 3 requests, 2 terms, 1 crash |
| `dbnode_store` | replicas and snapshots, with Set and Delete (not idempotent: replays show); every request is answered | 2 requests, 2 terms, 1 crash, no symmetry |
| `dbnode_duplicate` | **violated**: a duplicate is reported | |
| `dbcluster_safety` | one boot, one group; a join reported done is done; members have an address | 3 nodes, started one at a time, 1 crash, one founder, the rounds of the master between the updates of the list |
| `dbcluster_live` | a dead node leaves the list for good; one boot, one group | 2 nodes, started together, 1 crash, 1 fault |
| `dbcluster_splitbrain` | **violated**: one leader | no crash, no fault |
| `client_calls` | nil means a 200; failures are handed over at once; every call returns, but for the two waits without a timer | a Put and a Get, 2 databases, 1 cache, with and without a fast cache left behind, the lists may become empty once |
| `client_gets` | a result is what a server said; failures are handed over at once | 2 Gets, 2 caches, 1 database, one or both lists may become empty once |
| `cachenode` | a cached value is the stored one; a miss is not remembered; no circle of loads; every GET returns, but for a silent fast database | 2 nodes, a GET at each, 2 databases, 1 heartbeat, 1 crash |
| `cachemaster` | memory and etcd agree unless the last put failed; the dead leave; live members get the current lists | 2 nodes, 2 goroutines at once; either 2 starts and a crash, or one start, a crash, a fault, a restart of the master and a change of databases |
| `cachesystem_deadlock` | **violated**: no circle of loads | 2 nodes, no crash, no fault; reads between heartbeats |
| `boltstore` | reads are right; the log has no hole after the snapshot; refinement of `LogStore` | keys of 2 bytes of 2 values, indices 0 to 3, 2 entries a call, 1 snapshot, 2 crashes or failing commits |

Why the bounds are enough: in `DBNode` two terms give an old and a new leader,
one crash with a snapshot gives a restart from it, three requests give two
writers and a reader of one key; keys do not interact. In `DBCluster` two nodes
show the races on the list, in every interleaving with the rounds of the master;
three a join beside a join and a majority that survives a crash, where the
constraint keeps to what the proofs generalise: one founder. In `Client` two servers give a first and a last goroutine, two
calls a late goroutine beside a new call. In `CacheNode` two nodes are what a
circle of loads takes, and one list that changes gives two views of the owner.
In `CacheMaster` two goroutines are an old heartbeat beside a new one; the first
budget has a node crash and join again or a second node beside it, the second
every fault once, the restart of the master among them. In `BoltStore` four indices over
two bytes give a carry between bytes, a range of two with an entry on either
side, and a deletion that overlaps a compaction; the second fault lets a
recovery fail too.

Every passing property has a mutant in `PROJECT.json`: a changed definition of
the code (the operators under "Mutated forms") with which it fails.

### What the violations say
* `DuplicateIsReported`: `fsm.applyAdd` returns "key duplicated" as the
  *response* of the raft future; `Store.Add` returns only its *error*. The second
  writer of a key is told OK.
* `OneGroup`: `Start` lists the node before `s.Run`. A heartbeat in between removes
  it; nothing lists it again; and with the list empty the next node boots a
  second cluster.
* `SystemNoWaitCycle`: a node that joins between the two reads of the heartbeat is
  sent a list without itself. Its groupcache asks a peer for every key; the
  peer, which has the full list, asks it back. Each load waits in singleflight
  for the other, and no request between peers has a timeout. `cachenode` shows
  that the circle needs such a list: with lists that name their recipient,
  there is none.

Visible in the models, and no run of their own:
* A read asks nobody but the local map: the values read are right (`ReadsAgree`,
  proved), "not found" at a replaced leader may not be. `CachedIsStored` and
  `MissIsForgotten` are what keeps this from lasting in the caches.
* A node that has joined need not stay a member: a follower with an older
  configuration may be elected and puts that one in the log, and of two joins
  at once the entry of one may be without the other. `JoinedIsMember` is about the
  configuration that was committed for the join, not about what becomes of it.
* Three waits for one server have no timer: `kv.set` of the fast database, the body
  of the fast cache's answer, and `find` of the cache node's fast database. A server
  that accepts and is silent for ever holds up the Put, the Get, or the load and
  everyone who waits for it; `EveryCallReturns` and `EveryGetReturns` say that a call
  hangs there or nowhere.
* A node removed from the list by a heartbeat that came too early is never listed
  again.
* `handleSet` answers a failed write with HTTP 200, for which `Put` returns nil; the
  client reads databases at `/key/:key`, they serve `/i/key/:key`.
* `completeCount` is never incremented in `tryAllDBFind`, of the client and of the
  cache node: a Get whose databases all fail sits out the timer
  (`SetAndCachesFailFast` leaves this fan-out out for that reason); and through
  the shared `err` of `tryAllDBSet` a database that failed may be recorded as the
  fast one.
* An etcd error in `syncDBs` counts as a failure of the node it was for: the live
  node leaves the map and joins again only when it is restarted (`PeersConverge`
  is about the nodes in the map).

### Fairness
* `DBNode`: handlers go on; raft commits and applies while a majority is up; a
  leader that was replaced or lost its majority finds out (leader lease, answers
  of peers). Not assumed: that requests arrive, that a leader is elected, that a
  crashed node returns.
* `DBCluster`: each thread that runs goes on (`Start`, the goroutines of updatePeers),
  an answer that was given arrives or is lost, the ticker of the master ticks and
  its goroutines go on; a node that is up answers a ping. Not assumed: that
  nodes are started, and anything of raft: that a leader
  is elected, that an entry commits, that a leader steps down.
* `Client`: timers fire, in `find` for a fast server and in the select of a fan-out.
  Not assumed: that a server ever answers, to a goroutine of a fan-out, to `kv.set`
  of the fast database or with the rest of a body. `EveryCallReturns` is stated for
  calls that are not for ever in one of the last two (`Untimed`).
* `CacheNode`: handlers, loads and timers go on, and a GET that a peer has answered
  returns. Not assumed: that any database answers, in `tryAllDBFind` or as the fast
  one, or that heartbeats come. `EveryGetReturns` is stated for behaviours in which no
  load waits for ever for the fast database.
* `CacheMaster`: the ticker ticks, goroutines go on, posts are answered or fail, a
  join that is under way goes on. Not assumed: that nodes or the master are
  started, or started again.

## What is proved

Each proofs module holds, for every value of the constants, from the `ASSUME` of
its component only (typing and disjointness of the constants) unless a
hypothesis is named below. `TypeCorrect` in each is `Spec => []TypeOK`.

### `DBNodeProofs`
* `ReplicasFollowLog` (`ReplicaMatchesLog`) and `SnapshotsFollowLog`
  (`SnapshotMatchesLog`), for every set of operations.
* With `Ops = {"add"}`, the HTTP service: `AcksAreCommitted`, `AllReadsAgree`, and
  `OnceKVRefinement`: `Spec => ImplementsOnceKV`.

The first two rest on `ReplicaInv`: types, the shape of a handler in each place
(`HandlerShape`), that only proposed writes are in flight (`InflightShape`), that
the history follows the log (`StatesFollowLog`), and the two properties, which
need each other: a restart takes the map from the snapshot, a snapshot takes it
from the replica. The others rest on `OnceInv`, which adds that a value a key had
in any prefix is its value now (`StatesAreFinal`: this is what makes a read at an
old leader right), that the log names proposed writes with their keys
(`LogMatchesRequests`) and that every answer given is true (`Truthful`). The
refinement: a `Commit` is a `Put` of the abstract map or a stutter, everything
else a stutter.

### `DBClusterProofs`
All for any number of nodes, crashes and faults, over a raft that may do more than
the real one.
* `JoinSucceeds` (`JoinedIsMember`, an action property) from `GrantInv` and `FounderInv`
  below. `EntryInv`: only a leader holds AddPeer entries (`JoinsAreLed`), and each is in
  a log, with the new node and the leader in its configuration
  (`EntriesAreDispatched`). `GrantInv` carries this to the answer: who waits for one is
  joining (`AskedIsJoining`), and an answer under way is for a configuration in a log
  with the new node and the one that was asked (`GrantedIsDispatched`), whatever
  becomes of that node before the answer arrives. By `FounderInv` that configuration
  contains a node that booted the cluster.
* `MembersHaveAddresses` (`MembersAreRegistered`). `RegisteredInv` adds that whoever is
  past `register`, or leads, is registered (`StartedIsRegistered`), and so is every
  node of a configuration in a log (`DispatchedIsRegistered`), which a crash may bring
  back.
* `OneBootIsOneGroup` (`OneBootOneGroup`). `FounderInv`: every configuration in a log or
  a file contains a founder, a node that once found the list empty
  (`LogsHaveFounder`, `FilesHaveFounder`), and single mode is for founders
  (`SingleIsFounder`). For leaders that is not inductive: the configuration of a
  leader shrinks when an old entry commits, and its followers take it over
  without the nodes that wait. So each leader has one founder that is *settled*
  in its group: in its configuration, in every entry it holds, and waiting in
  none (`LeadersHaveFounder`); a new node is never that founder, because it is
  neither the leader nor one of its peers. With one founder, every group has it.

### `ClientProofs`
* `FailFast` (`SetAndCachesFailFast`) from `TypeInv`, which says of every fan-out
  that a goroutine is through its locked section only after it was answered, and
  that a full count has handed something over (`FanOK`).
* `PutsAreAnswered` (`PutIsAnswered`) and `GetsAreBacked` (`GetIsBacked`) from
  `AnswerInv`: the shared `err` of a fan-out holds what some server said to this
  very call, whichever goroutine assigned it last (`ErrIsSaid`), and so does a
  result (`RetIsSaid`). The data race on `err` cannot invent an answer; it can
  only exchange one for another.

### `CacheNodeProofs`
* `CacheHoldsStored` (`CachedIsStored`): `StoredInv` adds that a load on its way to
  the cache with a value carries the stored one.
* `MissesAreForgotten` (`MissIsForgotten`): `MissInv` says that only a load waiting in
  the select of tryAllDBFind holds an answer (`GotInAll`), and that from the moment
  a call is late the databases are settled and no load holds a miss
  (`LateIsSettled`).
* `LoadsDoNotDeadlock` (`NoWaitCycle`), **for lists that name their recipient**
  (`SelfListed`). Then a load only asks a peer closer to the key than itself
  (`AsksCloser`), so the closest node of a circle would have to wait for nobody.
  The hypothesis is what the code lacks: the run `cachesystem_deadlock` shows the
  master sending other lists, and the circle.

### `CacheMasterProofs`
* `EtcdFollowsMemory` (`EtcdIsCurrent`) and `PutsAreExclusive` (`LockIsExclusive`), from
  `MapInv`: whoever has changed the map and not yet put it holds the write lock,
  and is the only one, so a put never writes a map that another one has changed
  in between.
* `ListsNameRecipient`: if no node joins between the two reads of a heartbeat
  (`NoJoinBetweenReads`), every list of node addresses that a node has names the
  node itself (`PoolsNameSelf`). `SelfInv` carries this through the goroutines: one
  that is going to post has its node among its addresses (`SendersNameTheirs`),
  however long it takes and whatever joins, crashes and restarts meanwhile.
  `PoolsNameSelf` is what `LoadsDoNotDeadlock` supposes of the lists: the reads of the
  map without the lock, which `cachesystem_deadlock` shows to end in a circle of
  loads, are the only way to one.

### `CodecProofs`
For every `Base` and `Width` (8 bytes of 256 values are one case):
* `DecodeEncode`: a number that fits is read back from its key.
* `OrderOfBytes`: keys compare as their numbers do.

Both are inductions over the bytes. They are done without an induction theorem
that takes a predicate: `Induct` takes the *set* of positions for which the claim
holds, and rests on the least element of a set of numbers (`Least`, from the
library's well-founded order). The same way the two recursive functions are
shown to exist (`HornerExists`) and to be unique (`HornerUnique`). `Prefixes` is the
claim that is inductive: the first i bytes of the key of u are the number
u \div pow[Width - i].

### `BoltStoreProofs`
From `CodecAssumption` and `BoltStoreAssumption`: every index and every number fits a
key, and `Nil` is neither an entry nor a key. `MaxIndex`, `MaxEntries`, `Trailing`, the
entries, the number of snapshots and of faults are arbitrary.
* `TypeCorrect`, `ReadsRightAlways` (`ReadsAreRight`) and `LogStoreRefinement`
  (`Spec => ImplementsLogStore`) rest on `StoreInv`: types; the transaction is that
  of the goroutine that waits, for the call it is waiting for, and `tx.file` is still
  what the call makes of what is on disk *now* (`TxOK`, by `Effected`, which says
  by index what each operation does to the log); the pending entries fit
  (`AppendOK`); the buckets are made before they are read (`BucketsMade`). `TxOK` is
  what makes the refinement go through: a Commit replaces both buckets as a
  whole, which is the effect of one call only because nothing was committed since
  Begin. Commit is `Succeeds`, a Commit that fails and a Rollback are `Fails`, the rest
  is `Called`, `Returned`, `Crash` or a stutter.
* The operations are taken to indices once: `StoreLogsLog`, `DeleteRangeLog` and
  `CursorEnds` turn the loops over bytes into sets of numbers, by `OrderOfBytes`. In
  particular DeleteRange, which stops at the first key above `max`, deletes exactly
  the range, because no later key is below it.
* `LogStaysWhole` (`LogIsWhole`) rests on `WholeInv`: a range to compact ends at or
  before the snapshot, however old it is when it is deleted (`CompactsCovered`); a
  call for the log fails only by a Commit that fails (`ErrIsFailure`); the log has no
  hole after the snapshot; and raft knows its end at every place of the main
  loop (`RaftKnows`): between the deletion of conflicting entries and the storing
  of new ones everything on disk lies before the new ones and reaches them.

### Only model-checked
* Liveness (`EveryRequestAnswered`, `DeadIsUnlisted`, `EveryCallReturns`,
  `EveryGetReturns`, `DeadIsDropped`, `PeersConverge`): fairness and ENABLED are out of
  the prover's reach.
* `SystemNoWaitCycle` is violated; `NoWaitCycle` is proved from the hypothesis it
  lacks, and that hypothesis from the absence of the race (`ListsNameRecipient`).

## Plan

Every safety invariant and action property of the passing runs, and both
refinements, are theorems. What is left:

1. `ListsNameRecipient` and `LoadsDoNotDeadlock` are put together in words only. One
   theorem about `CacheSystem` would need the lemmas of `CacheNodeProofs` for the
   instance of `CacheNode` in it, and tlapm does not take lemmas through INSTANCE.
2. Behaviours that no document speaks of, and for which no property is claimed:
   the update of the list that `removeNodes` overwrites, and the member that
   restarts and is refused (see the hazards in `PROJECT.json`).

## Not modelled

* The raft protocol itself, and etcd, bolt and groupcache beyond what the code
  relies on (vendored; abstracted as said above).
* The shard master: its Join, Leave and Move are empty, nothing creates one, and
  its ring does not change after New. The consistent hash, which only it uses.
* The admin server and its front end: views that poll the two masters and keep
  nothing.
* `Close` of the bolt store, which the program never calls; `WatchModify` on a
  cancelled watch, where it panics; servers that accept a ping of the master and
  never answer it (nodes run or are down); `/stats` and its websocket, which only read.
* Configuration, logging, test doubles, examples; JSON and HTTP encodings, which
  carry the data unchanged.
