---------------------------- MODULE CacheMaster ----------------------------
(***************************************************************************)
(* The cache master (cache/master/master.go), the cache nodes as it sees   *)
(* them (Start, join and handleMeta of cache/node/node.go) and the watch   *)
(* of meta/etcd.go.                                                        *)
(*                                                                         *)
(* The master keeps the map of nodes in memory and in etcd.  A heartbeat   *)
(* reads the map twice: the node addresses to send, then the nodes to send *)
(* them to.  It has the map itself and no copy, so it reads it without the *)
(* lock.  For each node a goroutine syncs the databases and posts both     *)
(* lists; any error removes the node.  Goroutines of heartbeats overlap.   *)
(***************************************************************************)
EXTENDS Naturals, Functions

CONSTANTS Node, DB,
          Slot,         \* goroutines of heartbeats that may be under way at once
          Nil,          \* the etcd key is not there
          Budgets       \* bounds: how often what may happen, see Budget

\* Bounds on starts and crashes of nodes, crashes of the master, failing etcd calls
\* and lost posts, changes of the list of databases.
Budget == [starts : Nat, crashes : Nat, fails : Nat, faults : Nat, changes : Nat]

ASSUME CacheMasterAssumption ==
  /\ \A S \in SUBSET Node : Nil # S
  /\ Budgets \subseteq Budget

VARIABLES
  up,                \* the master runs
  nodesMap, mdbs,    \* its map of nodes and its databases
  hb, hbPeers,       \* its heartbeat loop: where it is, the node addresses it read
  snd,               \* snd[g]: goroutine g, which sends the lists to a node
  event, watch,      \* the WatchModify goroutine: it has an event, and its syncDBs
  nodes,             \* etcd: the map of nodes, or Nil
  dbList,            \* etcd: the list of databases, kept by the db master
  stale,             \* history: the last put of the map failed
  pc,                \* pc[n]: where node n is in its Start
  pool, dbs,         \* what n was told: its peers, by kind of address, and databases
  bounds             \* what is left of the budget

loop == <<hb, hbPeers>>
watcher == <<event, watch>>
master == <<up, nodesMap, mdbs, loop, snd, watcher>>
etcd == <<nodes, stale>>
node == <<pc, pool, dbs>>
vars == <<master, etcd, dbList, node, bounds>>

-----------------------------------------------------------------------------
\* Where a sendPeers is, its node, the node addresses and databases it has read.
Sender == [pc : {"none", "sync", "set", "marshal", "post", "remove", "put"},
           to : Node \cup {Nil}, peers : SUBSET Node, dbs : SUBSET DB]
NoSender == [pc |-> "none", to |-> Nil, peers |-> {}, dbs |-> {}]

Pool == [kind : {"http", "node"}, of : SUBSET Node]

TypeOK ==
  /\ up \in BOOLEAN
  /\ nodesMap \subseteq Node /\ mdbs \subseteq DB
  /\ hb \in {"idle", "addrs"} /\ hbPeers \subseteq Node
  /\ snd \in [Slot -> Sender]
  /\ event \in BOOLEAN /\ watch \in Sender
  /\ nodes \in (SUBSET Node) \cup {Nil} /\ stale \in BOOLEAN
  /\ dbList \subseteq DB
  /\ pc \in [Node -> {"down", "join", "put", "joined", "up"}]
  /\ pool \in [Node -> Pool]
  /\ dbs \in [Node -> SUBSET DB]
  /\ bounds \in Budget

Init ==
  /\ up = TRUE
  /\ nodesMap = {} /\ mdbs = {}
  /\ hb = "idle" /\ hbPeers = {}
  /\ snd = [g \in Slot |-> NoSender]
  /\ event = FALSE /\ watch = NoSender
  /\ nodes = Nil /\ stale = FALSE
  /\ dbList = DB
  /\ pc = [n \in Node |-> "down"]
  /\ pool = [n \in Node |-> [kind |-> "http", of |-> {}]]
  /\ dbs = [n \in Node |-> {}]
  /\ bounds \in Budgets

\* Something bounded happens once more.
Count(k) == bounds[k] > 0 /\ bounds' = [bounds EXCEPT ![k] = @ - 1]

\* The write lock is held by a JoinNode or a removeNode that is putting the map.
Locked == (\E n \in Node : pc[n] = "put") \/ (\E g \in Slot : snd[g].pc = "put")

\* fetchNodesMap: no map in etcd is an empty one.
Saved == IF nodes = Nil THEN {} ELSE nodes

\* updateNodesMap.  The watch is told of a modification, not of the creation, of
\* the key.  A put that fails may have been done.
updateNodesMap ==
  \/ /\ nodes' = nodesMap /\ stale' = FALSE
     /\ event' = (event \/ nodes # Nil)
     /\ UNCHANGED bounds
  \/ /\ Count("faults")
     /\ stale' = TRUE
     /\ \/ nodes' = nodesMap /\ event' = (event \/ nodes # Nil)
        \/ UNCHANGED <<nodes, event>>

\* Goroutine g goes on, or ends.
Goes(g, c) == snd' = [snd EXCEPT ![g] = [NoSender EXCEPT !.pc = c, !.to = snd[g].to]]
Ends(g) == snd' = [snd EXCEPT ![g] = NoSender]

(***************************************************************************)
(* Mutated forms of the actions below, with which the properties fail.     *)
(***************************************************************************)
\* heartbeat that appends the node addresses to a list made with its full length,
\* so that it begins with empty addresses.
nodeAddrsPadded ==
  /\ up /\ hb = "idle"
  /\ hb' = "addrs" /\ hbPeers' = nodesMap \cup {Nil}
  /\ UNCHANGED <<up, nodesMap, mdbs, snd, watcher, etcd, dbList, node, bounds>>

\* removeNode that does not put the map.
removePutForgotten(g) ==
  /\ snd[g].pc = "put"
  /\ Ends(g)
  /\ UNCHANGED <<up, nodesMap, mdbs, loop, watcher, etcd, dbList, node, bounds>>

\* sendPeers that does not return the error of the post.
PostFailsSilently(g) ==
  /\ snd[g].pc = "post"
  /\ (pc[snd[g].to] # "up" /\ UNCHANGED bounds) \/ Count("faults")
  /\ Ends(g)
  /\ UNCHANGED <<up, nodesMap, mdbs, loop, watcher, etcd, dbList, node>>

\* handleMeta that compares the peers only.
handleMetaPeersOnly(n, P, D) ==
  \/ P = pool[n] /\ UNCHANGED <<pool, dbs>>
  \/ /\ P # pool[n]
     /\ pool' = [pool EXCEPT ![n] = P] /\ dbs' = [dbs EXCEPT ![n] = D]

-----------------------------------------------------------------------------
(***************************************************************************)
(* Nodes.                                                                  *)
(***************************************************************************)
\* Start: call Master.JoinNode ...
Start(n) ==
  /\ pc[n] = "down" /\ Count("starts")
  /\ pc' = [pc EXCEPT ![n] = "join"]
  /\ UNCHANGED <<master, etcd, dbList, pool, dbs>>

\* ... which fails if there is no master, and the node is gone ...
JoinFails(n) ==
  /\ pc[n] = "join" /\ ~up
  /\ pc' = [pc EXCEPT ![n] = "down"]
  /\ UNCHANGED <<master, etcd, dbList, pool, dbs, bounds>>

\* ... then listen.
Run(n) ==
  /\ pc[n] = "joined"
  /\ pc' = [pc EXCEPT ![n] = "up"]
  /\ UNCHANGED <<master, etcd, dbList, pool, dbs, bounds>>

Crash(n) ==
  /\ pc[n] \in {"joined", "up"} /\ Count("crashes")
  /\ pc' = [pc EXCEPT ![n] = "down"]
  /\ pool' = [pool EXCEPT ![n] = [kind |-> "http", of |-> {}]]
  /\ dbs' = [dbs EXCEPT ![n] = {}]
  /\ UNCHANGED <<master, etcd, dbList>>

\* Set the lists if one of them has changed.
handleMeta(n, P, D) ==
  \/ P = pool[n] /\ D = dbs[n] /\ UNCHANGED <<pool, dbs>>
  \/ /\ P # pool[n] \/ D # dbs[n]
     /\ pool' = [pool EXCEPT ![n] = P] /\ dbs' = [dbs EXCEPT ![n] = D]

(***************************************************************************)
(* The process of the master.                                              *)
(***************************************************************************)
\* It dies: killed, in the panic of a watch response without events, or because
\* the map was written while the heartbeat was reading it.
MasterCrash ==
  /\ up /\ Count("fails")
  /\ up' = FALSE
  /\ nodesMap' = {} /\ mdbs' = {}
  /\ hb' = "idle" /\ hbPeers' = {}
  /\ snd' = [g \in Slot |-> NoSender]
  /\ event' = FALSE /\ watch' = NoSender
  /\ pc' = [n \in Node |-> IF pc[n] = "put" THEN "down" ELSE pc[n]]
  /\ UNCHANGED <<etcd, dbList, pool, dbs>>

\* New reads the map from etcd.  (If that fails it panics, and is still down.)
New ==
  /\ ~up /\ up' = TRUE
  /\ nodesMap' = Saved /\ stale' = FALSE
  /\ UNCHANGED <<mdbs, loop, snd, watcher, nodes, dbList, node, bounds>>

(***************************************************************************)
(* JoinNode: with the lock, change the map, put it, reply.                 *)
(***************************************************************************)
JoinNode(n) ==
  /\ up /\ pc[n] = "join" /\ ~Locked
  /\ nodesMap' = nodesMap \cup {n}
  /\ pc' = [pc EXCEPT ![n] = "put"]
  /\ UNCHANGED <<up, mdbs, loop, snd, watcher, etcd, dbList, pool, dbs, bounds>>

\* The reply holds the HTTP addresses.  Without a reply the node is gone, and
\* stays in the map.
JoinPut(n) ==
  /\ pc[n] = "put"
  /\ updateNodesMap
  /\ \/ /\ ~stale'
        /\ pc' = [pc EXCEPT ![n] = "joined"]
        /\ pool' = [pool EXCEPT ![n] = [kind |-> "http", of |-> nodesMap]]
        /\ dbs' = [dbs EXCEPT ![n] = mdbs]
     \/ /\ stale'
        /\ pc' = [pc EXCEPT ![n] = "down"]
        /\ UNCHANGED <<pool, dbs>>
  /\ UNCHANGED <<up, nodesMap, mdbs, loop, snd, watch, dbList>>

(***************************************************************************)
(* heartbeat.  The lock covers only the assignment of the map, not what is *)
(* read of it: first the addresses of its nodes, ...                       *)
(***************************************************************************)
nodeAddrs ==
  /\ up /\ hb = "idle"
  /\ hb' = "addrs" /\ hbPeers' = nodesMap
  /\ UNCHANGED <<up, nodesMap, mdbs, snd, watcher, etcd, dbList, node, bounds>>

\* ... then the nodes to send them to, each from a goroutine.
httpAddrs ==
  LET slots == Injection(nodesMap, {g \in Slot : snd[g].pc = "none"}) IN
  /\ hb = "addrs" /\ slots # {}
  /\ LET to == CHOOSE f \in slots : TRUE IN
     snd' = [g \in Slot |->
               IF \E n \in nodesMap : to[n] = g
               THEN [pc |-> "sync", to |-> CHOOSE n \in nodesMap : to[n] = g,
                     peers |-> hbPeers, dbs |-> {}]
               ELSE snd[g]]
  /\ hb' = "idle" /\ hbPeers' = {}
  /\ UNCHANGED <<up, nodesMap, mdbs, watcher, etcd, dbList, node, bounds>>

(***************************************************************************)
(* sendPeers: syncDBs reads the list and stores it with the lock; the      *)
(* message is made of what is stored then.                                 *)
(***************************************************************************)
SyncFetch(g) ==
  /\ snd[g].pc = "sync"
  /\ \/ /\ snd' = [snd EXCEPT ![g].pc = "set", ![g].dbs = dbList]
        /\ UNCHANGED bounds
     \/ /\ Count("faults")
        /\ Goes(g, "remove")
  /\ UNCHANGED <<up, nodesMap, mdbs, loop, watcher, etcd, dbList, node>>

SyncSet(g) ==
  /\ snd[g].pc = "set" /\ ~Locked
  /\ mdbs' = snd[g].dbs
  /\ snd' = [snd EXCEPT ![g].pc = "marshal", ![g].dbs = {}]
  /\ UNCHANGED <<up, nodesMap, loop, watcher, etcd, dbList, node, bounds>>

Marshal(g) ==
  /\ snd[g].pc = "marshal"
  /\ snd' = [snd EXCEPT ![g].pc = "post", ![g].dbs = mdbs]
  /\ UNCHANGED <<up, nodesMap, mdbs, loop, watcher, etcd, dbList, node, bounds>>

\* The post is delivered; its answer may get lost.
Post(g) ==
  /\ snd[g].pc = "post" /\ pc[snd[g].to] = "up"
  /\ handleMeta(snd[g].to, [kind |-> "node", of |-> snd[g].peers], snd[g].dbs)
  /\ \/ Ends(g) /\ UNCHANGED bounds
     \/ Goes(g, "remove") /\ Count("faults")
  /\ UNCHANGED <<up, nodesMap, mdbs, loop, watcher, etcd, dbList, pc>>

\* The node does not listen, or the post gets lost.
PostFails(g) ==
  /\ snd[g].pc = "post"
  /\ (pc[snd[g].to] # "up" /\ UNCHANGED bounds) \/ Count("faults")
  /\ Goes(g, "remove")
  /\ UNCHANGED <<up, nodesMap, mdbs, loop, watcher, etcd, dbList, node>>

\* removeNode: with the lock, change the map ...
removeNode(g) ==
  /\ snd[g].pc = "remove" /\ ~Locked
  /\ \/ /\ snd[g].to \in nodesMap
        /\ nodesMap' = nodesMap \ {snd[g].to}
        /\ Goes(g, "put")
     \/ /\ snd[g].to \notin nodesMap
        /\ Ends(g)
        /\ UNCHANGED nodesMap
  /\ UNCHANGED <<up, mdbs, loop, watcher, etcd, dbList, node, bounds>>

\* ... and put it; an error is only logged.
removePut(g) ==
  /\ snd[g].pc = "put"
  /\ updateNodesMap
  /\ Ends(g)
  /\ UNCHANGED <<up, nodesMap, mdbs, loop, watch, dbList, node>>

(***************************************************************************)
(* WatchModify runs syncDBs, whose error nobody looks at.                  *)
(***************************************************************************)
WatchFetch ==
  /\ event /\ watch.pc = "none"
  /\ event' = FALSE
  /\ \/ watch' = [NoSender EXCEPT !.pc = "set", !.dbs = dbList] /\ UNCHANGED bounds
     \/ Count("faults") /\ UNCHANGED watch
  /\ UNCHANGED <<up, nodesMap, mdbs, loop, snd, etcd, dbList, node>>

WatchSet ==
  /\ watch.pc = "set" /\ ~Locked
  /\ mdbs' = watch.dbs /\ watch' = NoSender
  /\ UNCHANGED <<up, nodesMap, loop, snd, event, etcd, dbList, node, bounds>>

\* The list of databases changes (the db master).
ChangeDBs(D) ==
  /\ D # dbList /\ Count("changes")
  /\ dbList' = D
  /\ UNCHANGED <<master, etcd, node>>

-----------------------------------------------------------------------------
Send(g) ==
  \/ SyncFetch(g) \/ SyncSet(g) \/ Marshal(g) \/ Post(g) \/ PostFails(g)
  \/ removeNode(g) \/ removePut(g)

heartbeat == nodeAddrs \/ httpAddrs

Joining(n) == JoinFails(n) \/ JoinNode(n) \/ JoinPut(n) \/ Run(n)

Next ==
  \/ \E n \in Node : Start(n) \/ Crash(n) \/ Joining(n)
  \/ \E g \in Slot : Send(g)
  \/ MasterCrash \/ New \/ heartbeat \/ WatchFetch \/ WatchSet
  \/ \E D \in SUBSET DB : ChangeDBs(D)

Spec == Init /\ [][Next]_vars

(***************************************************************************)
(* Fairness: what has begun goes on, tickers tick, and a post is answered  *)
(* or fails.  Not assumed: that nodes or the master are started.           *)
(***************************************************************************)
Fairness ==
  /\ \A n \in Node : WF_vars(Joining(n))
  /\ \A g \in Slot : WF_vars(Send(g))
  /\ WF_vars(heartbeat) /\ WF_vars(WatchFetch) /\ WF_vars(WatchSet)

FairSpec == Spec /\ Fairness

-----------------------------------------------------------------------------
\* Memory and etcd are the same map, whenever nobody is changing it and the last
\* put did not fail: JoinNode and removeNode put under the lock they change it
\* under, and a new master takes over what is in etcd.
EtcdIsCurrent == up /\ ~Locked /\ ~stale => Saved = nodesMap

\* A node that stays down leaves the map (db/README.md, of the other master:
\* "remove any of them wich down"), and etcd with it unless the put failed:
\* late heartbeats and joins that were cut short do not keep it there.
DeadIsDropped ==
  \A n \in Node :
    <>[](up /\ pc[n] = "down") => <>[](n \notin nodesMap /\ (n \in Saved => stale))

\* A node that stays in the map ends up with its node addresses and with the
\* databases of now, and forgets the HTTP addresses of its join, although posts
\* overtake each other and one syncDBs may undo another.
PeersConverge ==
  \A n \in Node :
    <>[](up /\ pc[n] = "up" /\ n \in nodesMap)
      => <>[](pool[n] = [kind |-> "node", of |-> nodesMap] /\ dbs[n] = dbList)
=============================================================================
