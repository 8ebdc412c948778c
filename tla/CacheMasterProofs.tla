-------------------------- MODULE CacheMasterProofs --------------------------
(***************************************************************************)
(* Proofs about CacheMaster, for any number of nodes, databases and        *)
(* goroutines, and any budget of crashes and faults.                       *)
(***************************************************************************)
EXTENDS CacheMaster, TLAPS

\* Counting down a bound leaves a budget.
LEMMA CountType ==
  ASSUME bounds \in Budget,
         NEW k \in {"starts", "crashes", "fails", "faults", "changes"}, Count(k)
  PROVE  bounds' \in Budget
BY DEF Count, Budget

\* A slot without a goroutine.
LEMMA NoSenderType == NoSender \in Sender
BY DEF Sender, NoSender

\* A goroutine that goes on or ends is still a goroutine.
LEMMA SenderType ==
  ASSUME TypeOK, NEW g \in Slot
  PROVE  /\ Ends(g) => snd' \in [Slot -> Sender]
         /\ \A c \in {"remove", "put"} : Goes(g, c) => snd' \in [Slot -> Sender]
<1>1. ASSUME NEW c \in {"remove", "put"}
      PROVE  [NoSender EXCEPT !.pc = c, !.to = snd[g].to] \in Sender
  <2>1. snd[g].to \in Node \cup {Nil}
    BY DEF TypeOK, Sender
  <2> QED
    BY <2>1 DEF Sender, NoSender
<1> QED
  BY <1>1, NoSenderType DEF TypeOK, Goes, Ends

\* The other forms a goroutine takes on.
LEMMA SenderForms ==
  ASSUME TypeOK, NEW g \in Slot, NEW D \in SUBSET DB
  PROVE  /\ [snd EXCEPT ![g].pc = "set", ![g].dbs = D] \in [Slot -> Sender]
         /\ [snd EXCEPT ![g].pc = "marshal", ![g].dbs = D] \in [Slot -> Sender]
         /\ [snd EXCEPT ![g].pc = "post", ![g].dbs = D] \in [Slot -> Sender]
BY DEF TypeOK, Sender

\* A put keeps the types of what it changes.
LEMMA PutType ==
  ASSUME TypeOK, updateNodesMap
  PROVE  /\ nodes' \in (SUBSET Node) \cup {Nil}
         /\ stale' \in BOOLEAN /\ event' \in BOOLEAN
         /\ bounds' \in Budget
<1>1. CASE UNCHANGED bounds
  BY <1>1 DEF TypeOK, updateNodesMap
<1>2. CASE Count("faults")
  BY <1>2, CountType DEF TypeOK, updateNodesMap
<1> QED
  BY <1>1, <1>2 DEF updateNodesMap

\* Every step keeps the types.
LEMMA TypeStep == TypeOK /\ [Next]_vars => TypeOK'
<1> SUFFICES ASSUME TypeOK, [Next]_vars PROVE TypeOK'
  OBVIOUS
<1> USE DEF master, etcd, node, loop, watcher
<1>1. ASSUME NEW n \in Node, Start(n) PROVE TypeOK'
  BY <1>1, CountType DEF TypeOK, Start
<1>2. ASSUME NEW n \in Node, JoinFails(n) PROVE TypeOK'
  BY <1>2 DEF TypeOK, JoinFails
<1>3. ASSUME NEW n \in Node, Run(n) PROVE TypeOK'
  BY <1>3 DEF TypeOK, Run
<1>4. ASSUME NEW n \in Node, Crash(n) PROVE TypeOK'
  <2>1. bounds' \in Budget
    BY <1>4, CountType DEF TypeOK, Crash
  <2>2. [kind |-> "http", of |-> {}] \in Pool
    BY DEF Pool
  <2> QED
    BY <1>4, <2>1, <2>2 DEF TypeOK, Crash
<1>5. ASSUME NEW n \in Node, JoinNode(n) PROVE TypeOK'
  BY <1>5 DEF TypeOK, JoinNode
<1>6. ASSUME NEW n \in Node, JoinPut(n) PROVE TypeOK'
  <2>1. /\ nodes' \in (SUBSET Node) \cup {Nil} /\ stale' \in BOOLEAN /\ event' \in BOOLEAN
        /\ bounds' \in Budget
    BY <1>6, PutType DEF JoinPut
  <2>2. /\ pc' \in [Node -> {"down", "join", "put", "joined", "up"}]
        /\ pool' \in [Node -> Pool]
        /\ dbs' \in [Node -> SUBSET DB]
    <3>1. [kind |-> "http", of |-> nodesMap] \in Pool
      BY DEF TypeOK, Pool
    <3> QED
      BY <1>6, <3>1 DEF TypeOK, JoinPut
  <2> QED
    BY <1>6, <2>1, <2>2 DEF TypeOK, JoinPut
<1>7. ASSUME NEW g \in Slot, SyncFetch(g) PROVE TypeOK'
  <2>1. bounds' \in Budget
    BY <1>7, CountType DEF TypeOK, SyncFetch
  <2>2. snd' \in [Slot -> Sender]
    <3>1. CASE Goes(g, "remove")
      BY <3>1, SenderType
    <3>2. CASE snd' = [snd EXCEPT ![g].pc = "set", ![g].dbs = dbList]
      BY <3>2 DEF TypeOK, Sender
    <3> QED
      BY <1>7, <3>1, <3>2 DEF SyncFetch
  <2> QED
    BY <1>7, <2>1, <2>2 DEF TypeOK, SyncFetch
<1>8. ASSUME NEW g \in Slot, SyncSet(g) PROVE TypeOK'
  <2>1. snd' \in [Slot -> Sender] /\ mdbs' \subseteq DB
    BY <1>8, SenderForms DEF TypeOK, SyncSet, Sender
  <2> QED
    BY <1>8, <2>1 DEF TypeOK, SyncSet
<1>9. ASSUME NEW g \in Slot, Marshal(g) PROVE TypeOK'
  BY <1>9, SenderType, SenderForms DEF TypeOK, Marshal
<1>10. ASSUME NEW g \in Slot, Post(g) PROVE TypeOK'
  <2>1. bounds' \in Budget /\ snd' \in [Slot -> Sender]
    BY <1>10, CountType, SenderType DEF TypeOK, Post
  <2>2. snd[g].peers \in SUBSET Node /\ snd[g].dbs \in SUBSET DB
    BY DEF TypeOK, Sender
  <2>3. /\ pool' \in [Node -> Pool]
        /\ dbs' \in [Node -> SUBSET DB]
    <3>1. [kind |-> "node", of |-> snd[g].peers] \in Pool
      BY <2>2 DEF Pool
    <3> QED
      BY <1>10, <2>2, <3>1 DEF TypeOK, Post, handleMeta
  <2> QED
    BY <1>10, <2>1, <2>3 DEF TypeOK, Post
<1>11. ASSUME NEW g \in Slot, PostFails(g) PROVE TypeOK'
  BY <1>11, CountType, SenderType DEF TypeOK, PostFails
<1>12. ASSUME NEW g \in Slot, removeNode(g) PROVE TypeOK'
  BY <1>12, SenderType DEF TypeOK, removeNode
<1>13. ASSUME NEW g \in Slot, removePut(g) PROVE TypeOK'
  BY <1>13, PutType, SenderType DEF TypeOK, removePut
<1>14. ASSUME MasterCrash PROVE TypeOK'
  <2>1. bounds' \in Budget /\ snd' \in [Slot -> Sender] /\ watch' \in Sender
    BY <1>14, CountType, NoSenderType DEF TypeOK, MasterCrash
  <2> QED
    BY <1>14, <2>1 DEF TypeOK, MasterCrash
<1>15. ASSUME New PROVE TypeOK'
  BY <1>15 DEF TypeOK, New, Saved
<1>16. ASSUME nodeAddrs PROVE TypeOK'
  BY <1>16 DEF TypeOK, nodeAddrs
<1>17. ASSUME httpAddrs PROVE TypeOK'
  <2>1. ASSUME NEW g \in Slot PROVE snd'[g] \in Sender
    BY <1>17 DEF TypeOK, httpAddrs, Sender
  <2>2. snd' \in [Slot -> Sender]
    BY <1>17, <2>1 DEF httpAddrs
  <2> QED
    BY <1>17, <2>2 DEF TypeOK, httpAddrs
<1>18. ASSUME WatchFetch PROVE TypeOK'
  <2>1. bounds' \in Budget
    BY <1>18, CountType DEF TypeOK, WatchFetch
  <2>2. watch' \in Sender
    <3>1. CASE watch' = [NoSender EXCEPT !.pc = "set", !.dbs = dbList]
      BY <3>1 DEF TypeOK, Sender, NoSender
    <3> QED
      BY <1>18, <3>1 DEF TypeOK, WatchFetch
  <2> QED
    BY <1>18, <2>1, <2>2 DEF TypeOK, WatchFetch
<1>19. ASSUME WatchSet PROVE TypeOK'
  <2>1. watch' \in Sender /\ mdbs' \subseteq DB
    BY <1>19, NoSenderType DEF TypeOK, WatchSet, Sender
  <2> QED
    BY <1>19, <2>1 DEF TypeOK, WatchSet
<1>20. ASSUME NEW D \in SUBSET DB, ChangeDBs(D) PROVE TypeOK'
  BY <1>20, CountType DEF TypeOK, ChangeDBs
<1>21. CASE UNCHANGED vars
  BY <1>21 DEF vars, TypeOK
<1> QED
  BY <1>1, <1>2, <1>3, <1>4, <1>5, <1>6, <1>7, <1>8, <1>9, <1>10, <1>11, <1>12, <1>13, <1>14, <1>15, <1>16, <1>17, <1>18, <1>19, <1>20, <1>21 DEF Next, Joining, Send, heartbeat

\* Initially everything has its type.
LEMMA TypeInit == Init => TypeOK
<1> SUFFICES ASSUME Init PROVE TypeOK
  OBVIOUS
<1>1. [kind |-> "http", of |-> {}] \in Pool
  BY DEF Pool
<1>2. bounds \in Budget
  BY CacheMasterAssumption DEF Init
<1> QED
  BY <1>1, <1>2, NoSenderType DEF Init, TypeOK

\* Every variable of the master, of etcd and of the nodes has its type.
THEOREM TypeCorrect == Spec => []TypeOK
BY TypeInit, TypeStep, PTL DEF Spec

\* What a goroutine that goes on is afterwards; the others are left alone.
LEMMA GoesMoves ==
  ASSUME TypeOK, NEW g \in Slot, NEW c \in {"remove", "put"}, Goes(g, c)
  PROVE  snd'[g].pc = c /\ \A h \in Slot \ {g} : snd'[h] = snd[h]
<1>1. snd'[g] = [NoSender EXCEPT !.pc = c, !.to = snd[g].to]
  BY DEF TypeOK, Goes
<1>2. snd'[g].pc = c
  BY <1>1 DEF NoSender
<1> QED
  BY <1>2 DEF TypeOK, Goes

\* The same for one that ends.
LEMMA EndsMoves ==
  ASSUME TypeOK, NEW g \in Slot, Ends(g)
  PROVE  snd'[g].pc = "none" /\ \A h \in Slot \ {g} : snd'[h] = snd[h]
BY DEF TypeOK, Ends, NoSender

\* The goroutines a heartbeat starts run in slots that were free.
LEMMA httpAddrsSlots ==
  ASSUME TypeOK, httpAddrs, NEW g \in Slot
  PROVE  snd'[g] = snd[g] \/ (snd[g].pc = "none" /\ snd'[g].pc = "sync")
<1> DEFINE slots == Injection(nodesMap, {h \in Slot : snd[h].pc = "none"})
           to == CHOOSE f \in slots : TRUE
<1>1. to \in slots
  BY DEF httpAddrs
<1>2. \A n \in nodesMap : to[n] \in Slot /\ snd[to[n]].pc = "none"
  BY <1>1 DEF Injection
<1>3. snd'[g] = IF \E n \in nodesMap : to[n] = g
                THEN [pc |-> "sync", to |-> CHOOSE n \in nodesMap : to[n] = g,
                      peers |-> hbPeers, dbs |-> {}]
                ELSE snd[g]
  BY DEF httpAddrs
<1> HIDE DEF to
<1>4. CASE \E n \in nodesMap : to[n] = g
  BY <1>2, <1>3, <1>4
<1>5. CASE ~\E n \in nodesMap : to[n] = g
  BY <1>3, <1>5
<1> QED
  BY <1>4, <1>5

-----------------------------------------------------------------------------
(***************************************************************************)
(* The write lock.                                                         *)
(***************************************************************************)
\* At most one JoinNode or removeNode is between its change of the map and the
\* end of its put.
LockIsExclusive ==
  /\ \A n, p \in Node : pc[n] = "put" /\ pc[p] = "put" => n = p
  /\ \A g, h \in Slot : snd[g].pc = "put" /\ snd[h].pc = "put" => g = h
  /\ \A n \in Node, g \in Slot : ~(pc[n] = "put" /\ snd[g].pc = "put")

MapInv == TypeOK /\ LockIsExclusive /\ EtcdIsCurrent

\* A step that gives nobody the lock and takes it from nobody, and leaves the
\* map and etcd alone.
Aside ==
  /\ UNCHANGED <<up, nodesMap, nodes, stale>>
  /\ \A n \in Node : pc'[n] = "put" <=> pc[n] = "put"
  /\ \A g \in Slot : snd'[g].pc = "put" <=> snd[g].pc = "put"

\* Such a step keeps the invariant of the map.
LEMMA AsideKeeps ==
  ASSUME LockIsExclusive, EtcdIsCurrent, Aside
  PROVE  LockIsExclusive' /\ EtcdIsCurrent'
<1>1. LockIsExclusive'
  BY DEF LockIsExclusive, Aside
<1>2. Locked' <=> Locked
  BY DEF Locked, Aside
<1> QED
  BY <1>1, <1>2 DEF EtcdIsCurrent, Saved, Aside

\* The steps that neither take nor release the lock.
LEMMA AsideSteps ==
  ASSUME TypeOK
  PROVE  /\ \A n \in Node : Start(n) \/ JoinFails(n) \/ Run(n) \/ Crash(n) => Aside
         /\ \A g \in Slot : \/ SyncFetch(g) \/ SyncSet(g) \/ Marshal(g)
                           \/ Post(g) \/ PostFails(g) => Aside
         /\ nodeAddrs \/ httpAddrs \/ WatchFetch \/ WatchSet => Aside
         /\ \A D \in SUBSET DB : ChangeDBs(D) => Aside
<1> USE DEF master, etcd, node, loop, watcher
<1>1. ASSUME NEW n \in Node, Start(n) PROVE Aside
  BY <1>1 DEF TypeOK, Aside, Start
<1>2. ASSUME NEW n \in Node, JoinFails(n) PROVE Aside
  BY <1>2 DEF TypeOK, Aside, JoinFails
<1>3. ASSUME NEW n \in Node, Run(n) PROVE Aside
  BY <1>3 DEF TypeOK, Aside, Run
<1>4. ASSUME NEW n \in Node, Crash(n) PROVE Aside
  BY <1>4 DEF TypeOK, Aside, Crash
<1>5. ASSUME NEW g \in Slot, SyncFetch(g) PROVE Aside
  <2>1. CASE Goes(g, "remove")
    BY <1>5, <2>1, GoesMoves DEF Aside, SyncFetch
  <2>2. CASE snd' = [snd EXCEPT ![g].pc = "set", ![g].dbs = dbList]
    BY <1>5, <2>2 DEF TypeOK, Aside, SyncFetch, Sender
  <2> QED
    BY <1>5, <2>1, <2>2 DEF SyncFetch
<1>6. ASSUME NEW g \in Slot, SyncSet(g) PROVE Aside
  BY <1>6 DEF TypeOK, Aside, SyncSet
<1>7. ASSUME NEW g \in Slot, Marshal(g) PROVE Aside
  BY <1>7 DEF TypeOK, Aside, Marshal
<1>8. ASSUME NEW g \in Slot, Post(g) PROVE Aside
  <2>1. CASE Ends(g)
    BY <1>8, <2>1, EndsMoves DEF Aside, Post
  <2>2. CASE Goes(g, "remove")
    BY <1>8, <2>2, GoesMoves DEF Aside, Post
  <2> QED
    BY <1>8, <2>1, <2>2 DEF Post
<1>9. ASSUME NEW g \in Slot, PostFails(g) PROVE Aside
  BY <1>9, GoesMoves DEF Aside, PostFails
<1>10. ASSUME nodeAddrs PROVE Aside
  BY <1>10 DEF TypeOK, Aside, nodeAddrs
<1>11. ASSUME httpAddrs PROVE Aside
  BY <1>11, httpAddrsSlots DEF Aside, httpAddrs
<1>12. ASSUME WatchFetch PROVE Aside
  BY <1>12 DEF TypeOK, Aside, WatchFetch
<1>13. ASSUME WatchSet PROVE Aside
  BY <1>13 DEF TypeOK, Aside, WatchSet
<1>14. ASSUME NEW D \in SUBSET DB, ChangeDBs(D) PROVE Aside
  BY <1>14 DEF TypeOK, Aside, ChangeDBs
<1> QED
  BY <1>1, <1>2, <1>3, <1>4, <1>5, <1>6, <1>7, <1>8, <1>9, <1>10, <1>11, <1>12, <1>13, <1>14

\* The lock stays exclusive, and etcd current.
LEMMA MapStep == MapInv /\ [Next]_vars => MapInv'
<1> SUFFICES ASSUME MapInv, [Next]_vars PROVE MapInv'
  OBVIOUS
<1>t. TypeOK /\ TypeOK' /\ LockIsExclusive /\ EtcdIsCurrent
  BY TypeStep DEF MapInv
<1> SUFFICES LockIsExclusive' /\ EtcdIsCurrent'
  BY <1>t DEF MapInv
<1> USE DEF master, etcd, node, loop, watcher
\* JoinNode takes the lock, ...
<1>1. ASSUME NEW n \in Node, JoinNode(n) PROVE LockIsExclusive' /\ EtcdIsCurrent'
  <2>1. LockIsExclusive'
    BY <1>t, <1>1 DEF TypeOK, LockIsExclusive, JoinNode, Locked
  <2>2. Locked'
    BY <1>t, <1>1 DEF TypeOK, JoinNode, Locked
  <2> QED
    BY <2>1, <2>2 DEF EtcdIsCurrent
\* ... and so does a removeNode that finds its node, ...
<1>2. ASSUME NEW g \in Slot, removeNode(g) PROVE LockIsExclusive' /\ EtcdIsCurrent'
  <2>1. CASE Goes(g, "put")
    <3>1. snd'[g].pc = "put" /\ \A h \in Slot \ {g} : snd'[h] = snd[h]
      BY <1>t, <2>1, GoesMoves
    <3>2. LockIsExclusive'
      BY <1>2, <3>1 DEF LockIsExclusive, removeNode, Locked
    <3>3. Locked'
      BY <3>1 DEF Locked
    <3> QED
      BY <3>2, <3>3 DEF EtcdIsCurrent
  <2>2. CASE Ends(g)
    <3>1. snd'[g].pc = "none" /\ \A h \in Slot \ {g} : snd'[h] = snd[h]
      BY <1>t, <2>2, EndsMoves
    <3>2. CASE UNCHANGED nodesMap
      BY <1>t, <1>2, <3>1, <3>2, AsideKeeps DEF Aside, removeNode
    <3> QED
      BY <1>2, <3>1, <3>2, <2>1 DEF removeNode
  <2> QED
    BY <1>2, <2>1, <2>2 DEF removeNode
\* ... and both release it after their put.
<1>3. ASSUME NEW n \in Node, JoinPut(n) PROVE LockIsExclusive' /\ EtcdIsCurrent'
  <2>1. LockIsExclusive'
    BY <1>t, <1>3 DEF TypeOK, LockIsExclusive, JoinPut
  <2>2. stale' \/ nodes' = nodesMap'
    BY <1>3 DEF JoinPut, updateNodesMap
  <2>3. nodesMap' \subseteq Node
    BY <1>t DEF TypeOK
  <2> QED
    BY <2>1, <2>2, <2>3, CacheMasterAssumption DEF EtcdIsCurrent, Saved
<1>4. ASSUME NEW g \in Slot, removePut(g) PROVE LockIsExclusive' /\ EtcdIsCurrent'
  <2>1. LockIsExclusive'
    BY <1>t, <1>4, EndsMoves DEF LockIsExclusive, removePut
  <2>2. stale' \/ nodes' = nodesMap'
    BY <1>4 DEF removePut, updateNodesMap
  <2>3. nodesMap' \subseteq Node
    BY <1>t DEF TypeOK
  <2> QED
    BY <2>1, <2>2, <2>3, CacheMasterAssumption DEF EtcdIsCurrent, Saved
\* A master that dies loses the map, a new one takes it from etcd.
<1>5. ASSUME MasterCrash PROVE LockIsExclusive' /\ EtcdIsCurrent'
  <2>1. LockIsExclusive'
    BY <1>t, <1>5 DEF LockIsExclusive, MasterCrash, NoSender
  <2> QED
    BY <1>5, <2>1 DEF EtcdIsCurrent, MasterCrash
<1>6. ASSUME New PROVE LockIsExclusive' /\ EtcdIsCurrent'
  BY <1>t, <1>6 DEF LockIsExclusive, EtcdIsCurrent, Saved, New
<1>7. ASSUME Aside PROVE LockIsExclusive' /\ EtcdIsCurrent'
  BY <1>t, <1>7, AsideKeeps
<1>8. CASE UNCHANGED vars
  BY <1>t, <1>8, AsideKeeps DEF Aside, vars
<1> QED
  BY <1>t, <1>1, <1>2, <1>3, <1>4, <1>5, <1>6, <1>7, <1>8, AsideSteps
     DEF Next, Joining, Send, heartbeat

\* Initially nobody has the lock, and no map in etcd is an empty one.
LEMMA MapInit == Init => MapInv
<1> SUFFICES ASSUME Init PROVE MapInv
  OBVIOUS
<1>1. LockIsExclusive /\ EtcdIsCurrent
  BY DEF Init, LockIsExclusive, EtcdIsCurrent, Saved, NoSender
<1> QED
  BY <1>1, TypeInit DEF MapInv

\* The map that a master has in memory and the one in etcd are the same whenever
\* nobody is changing it and the last put did not fail, whatever joins, late
\* removals, overlapping heartbeats and restarts there were.
THEOREM EtcdFollowsMemory == Spec => []EtcdIsCurrent
<1>1. Spec => []MapInv
  BY MapInit, MapStep, PTL DEF Spec
<1>2. MapInv => EtcdIsCurrent
  BY DEF MapInv
<1> QED
  BY <1>1, <1>2, PTL

\* JoinNode and removeNode exclude each other from the change of the map to the
\* end of its put: a put never writes a map that another one is changing.
THEOREM PutsAreExclusive == Spec => []LockIsExclusive
<1>1. Spec => []MapInv
  BY MapInit, MapStep, PTL DEF Spec
<1>2. MapInv => LockIsExclusive
  BY DEF MapInv
<1> QED
  BY <1>1, <1>2, PTL

-----------------------------------------------------------------------------
(***************************************************************************)
(* Lists that name their recipient.  A circle of loads (CacheNode) needs a *)
(* node whose list of node addresses leaves it out.  The only way to such  *)
(* a list is a join between the two reads of a heartbeat.                  *)
(***************************************************************************)
\* Nobody has joined since the heartbeat read the addresses.
NoJoinBetweenReads == hb = "addrs" => nodesMap \subseteq hbPeers

\* Of the node addresses a node has, one is its own.
PoolsNameSelf == \A n \in Node : pool[n].kind = "http" \/ n \in pool[n].of

\* A goroutine that is going to post names the node it posts to.
SendersNameTheirs ==
  \A g \in Slot : snd[g].pc \in {"sync", "set", "marshal", "post"} => snd[g].to \in snd[g].peers

SelfInv == TypeOK /\ SendersNameTheirs /\ PoolsNameSelf

\* Initially nobody posts, and no node has node addresses.
LEMMA SelfInit == Init => SelfInv
<1> SUFFICES ASSUME Init PROVE SelfInv
  OBVIOUS
<1>1. SendersNameTheirs /\ PoolsNameSelf
  BY DEF Init, SendersNameTheirs, PoolsNameSelf, NoSender
<1> QED
  BY <1>1, TypeInit DEF SelfInv

\* A step in which no goroutine starts or changes its node and addresses, and
\* nobody is posted to.
LEMMA SelfFrame ==
  ASSUME SelfInv, TypeOK', UNCHANGED pool,
         \A g \in Slot : \/ snd'[g].pc \in {"none", "remove", "put"}
                         \/ /\ snd[g].pc \in {"sync", "set", "marshal", "post"}
                            /\ snd'[g].to = snd[g].to /\ snd'[g].peers = snd[g].peers
                         \/ snd'[g] = snd[g]
  PROVE  SelfInv'
BY DEF SelfInv, SendersNameTheirs, PoolsNameSelf

\* The steps of a goroutine: a node is posted the addresses that name it.
LEMMA SelfSend ==
  ASSUME SelfInv, TypeOK', NEW g \in Slot, Send(g)
  PROVE  SelfInv'
<1> USE DEF node
<1>t. TypeOK /\ snd \in [Slot -> Sender]
  BY DEF SelfInv, TypeOK
<1>e. ASSUME Ends(g) \/ Goes(g, "remove") \/ Goes(g, "put")
      PROVE  /\ snd'[g].pc \in {"none", "remove", "put"}
             /\ \A h \in Slot \ {g} : snd'[h] = snd[h]
  BY <1>t, <1>e, EndsMoves, GoesMoves
<1>f. ASSUME UNCHANGED pool, snd[g].pc \in {"sync", "set", "marshal"},
             NEW c \in {"set", "marshal", "post"}, NEW D,
             snd' = [snd EXCEPT ![g].pc = c, ![g].dbs = D]
      PROVE  SelfInv'
  <2>1. snd'[g].to = snd[g].to /\ snd'[g].peers = snd[g].peers
    BY <1>t, <1>f DEF Sender
  <2>2. \A h \in Slot \ {g} : snd'[h] = snd[h]
    BY <1>t, <1>f
  <2> QED
    BY <1>f, <2>1, <2>2, SelfFrame
<1>1. CASE SyncFetch(g)
  <2>1. CASE Goes(g, "remove")
    BY <1>1, <1>e, <2>1, SelfFrame DEF SyncFetch
  <2>2. CASE snd' = [snd EXCEPT ![g].pc = "set", ![g].dbs = dbList]
    BY <1>1, <1>f, <2>2 DEF SyncFetch
  <2> QED
    BY <1>1, <2>1, <2>2 DEF SyncFetch
<1>2. CASE SyncSet(g)
  BY <1>2, <1>f DEF SyncSet
<1>3. CASE Marshal(g)
  BY <1>3, <1>f DEF Marshal
<1>4. CASE Post(g)
  <2> DEFINE n == snd[g].to
             P == [kind |-> "node", of |-> snd[g].peers]
  <2>1. n \in P.of
    BY <1>4 DEF Post, SelfInv, SendersNameTheirs
  <2>2. pool' = pool \/ pool' = [pool EXCEPT ![n] = P]
    BY <1>4 DEF Post, handleMeta
  <2> HIDE DEF n, P
  <2>3. PoolsNameSelf'
    BY <1>t, <2>1, <2>2 DEF SelfInv, PoolsNameSelf, TypeOK
  <2>4. SendersNameTheirs'
    BY <1>4, <1>e DEF Post, SelfInv, SendersNameTheirs
  <2> QED
    BY <2>3, <2>4 DEF SelfInv
<1>5. CASE PostFails(g)
  BY <1>5, <1>e, SelfFrame DEF PostFails
<1>6. CASE removeNode(g)
  BY <1>6, <1>e, SelfFrame DEF removeNode
<1>7. CASE removePut(g)
  BY <1>7, <1>e, SelfFrame DEF removePut
<1> QED
  BY <1>1, <1>2, <1>3, <1>4, <1>5, <1>6, <1>7 DEF Send

\* The second read of a heartbeat: with no join in between, all the nodes it finds
\* are among the addresses.
LEMMA SelfHeartbeat ==
  ASSUME SelfInv, TypeOK', NoJoinBetweenReads, httpAddrs
  PROVE  SelfInv'
<1> DEFINE to == CHOOSE f \in Injection(nodesMap, {h \in Slot : snd[h].pc = "none"}) : TRUE
<1>1. nodesMap \subseteq hbPeers /\ UNCHANGED pool
  BY DEF NoJoinBetweenReads, httpAddrs, node
<1>2. ASSUME NEW g \in Slot PROVE snd'[g] = snd[g] \/ snd'[g].to \in snd'[g].peers
  <2>1. snd'[g] = IF \E n \in nodesMap : to[n] = g
                  THEN [pc |-> "sync", to |-> CHOOSE n \in nodesMap : to[n] = g,
                        peers |-> hbPeers, dbs |-> {}]
                  ELSE snd[g]
    BY DEF httpAddrs
  <2> HIDE DEF to
  <2>2. ASSUME \E n \in nodesMap : to[n] = g
        PROVE  (CHOOSE n \in nodesMap : to[n] = g) \in nodesMap
    BY <2>2
  <2> QED
    BY <1>1, <2>1, <2>2
<1>3. SendersNameTheirs'
  BY <1>2 DEF SelfInv, SendersNameTheirs
<1> QED
  BY <1>1, <1>3 DEF SelfInv, PoolsNameSelf

\* Every step keeps the invariant, if no join comes between the reads.
LEMMA SelfStep == SelfInv /\ NoJoinBetweenReads /\ [Next]_vars => SelfInv'
<1> SUFFICES ASSUME SelfInv, NoJoinBetweenReads, [Next]_vars PROVE SelfInv'
  OBVIOUS
<1>t. TypeOK /\ TypeOK'
  BY TypeStep DEF SelfInv
<1> USE DEF master, etcd, node, loop, watcher
<1>1. ASSUME NEW n \in Node, Start(n) \/ JoinFails(n) \/ JoinNode(n) \/ Run(n) PROVE SelfInv'
  BY <1>1, <1>t, SelfFrame DEF Start, JoinFails, JoinNode, Run
<1>2. ASSUME NEW n \in Node, Crash(n) \/ JoinPut(n) PROVE SelfInv'
  <2>1. UNCHANGED snd
    BY <1>2 DEF Crash, JoinPut
  <2>2. \A p \in Node : pool'[p] = pool[p] \/ pool'[p].kind = "http"
    BY <1>2, <1>t DEF Crash, JoinPut, TypeOK
  <2> QED
    BY <1>t, <2>1, <2>2 DEF SelfInv, SendersNameTheirs, PoolsNameSelf
<1>3. ASSUME NEW g \in Slot, Send(g) PROVE SelfInv'
  BY <1>3, <1>t, SelfSend
<1>4. CASE MasterCrash
  <2>1. \A g \in Slot : snd'[g].pc = "none"
    BY <1>4 DEF MasterCrash, NoSender
  <2> QED
    BY <1>4, <1>t, <2>1, SelfFrame DEF MasterCrash
<1>5. CASE New \/ nodeAddrs \/ WatchFetch \/ WatchSet
  BY <1>5, <1>t, SelfFrame DEF New, nodeAddrs, WatchFetch, WatchSet
<1>6. CASE httpAddrs
  BY <1>6, <1>t, SelfHeartbeat
<1>7. ASSUME NEW D \in SUBSET DB, ChangeDBs(D) PROVE SelfInv'
  BY <1>7, <1>t, SelfFrame DEF ChangeDBs
<1>8. CASE UNCHANGED vars
  BY <1>8, <1>t, SelfFrame DEF vars
<1> QED
  BY <1>1, <1>2, <1>3, <1>4, <1>5, <1>6, <1>7, <1>8 DEF Next, Joining, heartbeat

\* In a run of the master in which no join comes between the two reads of a
\* heartbeat, every node is only ever told lists that name the node itself,
\* whatever posts overtake each other and whatever crashes: the unlocked reads are
\* the only way to the circles of loads that CacheNode excludes for such lists.
THEOREM ListsNameRecipient == Spec /\ []NoJoinBetweenReads => []PoolsNameSelf
<1>1. SelfInv => PoolsNameSelf
  BY DEF SelfInv
<1> QED
  BY <1>1, SelfInit, SelfStep, PTL DEF Spec
=============================================================================
