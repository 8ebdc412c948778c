----------------------------- MODULE DBCluster -----------------------------
(***************************************************************************)
(* How the database cluster grows and how its list of peers is kept.       *)
(*                                                                         *)
(* Nodes: db/node/service/service.go (Start, tryToJoin, handleJoin,        *)
(* updatePeers, register) over db/node/store/store.go (Open, Join, Peers). *)
(* Master: db/master/master.go (heartbeat, removeNodes), one process that  *)
(* pings the listed nodes.  They share the list of peers and the           *)
(* raft-to-HTTP addresses, which are keys of etcd: every access is one Get *)
(* or one Put, and nothing makes a Get and the Put that follows it atomic. *)
(*                                                                         *)
(* A node stands for its HTTP and its raft address.  Of raft, membership   *)
(* and leadership are modelled, with more behaviours than it has: a leader *)
(* adds a peer to its own configuration when the request arrives, and      *)
(* commits it if a majority of the new configuration runs; the others      *)
(* learn what is committed; whoever has peers, a majority of which runs,   *)
(* may be elected.  Terms and the comparison of logs, which exclude some   *)
(* of this, are left out.                                                  *)
(***************************************************************************)
EXTENDS Naturals, FiniteSets

CONSTANTS Node,
          Nil,
          Staged,     \* TRUE: a node is started only when every other one that
                      \* was started has begun to serve
          MaxCrashes, \* bound on crashes of nodes
          MaxFaults   \* bound on etcd errors and on messages that the network loses

ASSUME DBClusterAssumption ==
  /\ Nil \notin Node
  /\ Staged \in BOOLEAN /\ MaxCrashes \in Nat /\ MaxFaults \in Nat

VARIABLES
  peers,      \* etcd, raftNodesKey: the list of peers; missing and [] are both {}
  registered, \* etcd: the nodes whose httpAddrKeyOfRaftAddr is set
  pc,         \* pc[n]: how far Start has come
  todo,       \* todo[n]: the peers tryToJoin has not asked yet
  asked,      \* asked[n]: the peer whose answer to its join request n awaits
  granted,    \* granted[n]: the configuration whose commit made that peer answer
              \* StatusOK, {} before; the answer has yet to arrive
  joins,      \* joins[p]: the AddPeer entries that are not yet committed at p
  single,     \* the nodes that run with EnableSingleNode
  booted,     \* history: the nodes that ever opened as a first node
  conf,       \* conf[n]: the peers file of n, which survives a crash
  leaders,    \* the nodes that are leaders to themselves
  dispatched, \* the configurations that leaders have put in a log
  upd,        \* the updatePeers goroutines, one for each node that joined
  hb,         \* the heartbeat of the master in progress
  rem,        \* the removeNodes goroutine of the master
  crashes, faults

startVars == <<pc, todo, single, booted>>
raftVars == <<asked, granted, joins, conf, leaders, dispatched>>
masterVars == <<hb, rem>>
etcdVars == <<peers, registered>>
vars == <<etcdVars, startVars, raftVars, upd, masterVars, crashes, faults>>

Running == {n \in Node : pc[n] \notin {"down", "registered"}}

Serving == {n \in Node : pc[n] = "serving"}

\* The configuration of n: its peers and itself.
Group(n) == conf[n] \cup {n}

\* As many nodes of T run raft as are a majority of S.
Quorum(T, S) == 2 * Cardinality(T \cap Running) > Cardinality(S)

\* An AddPeer entry: the new node, and the configuration with it.
Entry == [node : Node, peers : SUBSET Node]

\* An updatePeers goroutine: the node that runs it, the node whose join
\* started it, and the list it is about to put.
Job == [by : Node, node : Node, list : (SUBSET Node) \cup {Nil}]
IdleHeartbeat == [on |-> FALSE, todo |-> {}, dead |-> {}]
IdleRemoval == [dead |-> {}, cur |-> Nil]

TypeOK ==
  /\ peers \in SUBSET Node
  /\ registered \in SUBSET Node
  /\ pc \in [Node -> {"down", "registered", "first", "join", "ready", "serving"}]
  /\ todo \in [Node -> SUBSET Node]
  /\ asked \in [Node -> Node \cup {Nil}] /\ granted \in [Node -> SUBSET Node]
  /\ joins \in [Node -> SUBSET Entry]
  /\ single \in SUBSET Node /\ booted \in SUBSET Node
  /\ conf \in [Node -> SUBSET Node]
  /\ leaders \in SUBSET Node /\ dispatched \in SUBSET SUBSET Node
  /\ upd \in SUBSET Job
  /\ hb \in [on : BOOLEAN, todo : SUBSET Node, dead : SUBSET Node]
  /\ rem \in [dead : SUBSET Node, cur : (SUBSET Node) \cup {Nil}]
  /\ crashes \in Nat /\ faults \in Nat

Init ==
  /\ peers = {} /\ registered = {}
  /\ pc = [n \in Node |-> "down"]
  /\ todo = [n \in Node |-> {}]
  /\ asked = [n \in Node |-> Nil] /\ granted = [n \in Node |-> {}]
  /\ joins = [n \in Node |-> {}]
  /\ single = {} /\ booted = {}
  /\ conf = [n \in Node |-> {}]
  /\ leaders = {} /\ dispatched = {}
  /\ upd = {}
  /\ hb = IdleHeartbeat
  /\ rem = IdleRemoval
  /\ crashes = 0 /\ faults = 0

Fault == faults < MaxFaults /\ faults' = faults + 1

\* handleJoin of p has not answered x yet.
Awaits(x, p) == asked[x] = p /\ granted[x] = {}

\* log.DB.Fatal, or a crash: the process of n ends.  The goroutines it ran are
\* gone, and so is its own join request.  The requests it serves fail, but an
\* answer that it has given may already be on its way.
Exit(n) ==
  /\ pc' = [pc EXCEPT ![n] = "down"]
  /\ todo' = [todo EXCEPT ![n] = {}]
  /\ asked' = [x \in Node |-> IF x = n \/ Awaits(x, n) THEN Nil ELSE asked[x]]
  /\ granted' = [granted EXCEPT ![n] = {}]
  /\ joins' = [joins EXCEPT ![n] = {}]
  /\ single' = single \ {n}
  /\ leaders' = leaders \ {n}
  /\ upd' = {j \in upd : j.by # n}
  /\ UNCHANGED <<dispatched, booted>>

-----------------------------------------------------------------------------
(***************************************************************************)
(* Mutated forms of the actions below, with which the properties fail.     *)
(***************************************************************************)
\* A Start that does not register.
registerNot(n) ==
  /\ pc[n] = "down"
  /\ pc' = [pc EXCEPT ![n] = "registered"]
  /\ UNCHANGED <<etcdVars, todo, single, booted, raftVars, upd, masterVars, crashes, faults>>

\* store.Open(true) for a node that is going to join.
OpenSingle(n) ==
  /\ pc[n] = "registered"
  /\ single' = single \cup {n}
  /\ \/ /\ peers = {}
        /\ pc' = [pc EXCEPT ![n] = "first"]
        /\ booted' = booted \cup {n}
        /\ UNCHANGED todo
     \/ /\ peers # {}
        /\ pc' = [pc EXCEPT ![n] = "join"]
        /\ todo' = [todo EXCEPT ![n] = peers \ {n}]
        /\ UNCHANGED booted
  /\ UNCHANGED <<etcdVars, raftVars, upd, masterVars, crashes, faults>>

\* tryToJoin that takes any answer for success.
tryPeerAnyStatus(n, p) ==
  /\ pc[n] = "join" /\ asked[n] = Nil
  /\ p \in todo[n] /\ p \in Serving
  /\ todo' = [todo EXCEPT ![n] = {}]
  /\ pc' = [pc EXCEPT ![n] = "ready"]
  /\ UNCHANGED <<etcdVars, raftVars, single, booted, upd, masterVars, crashes, faults>>

\* removeNodes that appends to a list made with its full length, so that an
\* empty address stays in it.
removePutPadded ==
  /\ rem.cur # Nil
  /\ rem' = IdleRemoval
  /\ peers' = (rem.cur \ rem.dead) \cup {Nil}
  /\ UNCHANGED <<registered, startVars, raftVars, upd, hb, crashes, faults>>

\* removeNodes that does not put an empty list.
removePutNonempty ==
  /\ rem.cur # Nil
  /\ rem' = IdleRemoval
  /\ peers' = IF rem.cur \ rem.dead # {} THEN rem.cur \ rem.dead ELSE peers
  /\ UNCHANGED <<registered, startVars, raftVars, upd, hb, crashes, faults>>

(***************************************************************************)
(* Start.  An etcd error at any of its calls ends the process.             *)
(***************************************************************************)
\* register: the node's HTTP address becomes known before anything else.
register(n) ==
  /\ pc[n] = "down"
  /\ Staged => \A x \in Node \ {n} : pc[x] \in {"down", "serving"}
  /\ pc' = [pc EXCEPT ![n] = "registered"]
  /\ registered' = registered \cup {n}
  /\ UNCHANGED <<peers, todo, single, booted, raftVars, upd, masterVars, crashes, faults>>

\* master.Default.Peers and store.Open: with an empty list the node opens as a
\* first node, and raft may elect it alone if its peers file has at most one
\* entry; otherwise it opens as a follower and tries to join.
Open(n) ==
  /\ pc[n] = "registered"
  /\ \/ /\ peers = {}
        /\ pc' = [pc EXCEPT ![n] = "first"]
        /\ single' = IF Cardinality(conf[n]) <= 1 THEN single \cup {n} ELSE single
        /\ booted' = booted \cup {n}
        /\ UNCHANGED todo
     \/ /\ peers # {}
        /\ pc' = [pc EXCEPT ![n] = "join"]
        /\ todo' = [todo EXCEPT ![n] = peers \ {n}]
        /\ UNCHANGED <<single, booted>>
  /\ UNCHANGED <<etcdVars, raftVars, upd, masterVars, crashes, faults>>

\* Start of a first node: UpdatePeers([self]) replaces the list.
putFirst(n) ==
  /\ pc[n] = "first"
  /\ peers' = {n}
  /\ pc' = [pc EXCEPT ![n] = "ready"]
  /\ UNCHANGED <<registered, todo, single, booted, raftVars, upd, masterVars,
                 crashes, faults>>

\* An etcd call of Start fails: Fatal.  (A register that fails leaves all as it
\* was.)
StartFails(n) ==
  /\ pc[n] \in {"registered", "first"}
  /\ Fault
  /\ Exit(n)
  /\ UNCHANGED <<etcdVars, conf, masterVars, crashes>>

\* tryToJoin posts to the next peer p, and handleJoin serves it: nobody
\* listens; p is not a leader; raft already knows n (ErrKnownPeer); or AddPeer
\* changes the configuration of p at once and waits for the commit.  The order
\* of the list is left open.
tryPeer(n, p) ==
  /\ pc[n] = "join" /\ asked[n] = Nil
  /\ p \in todo[n]
  /\ todo' = [todo EXCEPT ![n] = @ \ {p}]
  /\ \/ /\ p \notin Serving \/ p \notin leaders \/ n \in conf[p]
        /\ UNCHANGED <<asked, joins, conf, dispatched>>
     \/ /\ p \in Serving /\ p \in leaders /\ n \notin conf[p]
        /\ asked' = [asked EXCEPT ![n] = p]
        /\ LET S == Group(p) \cup {n} IN
             /\ joins' = [joins EXCEPT ![p] = @ \cup {[node |-> n, peers |-> S]}]
             /\ conf' = [conf EXCEPT ![p] = S]
             /\ dispatched' = dispatched \cup {S}
  /\ UNCHANGED <<etcdVars, pc, single, booted, granted, leaders, upd, masterVars,
                 crashes, faults>>

\* The entry e commits at p, when as many as a majority of its configuration have
\* it, those added later included: p takes the configuration over (again, and
\* without the peers that are added since), and store.Join returns to handleJoin.
\* From here on it answers StatusOK if the node still waits, and leaves updatePeers
\* to a goroutine, whose first step is readPeers: p may step down or crash before
\* either.  The order of the entries is left open.
Join(p, e) ==
  /\ e \in joins[p] /\ Quorum(Group(p) \cup e.peers, e.peers)
  /\ joins' = [joins EXCEPT ![p] = @ \ {e}]
  /\ conf' = [conf EXCEPT ![p] = e.peers]
  /\ upd' = upd \cup {[by |-> p, node |-> e.node, list |-> Nil]}
  /\ granted' = [n \in Node |-> IF n = e.node /\ asked[n] = p THEN e.peers ELSE granted[n]]
  /\ UNCHANGED <<etcdVars, startVars, asked, leaders, dispatched, masterVars, crashes, faults>>

\* StatusOK arrives at n, and tryToJoin returns nil.
joinAnswered(n) ==
  /\ granted[n] # {}
  /\ pc' = [pc EXCEPT ![n] = "ready"]
  /\ todo' = [todo EXCEPT ![n] = {}]
  /\ asked' = [asked EXCEPT ![n] = Nil]
  /\ granted' = [granted EXCEPT ![n] = {}]
  /\ UNCHANGED <<etcdVars, single, booted, joins, conf, leaders, dispatched, upd, masterVars,
                 crashes, faults>>

\* The answer is lost, because the node that was asked died before it left, or on
\* the network: Post returns an error, and tryToJoin goes on to the next peer.
joinAnswerLost(n) ==
  /\ granted[n] # {}
  /\ \/ asked[n] \notin Running /\ UNCHANGED faults
     \/ Fault
  /\ asked' = [asked EXCEPT ![n] = Nil]
  /\ granted' = [granted EXCEPT ![n] = {}]
  /\ UNCHANGED <<etcdVars, startVars, joins, conf, leaders, dispatched, upd, masterVars, crashes>>

\* Every peer was asked in vain: "failed to join", and the node dies.
JoinGivesUp(n) ==
  /\ pc[n] = "join" /\ asked[n] = Nil /\ todo[n] = {}
  /\ Exit(n)
  /\ UNCHANGED <<etcdVars, conf, masterVars, crashes, faults>>

\* s.Run: only now does the HTTP server of n listen.
Run(n) ==
  /\ pc[n] = "ready"
  /\ pc' = [pc EXCEPT ![n] = "serving"]
  /\ UNCHANGED <<etcdVars, todo, single, booted, raftVars, upd, masterVars, crashes, faults>>

\* The peers file stays.  Raft writes it once for every entry it applies, and after
\* a restart it applies them all again: a crash in between leaves a configuration
\* of its log in the file.
Crash(n) ==
  /\ pc[n] # "down" /\ crashes < MaxCrashes
  /\ crashes' = crashes + 1
  /\ Exit(n)
  /\ \/ UNCHANGED conf
     \/ \E S \in dispatched : n \in Running \cap UNION dispatched /\ conf' = [conf EXCEPT ![n] = S]
  /\ UNCHANGED <<etcdVars, masterVars, faults>>

(***************************************************************************)
(* The goroutine that handleJoin leaves behind: updatePeers.               *)
(***************************************************************************)
\* What updatePeers puts: the peers raft knows, or the node alone.
ListOf(p) == IF conf[p] = {} THEN {p} ELSE conf[p]

\* store.Peers, and PeerHTTPAddr of each of them: a peer that never registered
\* ends it, so does an etcd error.
readPeers(j) ==
  /\ j \in upd /\ j.list = Nil
  /\ \/ /\ conf[j.by] \subseteq registered
        /\ upd' = (upd \ {j}) \cup {[j EXCEPT !.list = ListOf(j.by)]}
        /\ UNCHANGED faults
     \/ /\ ~(conf[j.by] \subseteq registered)
        /\ upd' = upd \ {j}
        /\ UNCHANGED faults
     \/ /\ Fault
        /\ upd' = upd \ {j}
  /\ UNCHANGED <<etcdVars, startVars, raftVars, masterVars, crashes>>

\* UpdatePeers: the list becomes what was read.
putPeers(j) ==
  /\ j \in upd /\ j.list # Nil
  /\ upd' = upd \ {j}
  /\ \/ peers' = j.list /\ UNCHANGED faults
     \/ Fault /\ UNCHANGED peers
  /\ UNCHANGED <<registered, startVars, raftVars, masterVars, crashes>>

(***************************************************************************)
(* Raft.                                                                   *)
(***************************************************************************)
\* A node that has peers, or runs in single mode, hears of no leader, or its
\* heartbeats come too late; it stands for election and wins it.  Instead of a
\* no-op it puts its own configuration in the log.
Elect(n) ==
  /\ n \in Running /\ n \notin leaders
  /\ n \in single \/ conf[n] \ {n} # {}
  /\ Quorum(Group(n), Group(n))
  /\ \/ (\A l \in leaders : n \notin Group(l)) /\ UNCHANGED faults
     \/ Fault
  /\ leaders' = leaders \cup {n}
  /\ dispatched' = dispatched \cup {Group(n)}
  /\ UNCHANGED <<etcdVars, startVars, asked, granted, joins, conf, upd, masterVars, crashes>>

\* A leader that hears of another one, which has it as a peer or is one of its
\* peers, or that does not reach its peers in time, steps down: the AddPeer futures
\* it holds fail (ErrLeadershipLost), and so do the join requests that wait for
\* them.  A request whose entry has committed does not.
StepDown(n) ==
  /\ n \in leaders
  /\ \/ /\ \/ \E l \in leaders \ {n} : n \in Group(l) \/ l \in Group(n)
           \/ ~Quorum(Group(n), Group(n))
        /\ UNCHANGED faults
     \/ Fault
  /\ leaders' = leaders \ {n}
  /\ joins' = [joins EXCEPT ![n] = {}]
  /\ asked' = [x \in Node |-> IF Awaits(x, n) THEN Nil ELSE asked[x]]
  /\ UNCHANGED <<etcdVars, startVars, granted, conf, dispatched, upd, masterVars, crashes>>

\* A follower applies the configuration that its leader has committed, or the
\* leader itself does: it falls back to it when an entry from before its latest
\* AddPeer commits, such as that of its election.
Replicate(l, n) ==
  /\ l \in leaders
  /\ n \in (Running \ leaders) \cup {l} /\ n \in Group(l)
  /\ conf' = [conf EXCEPT ![n] = Group(l) \ {e.node : e \in joins[l]}]
  /\ UNCHANGED <<etcdVars, startVars, asked, granted, joins, leaders, dispatched, upd, masterVars,
                 crashes, faults>>

(***************************************************************************)
(* The master.                                                             *)
(***************************************************************************)
\* A heartbeat with the peers T left to ping and D found dead; without any it is
\* over.
Round(T, D) ==
  IF T \cup D = {} THEN IdleHeartbeat ELSE [on |-> TRUE, todo |-> T, dead |-> D]

\* heartbeat, on a tick: fetch the list.  (An error ends it before it began.)
heartbeat ==
  /\ ~hb.on
  /\ hb' = Round(peers, {})
  /\ UNCHANGED <<etcdVars, startVars, raftVars, upd, rem, crashes, faults>>

\* One of its goroutines: a peer that does not listen, or whose answer is lost,
\* is to be removed.
ping(p) ==
  /\ p \in hb.todo
  /\ \/ /\ p \in Serving
        /\ hb' = Round(hb.todo \ {p}, hb.dead)
        /\ UNCHANGED faults
     \/ /\ p \notin Serving
        /\ hb' = Round(hb.todo \ {p}, hb.dead \cup {p})
        /\ UNCHANGED faults
     \/ /\ p \in Serving /\ Fault
        /\ hb' = Round(hb.todo \ {p}, hb.dead \cup {p})
  /\ UNCHANGED <<etcdVars, startVars, raftVars, upd, rem, crashes>>

\* wg.Wait is over and somebody is dead: removeNodes runs in a goroutine of its own.  One such
\* goroutine at a time is a bound of the model.
heartbeatEnds ==
  /\ hb.on /\ hb.todo = {}
  /\ rem = IdleRemoval
  /\ hb' = IdleHeartbeat
  /\ rem' = [rem EXCEPT !.dead = hb.dead]
  /\ UNCHANGED <<etcdVars, startVars, raftVars, upd, crashes, faults>>

\* removeNodes: fetch the list again; without one of the dead nodes on it there is
\* nothing to change ...
removeFetch ==
  /\ rem.dead # {} /\ rem.cur = Nil
  /\ \/ /\ peers \cap rem.dead # {}
        /\ rem' = [rem EXCEPT !.cur = peers]
        /\ UNCHANGED faults
     \/ /\ peers \cap rem.dead = {}
        /\ rem' = IdleRemoval
        /\ UNCHANGED faults
     \/ /\ Fault
        /\ rem' = IdleRemoval
  /\ UNCHANGED <<etcdVars, startVars, raftVars, upd, hb, crashes>>

\* ... and put what is left of it.
removePut ==
  /\ rem.cur # Nil
  /\ rem' = IdleRemoval
  /\ \/ peers' = rem.cur \ rem.dead /\ UNCHANGED faults
     \/ Fault /\ UNCHANGED peers
  /\ UNCHANGED <<registered, startVars, raftVars, upd, hb, crashes>>

-----------------------------------------------------------------------------
\* Start of n, once it has registered.
Start(n) ==
  \/ Open(n) \/ putFirst(n) \/ Run(n)
  \/ joinAnswered(n) \/ joinAnswerLost(n) \/ JoinGivesUp(n)
  \/ \E p \in Node : tryPeer(n, p)

StartStep(n) ==
  \/ register(n) \/ Start(n) \/ StartFails(n)
  \/ \E e \in joins[n] : Join(n, e)

UpdateStep == \E j \in upd : readPeers(j) \/ putPeers(j)

RaftStep(n) ==
  \/ Elect(n) \/ StepDown(n)
  \/ \E l \in Node : Replicate(l, n)

MasterStep ==
  \/ heartbeat \/ heartbeatEnds \/ removeFetch \/ removePut
  \/ \E p \in Node : ping(p)

Next ==
  \/ \E n \in Node : StartStep(n) \/ RaftStep(n) \/ Crash(n)
  \/ UpdateStep
  \/ MasterStep

Spec == Init /\ [][Next]_vars

(***************************************************************************)
(* Fairness: each thread that runs goes on (Start of a node, its           *)
(* updatePeers goroutines, the heartbeat and the removeNodes goroutine of  *)
(* the master), the ticker ticks, and an answer that was given arrives or  *)
(* is lost.  Nothing says that a node is started (register), that raft     *)
(* elects or commits, that anything crashes or that a fault happens.       *)
(***************************************************************************)
Fairness ==
  /\ \A n \in Node :
       /\ WF_vars(Start(n))
       /\ WF_vars(\E j \in upd : j.node = n /\ (readPeers(j) \/ putPeers(j)))
  /\ WF_vars(heartbeat \/ heartbeatEnds \/ \E p \in Node : ping(p))
  /\ WF_vars(removeFetch \/ removePut)

FairSpec == Spec /\ Fairness

-----------------------------------------------------------------------------
\* updatePeers finds the HTTP address of every peer raft knows of: the address
\* of a node is in etcd before raft can learn of the node (Start calls register
\* first), and no crash or failed join takes it away.
MembersAreRegistered == \A n \in Node : conf[n] \subseteq registered

\* A cluster booted by one node stays one cluster: as long as no other node has
\* found the list empty, every leader and every peers file has that node in its
\* group, so that no group lives apart from it (Start opens every other store
\* with enableSingle false).
OneBootOneGroup ==
  \A f \in Node : booted \subseteq {f} =>
    \A n \in Node : n \in leaders \/ conf[n] # {} => f \in Group(n)

\* When tryToJoin returns, the node it asked last has committed a configuration
\* with the new node and itself in it, one that leads back to a node which booted
\* the cluster: no refusal, lost leadership, crash of either or earlier request of
\* the same node makes it return without that, and none leads into a group apart.
\* (Whether that node still leads or runs by then is open.)
JoinedIsMember ==
  [][\A n \in Node : pc[n] = "join" /\ pc'[n] = "ready" =>
       /\ {n, asked[n]} \subseteq granted[n] /\ granted[n] \in dispatched
       /\ granted[n] \cap booted # {}]_vars

\* "remove any of them wich down" (db/README.md): a node that is down and stays
\* down is taken off the list, even if an update that still has it on its list
\* comes late.
DeadIsUnlisted ==
  \A n \in Node : <>[](pc[n] = "down") => <>[](n \notin peers)

\* Only the first node leads a cluster of its own (store.go, Open): there are
\* never two leaders whose groups have nobody in common.
OneGroup == \A a, b \in leaders : Group(a) \cap Group(b) # {}
=============================================================================
