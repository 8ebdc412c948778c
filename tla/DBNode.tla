------------------------------- MODULE DBNode -------------------------------
(***************************************************************************)
(* The database nodes of oncekv: the raft-backed store of                  *)
(* db/node/store/store.go (its map m, the finite state machine raft drives,*)
(* snapshots, restart) and the HTTP key handlers of                        *)
(* db/node/service/service.go that read and write through it.              *)
(*                                                                         *)
(* hashicorp/raft is modelled by what store.go relies on.  `log' is the    *)
(* sequence of committed commands; every node applies a prefix of it.  A   *)
(* node that leads in an old term keeps believing so until it steps down.  *)
(* A proposed command is in flight until a leader commits it, which may    *)
(* happen after its proposer lost the leadership and answered an error, or *)
(* never.  A command in flight stays committable for ever: this allows     *)
(* more than raft does, which truncates it once a conflicting entry is     *)
(* committed.  The cluster's membership is fixed here; DBCluster.tla is    *)
(* about how it grows.                                                     *)
(***************************************************************************)
EXTENDS Integers, Sequences, FiniteSets

CONSTANTS Node,         \* the database nodes
          Key, Value,
          EmptyValue,   \* the value "", which a client may set like any other
          Nil,          \* no value, no node, no key, no snapshot
          Req,          \* the requests clients send
          Ops,          \* the writes the store is used for: the HTTP service only adds
          MaxTerm,      \* bound on elections
          MaxCrashes    \* bound on crashes

ASSUME DBNodeAssumption ==
  /\ EmptyValue \in Value
  /\ Nil \notin Value \cup Node \cup Key
  /\ Ops \subseteq {"add", "set", "delete"}
  /\ MaxTerm \in Nat /\ MaxCrashes \in Nat

VARIABLES
  log,       \* the committed commands, in order
  states,    \* history: states[i + 1] is the map the first i commands produce
  term,      \* the latest term in which a leader was elected
  leadTerm,  \* leadTerm[n]: the term n believes it leads in, 0 when it does not
  up,        \* the nodes that are running
  m,         \* m[n]: Store.m, the key/value map of node n
  applied,   \* applied[n]: how many commands the state machine of n has applied
  pend,      \* pend[n]: the fsmSnapshot n has taken and not yet persisted
  snap,      \* snap[n]: the newest snapshot in the snapshot store of n
  req,       \* req[r]: the handler that serves request r
  inflight,  \* the requests whose command is in some raft log, uncommitted
  crashes    \* number of crashes so far

raftVars == <<log, states, term, inflight>>
vars == <<log, states, term, leadTerm, up, m, applied, pend, snap, req,
          inflight, crashes>>

-----------------------------------------------------------------------------
(***************************************************************************)
(* Types.                                                                  *)
(***************************************************************************)
Map == [Key -> Value \cup {Nil}]

\* A command of store.go, with the term that committed it and its request.
Command == [op : Ops, key : Key, val : Value, term : Nat, req : Req]

Snapshot == [idx : Nat, map : Map]

Reply == {"none", "OK", "Found", "NotFound", "NotLeader", "ParamsError",
          "InternalError", "Broken"}

\* A handler: what it serves and where it stands.  `val' is the value to write,
\* or the value a read answered.
Handler == [pc : {"idle", "add", "wait", "read", "done"},
            op : Ops \cup {"none", "get"},
            node : Node \cup {Nil},
            key : Key \cup {Nil},
            val : Value \cup {Nil},
            reply : Reply]

EmptyMap == [k \in Key |-> Nil]

\* New: a store without a snapshot starts from an empty map.
NoSnapshot == [idx |-> 0, map |-> EmptyMap]

IdleHandler == [pc |-> "idle", op |-> "none", node |-> Nil, key |-> Nil,
                val |-> Nil, reply |-> "none"]

TypeOK ==
  /\ log \in Seq(Command)
  /\ states \in Seq(Map)
  /\ term \in Nat
  /\ leadTerm \in [Node -> Nat]
  /\ up \in SUBSET Node
  /\ m \in [Node -> Map]
  /\ applied \in [Node -> Nat]
  /\ pend \in [Node -> Snapshot \cup {Nil}]
  /\ snap \in [Node -> Snapshot]
  /\ req \in [Req -> Handler]
  /\ inflight \in SUBSET Req
  /\ crashes \in Nat

-----------------------------------------------------------------------------
(***************************************************************************)
(* The state machine.                                                      *)
(***************************************************************************)
\* fsm.applySet
applySet(mp, k, v) == [mp EXCEPT ![k] = v]

\* Mutated form of applyAdd: no check for the key.
applyAddUnchecked(mp, k, v) == [mp EXCEPT ![k] = v]

\* fsm.applyAdd: a key that is in the map keeps its value.  The "key
\* duplicated" error it returns is the response of the raft future, which
\* Store.Add never looks at.
applyAdd(mp, k, v) == IF mp[k] # Nil THEN mp ELSE [mp EXCEPT ![k] = v]

\* fsm.applyDelete
applyDelete(mp, k) == [mp EXCEPT ![k] = Nil]

\* fsm.Apply: dispatch on the operation of the command.
Effect(c, mp) ==
  CASE c.op = "add"    -> applyAdd(mp, c.key, c.val)
    [] c.op = "set"    -> applySet(mp, c.key, c.val)
    [] c.op = "delete" -> applyDelete(mp, c.key)

\* The map the whole committed log produces.
Committed == states[Len(states)]

HasQuorum == 2 * Cardinality(up) > Cardinality(Node)

\* Leader() = raftAddr, and State() = Leader: what node n itself believes.
Leads(n) == leadTerm[n] # 0

\* The leader of the latest term, if it still leads.
CurrentLeader(n) == Leads(n) /\ leadTerm[n] = term

Waiting(n) == {r \in Req : req[r].pc = "wait" /\ req[r].node = n}

\* A handler that starts to serve a request at node n.
Begin(op, n, k, v) ==
  [IdleHandler EXCEPT !.op = op, !.node = n, !.key = k, !.val = v]

\* The handler h answers and ends.
Answered(h, reply) == [h EXCEPT !.pc = "done", !.node = Nil, !.reply = reply]

Answer(r, reply) == [req EXCEPT ![r] = Answered(req[r], reply)]

\* The command of request r, committed now.
CommandOf(r) == [op |-> req[r].op, key |-> req[r].key, val |-> req[r].val,
                 term |-> term, req |-> r]

\* Store.Get: what the node that serves r holds for its key.
Local(r) == m[req[r].node][req[r].key]

-----------------------------------------------------------------------------
Init ==
  /\ log = << >>
  /\ states = <<EmptyMap>>
  /\ term = 0
  /\ leadTerm = [n \in Node |-> 0]
  /\ up = Node
  /\ m = [n \in Node |-> EmptyMap]
  /\ applied = [n \in Node |-> 0]
  /\ pend = [n \in Node |-> Nil]
  /\ snap = [n \in Node |-> NoSnapshot]
  /\ req = [r \in Req |-> IdleHandler]
  /\ inflight = {}
  /\ crashes = 0

(***************************************************************************)
(* Mutated forms of the actions below, with which the properties fail.     *)
(***************************************************************************)
\* Store.Add that answers before the raft future does.
proposeAnswersAtOnce(r) ==
  /\ req[r].pc = "add"
  /\ Leads(req[r].node)
  /\ inflight' = inflight \cup {r}
  /\ req' = Answer(r, "OK")
  /\ UNCHANGED <<log, states, term, leadTerm, up, m, applied, pend, snap, crashes>>

\* Stepping down without cancelling the futures.
StepDownSilently(n) ==
  /\ Leads(n)
  /\ leadTerm' = [leadTerm EXCEPT ![n] = 0]
  /\ UNCHANGED <<raftVars, req, up, m, applied, pend, snap, crashes>>

\* fsm.Snapshot that returns the map itself in place of a clone, so that Persist
\* writes what the map has become.
PersistUncloned(n) ==
  /\ pend[n] # Nil
  /\ snap' = [snap EXCEPT ![n] = [pend[n] EXCEPT !.map = m[n]]]
  /\ pend' = [pend EXCEPT ![n] = Nil]
  /\ UNCHANGED <<raftVars, leadTerm, up, m, applied, req, crashes>>

\* A restart that restores the map and replays the log from its start.
OpenReplaysAll(n) ==
  /\ n \notin up
  /\ up' = up \cup {n}
  /\ m' = [m EXCEPT ![n] = snap[n].map]
  /\ applied' = [applied EXCEPT ![n] = 0]
  /\ UNCHANGED <<raftVars, leadTerm, pend, snap, req, crashes>>

\* A restart that takes the snapshot that was being written.
OpenFromPending(n) ==
  /\ n \notin up
  /\ up' = up \cup {n}
  /\ m' = [m EXCEPT ![n] = pend[n]]
  /\ applied' = [applied EXCEPT ![n] = snap[n].idx]
  /\ UNCHANGED <<raftVars, leadTerm, pend, snap, req, crashes>>

(***************************************************************************)
(* The HTTP handlers.                                                      *)
(***************************************************************************)
\* handleSet up to the call of store.Add: the leader check, and the JSON body
\* that may not bind.  Direct users of the store call Set and Delete the same
\* way.
handleSet(r, n, op, k, v) ==
  /\ req[r].pc = "idle" /\ n \in up
  /\ \/ /\ ~Leads(n)
        /\ req' = [req EXCEPT ![r] = Answered(Begin(op, n, k, v), "NotLeader")]
     \/ /\ Leads(n)
        /\ req' = [req EXCEPT ![r] = Answered(Begin(op, n, k, v), "ParamsError")]
     \/ /\ Leads(n)
        /\ req' = [req EXCEPT ![r] = [Begin(op, n, k, v) EXCEPT !.pc = "add"]]
  /\ UNCHANGED <<raftVars, leadTerm, up, m, applied, pend, snap, crashes>>

\* Store.Add, Set and Delete: the State() check, then raft.Apply, which hands
\* the command to the leader loop or gives up (enqueue timeout, or the node
\* stopped leading meanwhile).
propose(r) ==
  /\ req[r].pc = "add"
  /\ \/ /\ Leads(req[r].node)
        /\ inflight' = inflight \cup {r}
        /\ req' = [req EXCEPT ![r].pc = "wait"]
     \/ /\ req' = Answer(r, "InternalError")
        /\ UNCHANGED inflight
  /\ UNCHANGED <<log, states, term, leadTerm, up, m, applied, pend, snap, crashes>>

\* handleGet up to store.Get: the leader check.
handleGet(r, n, k) ==
  /\ req[r].pc = "idle" /\ n \in up
  /\ \/ /\ ~Leads(n)
        /\ req' = [req EXCEPT ![r] = Answered(Begin("get", n, k, Nil), "NotLeader")]
     \/ /\ Leads(n)
        /\ req' = [req EXCEPT ![r] = [Begin("get", n, k, Nil) EXCEPT !.pc = "read"]]
  /\ UNCHANGED <<raftVars, leadTerm, up, m, applied, pend, snap, crashes>>

\* store.Get and the rest of handleGet: a key that is missing and a key whose
\* value is "" are both "not found".
Get(r) ==
  /\ req[r].pc = "read"
  /\ \/ /\ Local(r) \in {Nil, EmptyValue}
        /\ req' = Answer(r, "NotFound")
     \/ /\ Local(r) \notin {Nil, EmptyValue}
        /\ req' = [req EXCEPT ![r] = [Answered(req[r], "Found") EXCEPT !.val = Local(r)]]
  /\ UNCHANGED <<raftVars, leadTerm, up, m, applied, pend, snap, crashes>>

(***************************************************************************)
(* Raft, as the store sees it.                                             *)
(***************************************************************************)
\* runCandidate, runLeader: a majority elects n in a new term.  Every
\* committed command is in the log of n; its state machine may be behind.
Elect(n) ==
  /\ n \in up /\ ~Leads(n) /\ HasQuorum
  /\ term < MaxTerm
  /\ term' = term + 1
  /\ leadTerm' = [leadTerm EXCEPT ![n] = term + 1]
  /\ UNCHANGED <<log, states, up, m, applied, pend, snap, req, inflight, crashes>>

\* The leader of the latest term commits the command of request r: its own, or
\* one an earlier leader left in its log.
Commit(n, r) ==
  /\ CurrentLeader(n) /\ HasQuorum
  /\ r \in inflight
  /\ log' = Append(log, CommandOf(r))
  /\ states' = Append(states, Effect(CommandOf(r), Committed))
  /\ inflight' = inflight \ {r}
  /\ UNCHANGED <<term, leadTerm, up, m, applied, pend, snap, req, crashes>>

\* runFSM: the state machine of n applies the next committed command and, if n
\* is waiting for it, answers the future; Store.Add then returns nil whatever
\* fsm.Apply returned.  A leader knows of the commits of its own term and of
\* the earlier ones.
Apply(n) ==
  /\ n \in up
  /\ applied[n] < Len(log)
  /\ LET c == log[applied[n] + 1]
     IN  /\ Leads(n) => c.term <= leadTerm[n]
         /\ m' = [m EXCEPT ![n] = Effect(c, m[n])]
         /\ req' = IF c.req \in Waiting(n) THEN Answer(c.req, "OK") ELSE req
  /\ applied' = [applied EXCEPT ![n] = applied[n] + 1]
  /\ UNCHANGED <<raftVars, leadTerm, up, pend, snap, crashes>>

\* runLeader's deferred cleanup: n stops leading, and the futures it holds fail
\* with ErrLeadershipLost, except those whose commit (up to index j) it has
\* already passed to the state machine.
StepDown(n) ==
  /\ Leads(n)
  /\ \E j \in applied[n] .. Len(log) :
       LET passed == {log[i].req : i \in {i \in 1 .. j : log[i].term <= leadTerm[n]}}
       IN  req' = [r \in Req |-> IF r \in Waiting(n) \ passed
                                 THEN Answered(req[r], "InternalError")
                                 ELSE req[r]]
  /\ leadTerm' = [leadTerm EXCEPT ![n] = 0]
  /\ UNCHANGED <<raftVars, up, m, applied, pend, snap, crashes>>

(***************************************************************************)
(* Snapshots, crashes, restarts.                                           *)
(***************************************************************************)
\* fsm.Snapshot: clone the map at the index applied so far.
TakeSnapshot(n) ==
  /\ n \in up /\ pend[n] = Nil
  /\ applied[n] > snap[n].idx
  /\ pend' = [pend EXCEPT ![n] = [idx |-> applied[n], map |-> m[n]]]
  /\ UNCHANGED <<raftVars, leadTerm, up, m, applied, snap, req, crashes>>

\* fsmSnapshot.Persist, some commands later: write the clone to the sink, or
\* cancel the sink.  The snapshot store orders its snapshots by index.
Persist(n) ==
  /\ pend[n] # Nil
  /\ \/ /\ pend[n].idx > snap[n].idx
        /\ snap' = [snap EXCEPT ![n] = pend[n]]
     \/ UNCHANGED snap
  /\ pend' = [pend EXCEPT ![n] = Nil]
  /\ UNCHANGED <<raftVars, leadTerm, up, m, applied, req, crashes>>

\* installSnapshot: a follower too far behind stores the snapshot of the
\* current leader and fsm.Restore replaces its map.  Futures left from a term
\* in which it led are in its state machine's queue, ahead of the restore.
InstallSnapshot(n, l) ==
  /\ n \in up /\ ~Leads(n) /\ CurrentLeader(l)
  /\ Waiting(n) = {}
  /\ snap[l].idx > applied[n]
  /\ snap' = [snap EXCEPT ![n] = snap[l]]
  /\ m' = [m EXCEPT ![n] = snap[l].map]
  /\ applied' = [applied EXCEPT ![n] = snap[l].idx]
  /\ UNCHANGED <<raftVars, leadTerm, up, pend, req, crashes>>

\* The process of node n dies: its memory is gone and the clients it was
\* serving see a broken connection.  What it proposed stays in flight.
Crash(n) ==
  /\ n \in up /\ crashes < MaxCrashes
  /\ crashes' = crashes + 1
  /\ up' = up \ {n}
  /\ leadTerm' = [leadTerm EXCEPT ![n] = 0]
  /\ m' = [m EXCEPT ![n] = EmptyMap]
  /\ applied' = [applied EXCEPT ![n] = 0]
  /\ pend' = [pend EXCEPT ![n] = Nil]
  /\ req' = [r \in Req |-> IF req[r].node = n
                           THEN Answered(req[r], "Broken") ELSE req[r]]
  /\ UNCHANGED <<raftVars, snap>>

\* New and Open: NewRaft restores the newest snapshot (fsm.Restore); the rest
\* of the log is applied again only as a leader commits.
Open(n) ==
  /\ n \notin up
  /\ up' = up \cup {n}
  /\ m' = [m EXCEPT ![n] = snap[n].map]
  /\ applied' = [applied EXCEPT ![n] = snap[n].idx]
  /\ UNCHANGED <<raftVars, leadTerm, pend, snap, req, crashes>>

\* The requests of the model are finitely many; when all have been answered
\* the nodes just stay up.
Quiescent ==
  /\ \A r \in Req : req[r].pc = "done"
  /\ UNCHANGED vars

Next ==
  \/ \E r \in Req, n \in Node, k \in Key :
       \/ handleGet(r, n, k)
       \/ \E op \in Ops, v \in Value : handleSet(r, n, op, k, v)
  \/ \E r \in Req : propose(r) \/ Get(r)
  \/ \E n \in Node : \/ Elect(n) \/ StepDown(n)
                     \/ Apply(n)
                     \/ TakeSnapshot(n) \/ Persist(n)
                     \/ Crash(n) \/ Open(n)
                     \/ \E r \in Req : Commit(n, r)
                     \/ \E l \in Node : InstallSnapshot(n, l)
  \/ Quiescent

Spec == Init /\ [][Next]_vars

(***************************************************************************)
(* Fairness.  A handler that runs goes on (goroutines are scheduled); raft *)
(* commits what its leader holds while a majority is up and applies what   *)
(* is committed; a leader that has been replaced, or that lost its         *)
(* majority, finds out (checkLeaderLease, or the answer of a peer with a   *)
(* later term).  Nothing says that requests arrive, that a leader is       *)
(* elected, or that a crashed node comes back.                             *)
(***************************************************************************)
Fairness ==
  /\ \A r \in Req : WF_vars(propose(r)) /\ WF_vars(Get(r))
  /\ \A n \in Node :
       /\ WF_vars(Apply(n))
       /\ WF_vars((leadTerm[n] # term \/ ~HasQuorum) /\ StepDown(n))
       /\ \A r \in Req : WF_vars(Commit(n, r))

FairSpec == Spec /\ Fairness

-----------------------------------------------------------------------------
(***************************************************************************)
(* Properties.                                                             *)
(***************************************************************************)
\* The history is what the state machine makes of the committed commands.
StatesFollowLog ==
  /\ Len(states) = Len(log) + 1
  /\ states[1] = EmptyMap
  /\ \A i \in 1 .. Len(log) : states[i + 1] = Effect(log[i], states[i])

\* A node that is up holds exactly the map of the commands it has applied,
\* whatever mixture of restarts, restored snapshots and replayed commands
\* (store.go: Apply, Restore, Open) brought it there.
ReplicaMatchesLog ==
  \A n \in up : /\ applied[n] <= Len(log)
                /\ m[n] = states[applied[n] + 1]

\* A snapshot, taken or persisted, is the map at its own index: commands
\* applied between fsm.Snapshot and Persist are not in it.
SnapshotMatchesLog ==
  /\ \A n \in Node : /\ snap[n].idx <= Len(log)
                     /\ snap[n].map = states[snap[n].idx + 1]
  /\ \A n \in Node : pend[n] # Nil => /\ pend[n].idx <= Len(log)
                                      /\ pend[n].map = states[pend[n].idx + 1]

\* A write answered StatusOK is committed: its key is set, for ever, even if
\* the node that answered loses its memory or the leadership at once
\* (handleSet answers after Store.Add has waited for the raft future).
AckedIsCommitted ==
  \A r \in Req : req[r].op = "add" /\ req[r].reply = "OK"
                 => Committed[req[r].key] # Nil

\* Every value ever answered to a read is the one value its key will ever
\* have, even when the answer came from a leader that had been replaced or was
\* behind (handleGet asks nobody): reads at all nodes, at all times, agree.
ReadsAgree ==
  \A r \in Req : req[r].reply = "Found"
                 => Committed[req[r].key] = req[r].val

\* The committed map is a set-once map: the promise of README.md.
OKV == INSTANCE OnceKV WITH kv <- Committed
ImplementsOnceKV == OKV!Spec

\* A write answered StatusOK stored its own value, as the status
\* StatusKeyDuplicate of response.go is there to tell the other case apart.
\* Violated: handleSet compares the error of Store.Add with ErrKeyDuplicated,
\* and Store.Add drops what fsm.applyAdd returns.
DuplicateIsReported ==
  \A r \in Req : req[r].op = "add" /\ req[r].reply = "OK"
                 => Committed[req[r].key] = req[r].val

\* Every request that reached a node is answered, or its node died: no handler
\* waits for ever on a raft future (store.go: f.Error()).
EveryRequestAnswered ==
  \A r \in Req : req[r].pc # "idle" ~> req[r].pc = "done"
=============================================================================
