---------------------------- MODULE DBNodeProofs ----------------------------
(***************************************************************************)
(* Proofs about DBNode, for any number of nodes, keys, values, requests,   *)
(* elections and crashes.                                                  *)
(*                                                                         *)
(* The first part holds for every operation of the store: a replica and a  *)
(* snapshot are always the map of a prefix of the committed log.  The      *)
(* second part is about the HTTP service, which only adds: the committed   *)
(* map is the set-once map of OnceKV, acknowledged writes are committed    *)
(* and all reads agree.                                                    *)
(***************************************************************************)
EXTENDS DBNode, TLAPS

\* Where a handler stands determines what it serves.
Shape(h) ==
  /\ h.pc = "idle" => h = IdleHandler
  /\ h.pc \in {"add", "wait"} => /\ h.op \in Ops
                                 /\ h.node \in Node
                                 /\ h.key \in Key
                                 /\ h.val \in Value
  /\ h.pc = "read" => /\ h.op = "get"
                      /\ h.node \in up
                      /\ h.key \in Key

HandlerShape == \A r \in Req : Shape(req[r])

\* A command in flight belongs to a write that has been proposed.
InflightShape ==
  \A r \in inflight : /\ req[r].pc \in {"wait", "done"}
                      /\ req[r].op \in Ops
                      /\ req[r].key \in Key
                      /\ req[r].val \in Value

\* The inductive invariant of the replicas.
ReplicaInv ==
  /\ TypeOK
  /\ HandlerShape
  /\ InflightShape
  /\ StatesFollowLog
  /\ ReplicaMatchesLog
  /\ SnapshotMatchesLog

-----------------------------------------------------------------------------
\* fsm.Apply maps a key/value map to a key/value map.
LEMMA EffectType ==
  ASSUME NEW c \in Command, NEW mp \in Map
  PROVE  Effect(c, mp) \in Map
<1>1. c.op \in {"add", "set", "delete"} /\ c.key \in Key /\ c.val \in Value
  BY DBNodeAssumption DEF Command
<1>2. CASE c.op = "add"
  BY <1>1, <1>2 DEF Effect, applyAdd, Map
<1>3. CASE c.op = "set"
  BY <1>1, <1>3 DEF Effect, applySet, Map
<1>4. CASE c.op = "delete"
  BY <1>1, <1>4 DEF Effect, applyDelete, Map
<1> QED
  BY <1>1, <1>2, <1>3, <1>4

\* Answering a handler keeps what it serves.
LEMMA AnsweredType ==
  ASSUME NEW h \in Handler, NEW reply \in Reply
  PROVE  /\ Answered(h, reply) \in Handler
         /\ Answered(h, reply).pc = "done"
         /\ Answered(h, reply).reply = reply
         /\ Answered(h, reply).op = h.op
         /\ Answered(h, reply).key = h.key
         /\ Answered(h, reply).val = h.val
BY DEF Answered, Handler

\* The initial handlers, maps and snapshots have their types.
LEMMA InitType == IdleHandler \in Handler /\ EmptyMap \in Map /\ NoSnapshot \in Snapshot
BY DEF IdleHandler, Handler, EmptyMap, Map, NoSnapshot, Snapshot, Reply

\* The initial states satisfy the replica invariant.
LEMMA ReplicaInit == Init => ReplicaInv
<1> SUFFICES ASSUME Init PROVE ReplicaInv
  OBVIOUS
<1> USE DEF Init
<1>1. TypeOK
  BY InitType DEF TypeOK
<1>2. HandlerShape /\ InflightShape
  BY DEF HandlerShape, Shape, InflightShape, IdleHandler
<1>3. StatesFollowLog /\ ReplicaMatchesLog
  BY DEF StatesFollowLog, ReplicaMatchesLog
<1>4. SnapshotMatchesLog
  BY DEF SnapshotMatchesLog, NoSnapshot
<1> QED
  BY <1>1, <1>2, <1>3, <1>4 DEF ReplicaInv

-----------------------------------------------------------------------------
\* A step that gives request r, with no command in flight, another handler of
\* the right shape keeps the replica invariant.
LEMMA ReplaceHandler ==
  ASSUME ReplicaInv, NEW r \in Req, NEW g \in Handler, Shape(g), r \notin inflight,
         req' = [req EXCEPT ![r] = g],
         UNCHANGED <<log, states, term, inflight, leadTerm, up, m, applied, pend,
                     snap, crashes>>
  PROVE  ReplicaInv'
<1>1. TypeOK'
  BY DEF ReplicaInv, TypeOK
<1>2. HandlerShape'
  BY DEF ReplicaInv, TypeOK, HandlerShape, Shape
<1>3. InflightShape'
  BY DEF ReplicaInv, TypeOK, InflightShape
<1>4. StatesFollowLog'
  BY DEF ReplicaInv, StatesFollowLog
<1>5. ReplicaMatchesLog'
  BY DEF ReplicaInv, ReplicaMatchesLog
<1>6. SnapshotMatchesLog'
  BY DEF ReplicaInv, SnapshotMatchesLog
<1> QED
  BY <1>1, <1>2, <1>3, <1>4, <1>5, <1>6 DEF ReplicaInv

\* What a handler that begins looks like.
LEMMA BeginType ==
  ASSUME NEW op \in Ops \cup {"get"}, NEW n \in Node, NEW k \in Key,
         NEW v \in Value \cup {Nil}
  PROVE  /\ Begin(op, n, k, v) \in Handler
         /\ Begin(op, n, k, v).op = op
         /\ Begin(op, n, k, v).node = n
         /\ Begin(op, n, k, v).key = k
         /\ Begin(op, n, k, v).val = v
BY DEF Begin, IdleHandler, Handler, Reply

\* A handler that has answered stands nowhere that constrains it.
LEMMA AnsweredShape ==
  ASSUME NEW h \in Handler, NEW reply \in Reply
  PROVE  Shape(Answered(h, reply))
BY AnsweredType DEF Shape

\* handleSet preserves the replica invariant.
LEMMA handleSetInv ==
  ASSUME ReplicaInv, NEW r \in Req, NEW n \in Node, NEW op \in Ops, NEW k \in Key,
         NEW v \in Value, handleSet(r, n, op, k, v)
  PROVE  ReplicaInv'
<1> DEFINE h == Begin(op, n, k, v)
<1>1. h \in Handler /\ h.op = op /\ h.node = n /\ h.key = k /\ h.val = v
  BY BeginType
<1>2. /\ req[r].pc = "idle"
      /\ UNCHANGED <<log, states, term, inflight, leadTerm, up, m, applied, pend, snap, crashes>>
      /\ \/ req' = [req EXCEPT ![r] = Answered(h, "NotLeader")]
         \/ req' = [req EXCEPT ![r] = Answered(h, "ParamsError")]
         \/ req' = [req EXCEPT ![r] = [h EXCEPT !.pc = "add"]]
  BY DEF handleSet, raftVars
<1> HIDE DEF h
<1>3. r \notin inflight
  BY <1>2 DEF ReplicaInv, InflightShape
<1>4. "NotLeader" \in Reply /\ "ParamsError" \in Reply
  BY DEF Reply
<1>5. CASE req' = [req EXCEPT ![r] = Answered(h, "NotLeader")]
  BY <1>1, <1>2, <1>3, <1>4, <1>5, AnsweredType, AnsweredShape, ReplaceHandler
<1>6. CASE req' = [req EXCEPT ![r] = Answered(h, "ParamsError")]
  BY <1>1, <1>2, <1>3, <1>4, <1>6, AnsweredType, AnsweredShape, ReplaceHandler
<1>7. CASE req' = [req EXCEPT ![r] = [h EXCEPT !.pc = "add"]]
  <2>1. [h EXCEPT !.pc = "add"] \in Handler /\ Shape([h EXCEPT !.pc = "add"])
    BY <1>1 DEF Handler, Shape
  <2> QED
    BY <1>2, <1>3, <1>7, <2>1, ReplaceHandler
<1> QED
  BY <1>2, <1>5, <1>6, <1>7

\* handleGet, up to the read, preserves the replica invariant.
LEMMA handleGetInv ==
  ASSUME ReplicaInv, NEW r \in Req, NEW n \in Node, NEW k \in Key, handleGet(r, n, k)
  PROVE  ReplicaInv'
<1> DEFINE h == Begin("get", n, k, Nil)
           g == [h EXCEPT !.pc = "read"]
<1>1. h \in Handler /\ h.op = "get" /\ h.node = n /\ h.key = k
  BY BeginType
<1>2. /\ req[r].pc = "idle" /\ n \in up
      /\ UNCHANGED <<log, states, term, inflight, leadTerm, up, m, applied, pend, snap, crashes>>
      /\ \/ req' = [req EXCEPT ![r] = Answered(h, "NotLeader")]
         \/ req' = [req EXCEPT ![r] = g]
  BY DEF handleGet, raftVars
<1> HIDE DEF h
<1>3. r \notin inflight
  BY <1>2 DEF ReplicaInv, InflightShape
<1>4. CASE req' = [req EXCEPT ![r] = Answered(h, "NotLeader")]
  <2>1. "NotLeader" \in Reply
    BY DEF Reply
  <2> QED
    BY <1>1, <1>2, <1>3, <1>4, <2>1, AnsweredType, AnsweredShape, ReplaceHandler
<1>5. CASE req' = [req EXCEPT ![r] = g]
  <2>1. g \in Handler /\ Shape(g)
    BY <1>1, <1>2 DEF Handler, Shape
  <2> QED
    BY <1>2, <1>3, <1>5, <2>1, ReplaceHandler
<1> QED
  BY <1>2, <1>4, <1>5
\* Store.Add, Set and Delete preserve the replica invariant.
LEMMA proposeInv ==
  ASSUME ReplicaInv, NEW r \in Req, propose(r)
  PROVE  ReplicaInv'
<1> USE DEF ReplicaInv
<1>1. req[r] \in Handler /\ req[r].pc = "add" /\ Shape(req[r])
  BY DEF propose, TypeOK, HandlerShape
<1>2. r \notin inflight
  BY <1>1 DEF InflightShape
<1>3. UNCHANGED <<log, states, term, leadTerm, up, m, applied, pend, snap, crashes>>
  BY DEF propose
<1>4. CASE /\ inflight' = inflight \cup {r}
           /\ req' = [req EXCEPT ![r].pc = "wait"]
  <2>1. TypeOK'
    BY <1>1, <1>3, <1>4 DEF TypeOK, Handler
  <2>2. HandlerShape'
    BY <1>1, <1>3, <1>4 DEF TypeOK, HandlerShape, Shape, Handler
  <2>3. InflightShape'
    BY <1>1, <1>3, <1>4 DEF TypeOK, InflightShape, Shape, Handler
  <2>4. StatesFollowLog' /\ ReplicaMatchesLog'
    BY <1>3 DEF StatesFollowLog, ReplicaMatchesLog
  <2>5. SnapshotMatchesLog'
    BY <1>3 DEF SnapshotMatchesLog
  <2> QED
    BY <2>1, <2>2, <2>3, <2>4, <2>5
<1>5. CASE req' = Answer(r, "InternalError") /\ UNCHANGED inflight
  <2>1. "InternalError" \in Reply
    BY DEF Reply
  <2> QED
    BY <1>1, <1>2, <1>3, <1>5, <2>1, AnsweredType, AnsweredShape, ReplaceHandler DEF Answer
<1> QED
  BY <1>4, <1>5 DEF propose

\* Store.Get preserves the replica invariant.
LEMMA GetInv ==
  ASSUME ReplicaInv, NEW r \in Req, Get(r)
  PROVE  ReplicaInv'
<1>1. /\ req[r] \in Handler /\ req[r].pc = "read" /\ Shape(req[r])
      /\ UNCHANGED <<log, states, term, inflight, leadTerm, up, m, applied, pend, snap, crashes>>
  BY DEF Get, ReplicaInv, TypeOK, HandlerShape, raftVars
<1>2. r \notin inflight
  BY <1>1 DEF ReplicaInv, InflightShape
<1>3. "NotFound" \in Reply /\ "Found" \in Reply
  BY DEF Reply
<1>4. CASE req' = Answer(r, "NotFound")
  BY <1>1, <1>2, <1>3, <1>4, AnsweredType, AnsweredShape, ReplaceHandler DEF Answer
<1>5. CASE req' = [req EXCEPT ![r] = [Answered(req[r], "Found") EXCEPT !.val = Local(r)]]
  <2> DEFINE a == Answered(req[r], "Found")
             g == [a EXCEPT !.val = Local(r)]
  <2>1. Local(r) \in Value \cup {Nil}
    BY <1>1 DEF Local, Shape, ReplicaInv, TypeOK, Map
  <2>2. a \in Handler /\ a.pc = "done"
    BY <1>1, <1>3, AnsweredType
  <2> HIDE DEF a
  <2>3. g \in Handler /\ Shape(g)
    BY <2>1, <2>2 DEF Handler, Shape
  <2> QED
    BY <1>1, <1>2, <1>5, <2>3, ReplaceHandler DEF a
<1> QED
  BY <1>4, <1>5 DEF Get

\* An election preserves the replica invariant.
LEMMA ElectInv ==
  ASSUME ReplicaInv, NEW n \in Node, Elect(n)
  PROVE  ReplicaInv'
<1> USE DEF ReplicaInv, Elect
<1>1. TypeOK'
  BY DEF TypeOK
<1>2. HandlerShape'
  BY DEF HandlerShape, Shape
<1>3. InflightShape'
  BY DEF InflightShape
<1>4. StatesFollowLog' /\ ReplicaMatchesLog'
  BY DEF StatesFollowLog, ReplicaMatchesLog
<1>5. SnapshotMatchesLog'
  BY DEF SnapshotMatchesLog
<1> QED
  BY <1>1, <1>2, <1>3, <1>4, <1>5

\* The committed map is a map, and the last of the history.
LEMMA CommittedType ==
  ASSUME ReplicaInv
  PROVE  /\ Len(log) \in Nat
         /\ Committed = states[Len(log) + 1]
         /\ \A i \in 0 .. Len(log) : states[i + 1] \in Map
BY DEF ReplicaInv, TypeOK, StatesFollowLog, Committed

\* A request in flight carries a well-typed command.
LEMMA CommandOfType ==
  ASSUME ReplicaInv, NEW r \in inflight
  PROVE  CommandOf(r) \in Command
BY DEF ReplicaInv, TypeOK, InflightShape, CommandOf, Command

\* Appending a command leaves the states of the earlier prefixes alone.
LEMMA CommitInv ==
  ASSUME ReplicaInv, NEW n \in Node, NEW r \in Req, Commit(n, r)
  PROVE  ReplicaInv'
<1> DEFINE c == CommandOf(r)
           s == Effect(c, Committed)
<1>1. /\ r \in inflight
      /\ log' = Append(log, c)
      /\ states' = Append(states, s)
      /\ inflight' = inflight \ {r}
      /\ UNCHANGED <<term, leadTerm, up, m, applied, pend, snap, req, crashes>>
  BY DEF Commit
<1>2. c \in Command
  BY <1>1, CommandOfType
<1>3. s \in Map
  BY <1>2, CommittedType, EffectType
<1>4. /\ log \in Seq(Command) /\ states \in Seq(Map) /\ Len(states) = Len(log) + 1
      /\ Committed = states[Len(log) + 1]
  BY CommittedType DEF ReplicaInv, TypeOK, StatesFollowLog
<1> HIDE DEF c, s
<1>5. /\ Len(log') = Len(log) + 1
      /\ Len(states') = Len(log) + 2
      /\ \A i \in 1 .. Len(log) : log'[i] = log[i]
      /\ \A i \in 1 .. Len(log) + 1 : states'[i] = states[i]
      /\ log'[Len(log) + 1] = c
      /\ states'[Len(log) + 2] = s
  BY <1>1, <1>2, <1>3, <1>4
<1>6. TypeOK'
  BY <1>1, <1>2, <1>3, <1>4 DEF ReplicaInv, TypeOK
<1>7. HandlerShape'
  BY <1>1 DEF ReplicaInv, HandlerShape, Shape
<1>8. InflightShape'
  BY <1>1 DEF ReplicaInv, InflightShape
<1>9. StatesFollowLog'
  <2>1. states'[1] = EmptyMap
    BY <1>4, <1>5 DEF ReplicaInv, StatesFollowLog
  <2>2. ASSUME NEW i \in 1 .. Len(log')
        PROVE  states'[i + 1] = Effect(log'[i], states'[i])
    <3>1. CASE i \in 1 .. Len(log)
      BY <1>4, <1>5, <3>1 DEF ReplicaInv, StatesFollowLog
    <3>2. CASE i = Len(log) + 1
      BY <1>4, <1>5, <3>2 DEF s
    <3> QED
      BY <1>4, <1>5, <3>1, <3>2
  <2> QED
    BY <1>4, <1>5, <2>1, <2>2 DEF StatesFollowLog
<1>10. ReplicaMatchesLog'
  BY <1>1, <1>4, <1>5 DEF ReplicaInv, TypeOK, ReplicaMatchesLog
<1>11. SnapshotMatchesLog'
  <2>1. \A i \in Nat : i <= Len(log) => /\ i <= Len(log')
                                        /\ states'[i + 1] = states[i + 1]
    BY <1>4, <1>5
  <2>2. \A q \in Node : /\ snap[q].idx \in Nat
                        /\ pend[q] # Nil => pend[q].idx \in Nat
    BY DEF ReplicaInv, TypeOK, Snapshot
  <2> QED
    BY <1>1, <2>1, <2>2 DEF ReplicaInv, SnapshotMatchesLog
<1> QED
  BY <1>6, <1>7, <1>8, <1>9, <1>10, <1>11 DEF ReplicaInv

\* Answering some waiting or running handlers leaves every shape right.
LEMMA AnswerSome ==
  ASSUME ReplicaInv, NEW A \in SUBSET Req, NEW reply \in Reply,
         \A r \in A : req[r].pc # "idle",
         req' = [r \in Req |-> IF r \in A THEN Answered(req[r], reply) ELSE req[r]],
         \A r \in Req \ A : req[r].pc = "read" => req[r].node \in up',
         inflight' = inflight
  PROVE  /\ req' \in [Req -> Handler]
         /\ HandlerShape'
         /\ InflightShape'
<1> USE DEF ReplicaInv
<1>1. \A r \in Req : req[r] \in Handler
  BY DEF TypeOK
<1>2. \A r \in A : /\ Answered(req[r], reply) \in Handler
                   /\ Answered(req[r], reply).pc = "done"
                   /\ Answered(req[r], reply).op = req[r].op
                   /\ Answered(req[r], reply).key = req[r].key
                   /\ Answered(req[r], reply).val = req[r].val
  BY <1>1, AnsweredType
<1>3. req' \in [Req -> Handler]
  BY <1>1, <1>2
<1>4. HandlerShape'
  BY <1>2 DEF HandlerShape, Shape
<1>5. InflightShape'
  BY <1>2 DEF InflightShape, TypeOK
<1> QED
  BY <1>3, <1>4, <1>5

\* fsm.Apply of the next committed command preserves the replica invariant.
LEMMA ApplyInv ==
  ASSUME ReplicaInv, NEW n \in Node, Apply(n)
  PROVE  ReplicaInv'
<1> DEFINE c == log[applied[n] + 1]
           A == {c.req} \cap Waiting(n)
<1>1. /\ n \in up /\ applied[n] < Len(log)
      /\ m' = [m EXCEPT ![n] = Effect(c, m[n])]
      /\ req' = IF c.req \in Waiting(n) THEN Answer(c.req, "OK") ELSE req
      /\ applied' = [applied EXCEPT ![n] = applied[n] + 1]
      /\ UNCHANGED <<log, states, term, inflight, leadTerm, up, pend, snap, crashes>>
  BY DEF Apply, raftVars
<1>2. /\ applied[n] \in Nat /\ log \in Seq(Command) /\ m[n] \in Map
      /\ m[n] = states[applied[n] + 1]
  BY <1>1 DEF ReplicaInv, TypeOK, ReplicaMatchesLog
<1>3. c \in Command
  BY <1>1, <1>2
<1>4. Effect(c, m[n]) \in Map
  BY <1>2, <1>3, EffectType
<1>5. Effect(c, m[n]) = states[applied[n] + 2]
  <2> DEFINE i == applied[n] + 1
  <2>1. i \in 1 .. Len(log) /\ i + 1 = applied[n] + 2
    BY <1>1, <1>2
  <2>2. states[i + 1] = Effect(log[i], states[i])
    BY <2>1 DEF ReplicaInv, StatesFollowLog
  <2> QED
    BY <1>2, <2>1, <2>2
<1>6. /\ req' \in [Req -> Handler]
      /\ HandlerShape'
      /\ InflightShape'
  <2>1. A \in SUBSET Req /\ \A r \in A : req[r].pc # "idle"
    BY DEF Waiting
  <2>2. "OK" \in Reply
    BY DEF Reply
  <2>3. req' = [r \in Req |-> IF r \in A THEN Answered(req[r], "OK") ELSE req[r]]
    BY <1>1 DEF Answer, Waiting, ReplicaInv, TypeOK
  <2>4. \A r \in Req \ A : req[r].pc = "read" => req[r].node \in up'
    BY <1>1 DEF ReplicaInv, HandlerShape, Shape
  <2> HIDE DEF A
  <2> QED
    BY <1>1, <2>1, <2>2, <2>3, <2>4, AnswerSome
<1> HIDE DEF c
<1>7. TypeOK'
  BY <1>1, <1>2, <1>4, <1>6 DEF ReplicaInv, TypeOK
<1>8. StatesFollowLog'
  BY <1>1 DEF ReplicaInv, StatesFollowLog
<1>9. ReplicaMatchesLog'
  BY <1>1, <1>2, <1>5 DEF ReplicaInv, TypeOK, ReplicaMatchesLog
<1>10. SnapshotMatchesLog'
  BY <1>1 DEF ReplicaInv, SnapshotMatchesLog
<1> QED
  BY <1>6, <1>7, <1>8, <1>9, <1>10 DEF ReplicaInv

\* A leader that steps down preserves the replica invariant.
LEMMA StepDownInv ==
  ASSUME ReplicaInv, NEW n \in Node, StepDown(n)
  PROVE  ReplicaInv'
<1>1. /\ leadTerm' = [leadTerm EXCEPT ![n] = 0]
      /\ UNCHANGED <<log, states, term, inflight, up, m, applied, pend, snap, crashes>>
  BY DEF StepDown, raftVars
<1>2. PICK A \in SUBSET Req :
        /\ \A r \in A : req[r].pc # "idle"
        /\ req' = [r \in Req |-> IF r \in A THEN Answered(req[r], "InternalError")
                                 ELSE req[r]]
  <2>1. PICK j \in applied[n] .. Len(log) :
          req' = [r \in Req |->
                    IF r \in Waiting(n)
                               \ {log[i].req : i \in {i \in 1 .. j : log[i].term <= leadTerm[n]}}
                    THEN Answered(req[r], "InternalError") ELSE req[r]]
    BY DEF StepDown
  <2> DEFINE B == Waiting(n)
                    \ {log[i].req : i \in {i \in 1 .. j : log[i].term <= leadTerm[n]}}
  <2>2. B \in SUBSET Req /\ \A r \in B : req[r].pc # "idle"
    BY DEF Waiting
  <2>3. req' = [r \in Req |-> IF r \in B THEN Answered(req[r], "InternalError")
                             ELSE req[r]]
    BY <2>1
  <2> HIDE DEF B
  <2> QED
    BY <2>2, <2>3
<1>3. "InternalError" \in Reply
  BY DEF Reply
<1>4. \A r \in Req \ A : req[r].pc = "read" => req[r].node \in up'
  BY <1>1 DEF ReplicaInv, HandlerShape, Shape
<1>5. /\ req' \in [Req -> Handler]
      /\ HandlerShape'
      /\ InflightShape'
  BY <1>1, <1>2, <1>3, <1>4, AnswerSome
<1>6. TypeOK'
  BY <1>1, <1>5 DEF ReplicaInv, TypeOK
<1>7. StatesFollowLog' /\ ReplicaMatchesLog'
  BY <1>1 DEF ReplicaInv, StatesFollowLog, ReplicaMatchesLog
<1>8. SnapshotMatchesLog'
  BY <1>1 DEF ReplicaInv, SnapshotMatchesLog
<1> QED
  BY <1>5, <1>6, <1>7, <1>8 DEF ReplicaInv
\* fsm.Snapshot preserves the replica invariant.
LEMMA TakeSnapshotInv ==
  ASSUME ReplicaInv, NEW n \in Node, TakeSnapshot(n)
  PROVE  ReplicaInv'
<1>1. /\ n \in up
      /\ pend' = [pend EXCEPT ![n] = [idx |-> applied[n], map |-> m[n]]]
      /\ UNCHANGED <<log, states, term, inflight, leadTerm, up, m, applied, snap, req, crashes>>
  BY DEF TakeSnapshot, raftVars
<1>2. [idx |-> applied[n], map |-> m[n]] \in Snapshot
  BY DEF ReplicaInv, TypeOK, Snapshot
<1>3. TypeOK'
  BY <1>1, <1>2 DEF ReplicaInv, TypeOK
<1>4. HandlerShape' /\ InflightShape'
  BY <1>1 DEF ReplicaInv, HandlerShape, Shape, InflightShape
<1>5. StatesFollowLog' /\ ReplicaMatchesLog'
  BY <1>1 DEF ReplicaInv, StatesFollowLog, ReplicaMatchesLog
<1>6. applied[n] <= Len(log) /\ m[n] = states[applied[n] + 1]
  BY <1>1 DEF ReplicaInv, ReplicaMatchesLog
<1>7. SnapshotMatchesLog'
  BY <1>1, <1>6 DEF ReplicaInv, TypeOK, SnapshotMatchesLog
<1> QED
  BY <1>3, <1>4, <1>5, <1>7 DEF ReplicaInv

\* fsmSnapshot.Persist preserves the replica invariant.
LEMMA PersistInv ==
  ASSUME ReplicaInv, NEW n \in Node, Persist(n)
  PROVE  ReplicaInv'
<1>1. /\ pend[n] # Nil
      /\ pend' = [pend EXCEPT ![n] = Nil]
      /\ snap' \in {snap, [snap EXCEPT ![n] = pend[n]]}
      /\ UNCHANGED <<log, states, term, inflight, leadTerm, up, m, applied, req, crashes>>
  BY DEF Persist, raftVars
<1>2. TypeOK'
  BY <1>1 DEF ReplicaInv, TypeOK
<1>3. HandlerShape' /\ InflightShape'
  BY <1>1 DEF ReplicaInv, HandlerShape, Shape, InflightShape
<1>4. StatesFollowLog' /\ ReplicaMatchesLog'
  BY <1>1 DEF ReplicaInv, StatesFollowLog, ReplicaMatchesLog
<1>5. SnapshotMatchesLog'
  BY <1>1 DEF ReplicaInv, TypeOK, SnapshotMatchesLog
<1> QED
  BY <1>2, <1>3, <1>4, <1>5 DEF ReplicaInv

\* A restored snapshot of the leader preserves the replica invariant.
LEMMA InstallSnapshotInv ==
  ASSUME ReplicaInv, NEW n \in Node, NEW l \in Node, InstallSnapshot(n, l)
  PROVE  ReplicaInv'
<1>1. /\ snap' = [snap EXCEPT ![n] = snap[l]]
      /\ m' = [m EXCEPT ![n] = snap[l].map]
      /\ applied' = [applied EXCEPT ![n] = snap[l].idx]
      /\ UNCHANGED <<log, states, term, inflight, leadTerm, up, pend, req, crashes>>
  BY DEF InstallSnapshot, raftVars
<1>2. snap[l] \in Snapshot /\ snap[l].idx \in Nat /\ snap[l].map \in Map
  BY DEF ReplicaInv, TypeOK, Snapshot
<1>3. snap[l].idx <= Len(log) /\ snap[l].map = states[snap[l].idx + 1]
  BY DEF ReplicaInv, SnapshotMatchesLog
<1>4. TypeOK'
  BY <1>1, <1>2 DEF ReplicaInv, TypeOK
<1>5. HandlerShape' /\ InflightShape'
  BY <1>1 DEF ReplicaInv, HandlerShape, Shape, InflightShape
<1>6. StatesFollowLog'
  BY <1>1 DEF ReplicaInv, StatesFollowLog
<1>7. ReplicaMatchesLog'
  BY <1>1, <1>3 DEF ReplicaInv, TypeOK, ReplicaMatchesLog
<1>8. SnapshotMatchesLog'
  BY <1>1, <1>3 DEF ReplicaInv, TypeOK, SnapshotMatchesLog
<1> QED
  BY <1>4, <1>5, <1>6, <1>7, <1>8 DEF ReplicaInv

\* A crash preserves the replica invariant.
LEMMA CrashInv ==
  ASSUME ReplicaInv, NEW n \in Node, Crash(n)
  PROVE  ReplicaInv'
<1> DEFINE A == {r \in Req : req[r].node = n}
<1>1. /\ crashes' = crashes + 1
      /\ up' = up \ {n}
      /\ leadTerm' = [leadTerm EXCEPT ![n] = 0]
      /\ m' = [m EXCEPT ![n] = EmptyMap]
      /\ applied' = [applied EXCEPT ![n] = 0]
      /\ pend' = [pend EXCEPT ![n] = Nil]
      /\ UNCHANGED <<log, states, term, inflight, snap>>
      /\ req' = [r \in Req |-> IF req[r].node = n
                               THEN Answered(req[r], "Broken") ELSE req[r]]
  BY DEF Crash, raftVars
<1>2. /\ req' \in [Req -> Handler]
      /\ HandlerShape'
      /\ InflightShape'
  <2>1. "Broken" \in Reply
    BY DEF Reply
  <2>2. A \in SUBSET Req /\ \A r \in A : req[r].pc # "idle"
    BY DBNodeAssumption DEF ReplicaInv, HandlerShape, Shape, IdleHandler
  <2>3. req' = [r \in Req |-> IF r \in A THEN Answered(req[r], "Broken") ELSE req[r]]
    BY <1>1
  <2>4. \A r \in Req \ A : req[r].pc = "read" => req[r].node \in up'
    BY <1>1 DEF ReplicaInv, HandlerShape, Shape
  <2> HIDE DEF A
  <2> QED
    BY <1>1, <2>1, <2>2, <2>3, <2>4, AnswerSome
<1>3. TypeOK'
  BY <1>1, <1>2, InitType DEF ReplicaInv, TypeOK
<1>4. StatesFollowLog'
  BY <1>1 DEF ReplicaInv, StatesFollowLog
<1>5. ReplicaMatchesLog'
  BY <1>1 DEF ReplicaInv, TypeOK, ReplicaMatchesLog
<1>6. SnapshotMatchesLog'
  BY <1>1 DEF ReplicaInv, TypeOK, SnapshotMatchesLog
<1> QED
  BY <1>2, <1>3, <1>4, <1>5, <1>6 DEF ReplicaInv

\* A restart from the newest snapshot preserves the replica invariant.
LEMMA OpenInv ==
  ASSUME ReplicaInv, NEW n \in Node, Open(n)
  PROVE  ReplicaInv'
<1>1. /\ up' = up \cup {n}
      /\ m' = [m EXCEPT ![n] = snap[n].map]
      /\ applied' = [applied EXCEPT ![n] = snap[n].idx]
      /\ UNCHANGED <<log, states, term, inflight, leadTerm, pend, snap, req, crashes>>
  BY DEF Open, raftVars
<1>2. snap[n].idx \in Nat /\ snap[n].map \in Map
  BY DEF ReplicaInv, TypeOK, Snapshot
<1>3. snap[n].idx <= Len(log) /\ snap[n].map = states[snap[n].idx + 1]
  BY DEF ReplicaInv, SnapshotMatchesLog
<1>4. TypeOK'
  BY <1>1, <1>2 DEF ReplicaInv, TypeOK
<1>5. HandlerShape' /\ InflightShape'
  BY <1>1 DEF ReplicaInv, HandlerShape, Shape, InflightShape
<1>6. StatesFollowLog'
  BY <1>1 DEF ReplicaInv, StatesFollowLog
<1>7. ReplicaMatchesLog'
  BY <1>1, <1>3 DEF ReplicaInv, TypeOK, ReplicaMatchesLog
<1>8. SnapshotMatchesLog'
  BY <1>1 DEF ReplicaInv, SnapshotMatchesLog
<1> QED
  BY <1>4, <1>5, <1>6, <1>7, <1>8 DEF ReplicaInv

\* A step that changes nothing keeps the replica invariant.
LEMMA StutterInv ==
  ASSUME ReplicaInv, UNCHANGED vars
  PROVE  ReplicaInv'
<1> USE DEF ReplicaInv, vars
<1>1. TypeOK'
  BY DEF TypeOK
<1>2. HandlerShape' /\ InflightShape'
  BY DEF HandlerShape, Shape, InflightShape
<1>3. StatesFollowLog' /\ ReplicaMatchesLog'
  BY DEF StatesFollowLog, ReplicaMatchesLog
<1>4. SnapshotMatchesLog'
  BY DEF SnapshotMatchesLog
<1> QED
  BY <1>1, <1>2, <1>3, <1>4

\* Every step keeps the replica invariant.
LEMMA ReplicaStep == ReplicaInv /\ [Next]_vars => ReplicaInv'
<1> SUFFICES ASSUME ReplicaInv, [Next]_vars PROVE ReplicaInv'
  OBVIOUS
<1>1. ASSUME NEW r \in Req, NEW n \in Node, NEW k \in Key, handleGet(r, n, k)
      PROVE  ReplicaInv'
  BY <1>1, handleGetInv
<1>2. ASSUME NEW r \in Req, NEW n \in Node, NEW k \in Key, NEW op \in Ops,
             NEW v \in Value, handleSet(r, n, op, k, v)
      PROVE  ReplicaInv'
  BY <1>2, handleSetInv
<1>3. ASSUME NEW r \in Req, propose(r) \/ Get(r)
      PROVE  ReplicaInv'
  BY <1>3, proposeInv, GetInv
<1>4. ASSUME NEW n \in Node, Elect(n) \/ StepDown(n) \/ Apply(n)
      PROVE  ReplicaInv'
  BY <1>4, ElectInv, StepDownInv, ApplyInv
<1>5. ASSUME NEW n \in Node, TakeSnapshot(n) \/ Persist(n) \/ Crash(n) \/ Open(n)
      PROVE  ReplicaInv'
  BY <1>5, TakeSnapshotInv, PersistInv, CrashInv, OpenInv
<1>6. ASSUME NEW n \in Node, NEW r \in Req, Commit(n, r)
      PROVE  ReplicaInv'
  BY <1>6, CommitInv
<1>7. ASSUME NEW n \in Node, NEW l \in Node, InstallSnapshot(n, l)
      PROVE  ReplicaInv'
  BY <1>7, InstallSnapshotInv
<1>8. CASE UNCHANGED vars
  BY <1>8, StutterInv
<1> QED
  BY <1>1, <1>2, <1>3, <1>4, <1>5, <1>6, <1>7, <1>8 DEF Next, Quiescent

\* The replica invariant holds in every reachable state.
LEMMA ReplicaInvariant == Spec => []ReplicaInv
BY ReplicaInit, ReplicaStep, PTL DEF Spec

\* The variables of the database nodes keep their types.
THEOREM TypeCorrect == Spec => []TypeOK
<1>1. ReplicaInv => TypeOK
  BY DEF ReplicaInv
<1> QED
  BY <1>1, ReplicaInvariant, PTL

\* Every running replica is the map of the prefix of the committed log it has
\* applied, whatever operations the store is used for and whatever crashes,
\* restarts and restores happened.
THEOREM ReplicasFollowLog == Spec => []ReplicaMatchesLog
<1>1. ReplicaInv => ReplicaMatchesLog
  BY DEF ReplicaInv
<1> QED
  BY <1>1, ReplicaInvariant, PTL

\* Every snapshot, on disk or about to be written, is the map of the prefix of
\* the log that ends at its index, although fsm.Apply goes on while Persist
\* writes it.
THEOREM SnapshotsFollowLog == Spec => []SnapshotMatchesLog
<1>1. ReplicaInv => SnapshotMatchesLog
  BY DEF ReplicaInv
<1> QED
  BY <1>1, ReplicaInvariant, PTL

-----------------------------------------------------------------------------
(***************************************************************************)
(* The HTTP service: Ops = {"add"}.                                        *)
(***************************************************************************)
\* What a node has ever held for a key is what the key will always have.
StatesAreFinal ==
  \A i \in 1 .. Len(states) : \A k \in Key :
    states[i][k] # Nil => Committed[k] = states[i][k]

\* A committed command is that of a write that was proposed.
LogMatchesRequests ==
  \A i \in 1 .. Len(log) : /\ req[log[i].req].pc \in {"wait", "done"}
                           /\ req[log[i].req].key = log[i].key

\* A handler that has begun serves a key, and what it answered is so.
Truthful(h) ==
  /\ h.pc # "idle" => h.key \in Key
  /\ h.op = "add" /\ h.reply = "OK" => Committed[h.key] # Nil
  /\ h.reply = "Found" => h.val # Nil /\ Committed[h.key] = h.val

\* The inductive invariant of the service.
OnceInv ==
  /\ ReplicaInv
  /\ StatesAreFinal
  /\ LogMatchesRequests
  /\ \A r \in Req : Truthful(req[r])

\* fsm.applyAdd leaves a key that is set alone, and its own key is set after it.
LEMMA AddIsFinal ==
  ASSUME NEW c \in Command, NEW mp \in Map, c.op = "add"
  PROVE  /\ \A k \in Key : mp[k] # Nil => Effect(c, mp)[k] = mp[k]
         /\ Effect(c, mp)[c.key] # Nil
         /\ \/ Effect(c, mp) = mp
            \/ mp[c.key] = Nil /\ Effect(c, mp) = [mp EXCEPT ![c.key] = c.val]
<1>1. Effect(c, mp) = applyAdd(mp, c.key, c.val)
  BY DEF Effect
<1>2. c.key \in Key /\ c.val \in Value /\ c.val # Nil
  BY DBNodeAssumption DEF Command
<1> QED
  BY <1>1, <1>2 DEF applyAdd, Map

\* The set-once invariant holds initially.
LEMMA OnceInit == Init => OnceInv
<1> SUFFICES ASSUME Init PROVE OnceInv
  OBVIOUS
<1>1. ReplicaInv
  BY ReplicaInit
<1>2. StatesAreFinal
  BY DEF Init, StatesAreFinal, EmptyMap
<1>3. LogMatchesRequests
  BY DEF Init, LogMatchesRequests
<1>4. \A r \in Req : Truthful(req[r])
  BY DEF Init, Truthful, IdleHandler
<1> QED
  BY <1>1, <1>2, <1>3, <1>4 DEF OnceInv

\* A step that commits nothing keeps the invariant if a write that was proposed
\* keeps its key and every handler still tells the truth.
LEMMA NothingCommitted ==
  ASSUME OnceInv, ReplicaInv', UNCHANGED <<log, states>>,
         \A r \in Req : req[r].pc \in {"wait", "done"} =>
                          req'[r].pc \in {"wait", "done"} /\ req'[r].key = req[r].key,
         \A r \in Req : Truthful(req'[r])
  PROVE  OnceInv'
<1>1. StatesAreFinal'
  BY DEF OnceInv, StatesAreFinal, Committed
<1>2. LogMatchesRequests'
  <2>1. \A i \in 1 .. Len(log) : log[i].req \in Req
    <3>1. \A i \in 1 .. Len(log) : log[i] \in Command
      BY DEF OnceInv, ReplicaInv, TypeOK
    <3> QED
      BY <3>1 DEF Command
  <2> QED
    BY <2>1 DEF OnceInv, LogMatchesRequests
<1>3. (\A r \in Req : Truthful(req[r]))'
  BY DEF Truthful, Committed
<1> QED
  BY <1>1, <1>2, <1>3 DEF OnceInv

\* Answering with an error, or not at all, is truthful.
LEMMA AnsweredTruthful ==
  ASSUME NEW h \in Handler, NEW reply \in Reply, reply \notin {"OK", "Found"},
         h.key \in Key
  PROVE  Truthful(Answered(h, reply)) /\ Answered(h, reply).key = h.key
                                      /\ Answered(h, reply).pc = "done"
BY AnsweredType DEF Truthful

\* A step that leaves the handlers and the log alone.
LEMMA OnceQuiet ==
  ASSUME OnceInv, ReplicaInv', UNCHANGED <<log, states, req>>
  PROVE  OnceInv'
BY NothingCommitted DEF OnceInv

\* A step that gives one handler another form.
LEMMA OnceReplace ==
  ASSUME OnceInv, ReplicaInv', UNCHANGED <<log, states>>,
         NEW r \in Req, NEW g, req' = [req EXCEPT ![r] = g], Truthful(g),
         req[r].pc \in {"wait", "done"} => g.pc \in {"wait", "done"} /\ g.key = req[r].key
  PROVE  OnceInv'
<1>1. req \in [Req -> Handler]
  BY DEF OnceInv, ReplicaInv, TypeOK
<1>2. \A q \in Req : req'[q] = IF q = r THEN g ELSE req[q]
  BY <1>1
<1>3. \A q \in Req : Truthful(req'[q])
  BY <1>2 DEF OnceInv
<1> QED
  BY <1>2, <1>3, NothingCommitted

\* A step that answers errors to some of the handlers.
LEMMA OnceAnswerSome ==
  ASSUME OnceInv, ReplicaInv', UNCHANGED <<log, states>>,
         NEW A \in SUBSET Req, NEW reply \in Reply, reply \notin {"OK", "Found"},
         \A r \in A : req[r].pc # "idle",
         req' = [r \in Req |-> IF r \in A THEN Answered(req[r], reply) ELSE req[r]]
  PROVE  OnceInv'
<1>1. \A r \in A : req[r] \in Handler /\ req[r].key \in Key
  BY DEF OnceInv, ReplicaInv, TypeOK, Truthful
<1>2. \A r \in A : /\ Truthful(Answered(req[r], reply))
                   /\ Answered(req[r], reply).key = req[r].key
                   /\ Answered(req[r], reply).pc = "done"
  BY <1>1, AnsweredTruthful
<1>3. \A r \in Req : Truthful(req'[r])
  BY <1>2 DEF OnceInv
<1>4. \A r \in Req : req[r].pc \in {"wait", "done"} =>
                       req'[r].pc \in {"wait", "done"} /\ req'[r].key = req[r].key
  BY <1>2
<1> QED
  BY <1>3, <1>4, NothingCommitted
\* The service proposes only adds, so every step keeps the invariant.
LEMMA OnceStep ==
  ASSUME Ops = {"add"}, OnceInv, [Next]_vars
  PROVE  OnceInv'
<1>1. ReplicaInv /\ ReplicaInv'
  BY ReplicaStep DEF OnceInv
<1>2. \A r \in Req : req[r] \in Handler /\ Truthful(req[r])
  BY DEF OnceInv, ReplicaInv, TypeOK
<1>3. \A reply \in {"NotFound", "NotLeader", "ParamsError", "InternalError", "Broken"} :
        reply \in Reply /\ reply \notin {"OK", "Found"}
  BY DEF Reply
<1>4. ASSUME NEW r \in Req, NEW n \in Node, NEW k \in Key, NEW v \in Value,
             handleSet(r, n, "add", k, v)
      PROVE  OnceInv'
  <2> DEFINE h == Begin("add", n, k, v)
  <2>1. h \in Handler /\ h.key = k
    BY BeginType
  <2>2. h.reply = "none"
    BY DEF Begin, IdleHandler
  <2>3. /\ req[r].pc = "idle" /\ UNCHANGED <<log, states>>
        /\ \/ req' = [req EXCEPT ![r] = Answered(h, "NotLeader")]
           \/ req' = [req EXCEPT ![r] = Answered(h, "ParamsError")]
           \/ req' = [req EXCEPT ![r] = [h EXCEPT !.pc = "add"]]
    BY <1>4 DEF handleSet, raftVars
  <2> HIDE DEF h
  <2>4. /\ Truthful(Answered(h, "NotLeader"))
        /\ Truthful(Answered(h, "ParamsError"))
    BY <1>3, <2>1, AnsweredTruthful
  <2>5. Truthful([h EXCEPT !.pc = "add"])
    BY <2>1, <2>2 DEF Truthful, Handler
  <2> QED
    BY <1>1, <2>3, <2>4, <2>5, OnceReplace
<1>5. ASSUME NEW r \in Req, NEW n \in Node, NEW k \in Key, handleGet(r, n, k)
      PROVE  OnceInv'
  <2> DEFINE h == Begin("get", n, k, Nil)
             g == [h EXCEPT !.pc = "read"]
  <2>1. h \in Handler /\ h.key = k
    BY BeginType
  <2>2. h.reply = "none"
    BY DEF Begin, IdleHandler
  <2>3. /\ req[r].pc = "idle" /\ UNCHANGED <<log, states>>
        /\ \/ req' = [req EXCEPT ![r] = Answered(h, "NotLeader")]
           \/ req' = [req EXCEPT ![r] = g]
    BY <1>5 DEF handleGet, raftVars
  <2> HIDE DEF h
  <2>4. Truthful(Answered(h, "NotLeader"))
    BY <1>3, <2>1, AnsweredTruthful
  <2>5. Truthful(g)
    BY <2>1, <2>2 DEF Truthful, Handler
  <2> HIDE DEF g
  <2> QED
    BY <1>1, <2>3, <2>4, <2>5, OnceReplace
<1>6. ASSUME NEW r \in Req, propose(r)
      PROVE  OnceInv'
  <2>1. req[r].pc = "add" /\ UNCHANGED <<log, states>> /\ req[r].key \in Key
    BY <1>2, <1>6 DEF propose, Truthful
  <2>2. CASE req' = [req EXCEPT ![r].pc = "wait"]
    <3>1. Truthful([req[r] EXCEPT !.pc = "wait"])
      BY <1>2, <2>1 DEF Truthful, Handler
    <3> QED
      BY <1>1, <2>1, <2>2, <3>1, OnceReplace
  <2>3. CASE req' = Answer(r, "InternalError")
    <3>1. Truthful(Answered(req[r], "InternalError"))
      BY <1>2, <1>3, <2>1, AnsweredTruthful
    <3> QED
      BY <1>1, <2>1, <2>3, <3>1, OnceReplace DEF Answer
  <2> QED
    BY <1>6, <2>2, <2>3 DEF propose
<1>7. ASSUME NEW r \in Req, Get(r)
      PROVE  OnceInv'
  <2>1. /\ req[r].pc = "read" /\ UNCHANGED <<log, states>>
        /\ req[r].key \in Key /\ req[r].node \in up
    BY <1>1, <1>2, <1>7 DEF Get, raftVars, Truthful, ReplicaInv, HandlerShape, Shape
  <2>2. CASE req' = Answer(r, "NotFound")
    <3>1. Truthful(Answered(req[r], "NotFound"))
      BY <1>2, <1>3, <2>1, AnsweredTruthful
    <3> QED
      BY <1>1, <2>1, <2>2, <3>1, OnceReplace DEF Answer
  <2>3. CASE /\ Local(r) \notin {Nil, EmptyValue}
             /\ req' = [req EXCEPT ![r] = [Answered(req[r], "Found") EXCEPT !.val = Local(r)]]
    <3> DEFINE n == req[r].node
               a == Answered(req[r], "Found")
               g == [a EXCEPT !.val = Local(r)]
    <3>1. /\ applied[n] \in Nat /\ applied[n] <= Len(log)
          /\ m[n] = states[applied[n] + 1] /\ Len(states) = Len(log) + 1
          /\ Len(log) \in Nat
      <4>1. n \in up /\ n \in Node
        BY <1>1, <2>1 DEF ReplicaInv, TypeOK
      <4> HIDE DEF n
      <4> QED
        <5>1. applied[n] \in Nat /\ Len(log) \in Nat /\ Len(states) = Len(log) + 1
          BY <1>1, <4>1 DEF ReplicaInv, TypeOK, StatesFollowLog
        <5>2. applied[n] <= Len(log) /\ m[n] = states[applied[n] + 1]
          BY <1>1, <4>1 DEF ReplicaInv, ReplicaMatchesLog
        <5> QED
          BY <5>1, <5>2
    <3>2. Local(r) = states[applied[n] + 1][req[r].key]
      BY <3>1 DEF Local
    <3>3. applied[n] + 1 \in 1 .. Len(states)
      BY <3>1
    <3>4. Committed[req[r].key] = Local(r)
      BY <2>1, <2>3, <3>2, <3>3 DEF OnceInv, StatesAreFinal
    <3>5. a \in Handler /\ a.key = req[r].key /\ a.pc = "done" /\ a.reply = "Found"
      <4>1. "Found" \in Reply
        BY DEF Reply
      <4> QED
        BY <1>2, <4>1, AnsweredType
    <3> HIDE DEF a
    <3>6. Truthful(g)
      BY <2>1, <2>3, <3>4, <3>5 DEF Truthful, Handler
    <3>7. req' = [req EXCEPT ![r] = g]
      BY <2>3 DEF a
    <3> HIDE DEF g
    <3> QED
      BY <1>1, <2>1, <3>6, <3>7, OnceReplace
  <2> QED
    BY <1>7, <2>2, <2>3 DEF Get
<1>8. ASSUME NEW n \in Node, Elect(n)
      PROVE  OnceInv'
  BY <1>1, <1>8, OnceQuiet DEF Elect
<1>9. ASSUME NEW n \in Node, TakeSnapshot(n) \/ Persist(n) \/ Open(n)
      PROVE  OnceInv'
  <2>1. UNCHANGED <<log, states, req>>
    BY <1>9 DEF TakeSnapshot, Persist, Open, raftVars
  <2> QED
    BY <1>1, <2>1, OnceQuiet
<1>10. ASSUME NEW n \in Node, NEW l \in Node, InstallSnapshot(n, l)
       PROVE  OnceInv'
  <2>1. UNCHANGED <<log, states, req>>
    BY <1>10 DEF InstallSnapshot, raftVars
  <2> QED
    BY <1>1, <2>1, OnceQuiet
<1>11. CASE UNCHANGED vars
  BY <1>1, <1>11, OnceQuiet DEF vars
<1>12. ASSUME NEW n \in Node, StepDown(n)
       PROVE  OnceInv'
  <2>1. PICK j \in applied[n] .. Len(log) :
          req' = [r \in Req |->
                    IF r \in Waiting(n)
                               \ {log[i].req : i \in {i \in 1 .. j : log[i].term <= leadTerm[n]}}
                    THEN Answered(req[r], "InternalError") ELSE req[r]]
    BY <1>12 DEF StepDown
  <2> DEFINE B == Waiting(n)
                    \ {log[i].req : i \in {i \in 1 .. j : log[i].term <= leadTerm[n]}}
  <2>2. B \in SUBSET Req /\ \A r \in B : req[r].pc # "idle"
    BY DEF Waiting
  <2>3. req' = [r \in Req |-> IF r \in B THEN Answered(req[r], "InternalError")
                              ELSE req[r]]
    BY <2>1
  <2>4. UNCHANGED <<log, states>>
    BY <1>12 DEF StepDown, raftVars
  <2> HIDE DEF B
  <2> QED
    BY <1>1, <1>3, <2>2, <2>3, <2>4, OnceAnswerSome
<1>13. ASSUME NEW n \in Node, Crash(n)
       PROVE  OnceInv'
  <2> DEFINE A == {r \in Req : req[r].node = n}
  <2>1. A \in SUBSET Req /\ \A r \in A : req[r].pc # "idle"
    BY <1>1, DBNodeAssumption DEF ReplicaInv, HandlerShape, Shape, IdleHandler
  <2>2. /\ req' = [r \in Req |-> IF r \in A THEN Answered(req[r], "Broken") ELSE req[r]]
        /\ UNCHANGED <<log, states>>
    BY <1>13 DEF Crash, raftVars
  <2> HIDE DEF A
  <2> QED
    BY <1>1, <1>3, <2>1, <2>2, OnceAnswerSome
<1>14. ASSUME NEW n \in Node, Apply(n)
       PROVE  OnceInv'
  <2> DEFINE i == applied[n] + 1
             c == log[i]
  <2>1. /\ i \in 1 .. Len(log) /\ c \in Command /\ i + 1 \in 1 .. Len(states)
        /\ states[i] \in Map
    BY <1>1, <1>14 DEF Apply, ReplicaInv, TypeOK, StatesFollowLog
  <2>2. UNCHANGED <<log, states>>
    BY <1>14 DEF Apply, raftVars
  <2>3. CASE c.req \notin Waiting(n)
    <3>1. req' = req
      BY <1>14, <2>3 DEF Apply
    <3> QED
      BY <1>1, <2>2, <3>1, OnceQuiet
  <2>4. CASE c.req \in Waiting(n)
    <3> DEFINE r == c.req
               a == Answered(req[r], "OK")
    <3>1. r \in Req /\ req' = [req EXCEPT ![r] = a]
      BY <1>14, <2>4 DEF Apply, Answer, Waiting
    <3>2. req[r].key = c.key /\ c.key \in Key
      BY <2>1 DEF OnceInv, LogMatchesRequests, Command
    <3>3. states[i + 1] = Effect(c, states[i])
      BY <1>1, <2>1 DEF ReplicaInv, StatesFollowLog
    <3>4. c.op = "add"
      BY <2>1 DEF Command
    <3>5. states[i + 1][c.key] # Nil
      BY <2>1, <3>3, <3>4, AddIsFinal
    <3>6. Committed[c.key] # Nil
      BY <2>1, <3>2, <3>5 DEF OnceInv, StatesAreFinal
    <3>7. a.key = req[r].key /\ a.pc = "done" /\ a.reply = "OK"
      <4>1. "OK" \in Reply
        BY DEF Reply
      <4> QED
        BY <1>2, <3>1, <4>1, AnsweredType
    <3> HIDE DEF a, r
    <3>8. Truthful(a)
      BY <3>2, <3>6, <3>7 DEF Truthful
    <3> QED
      BY <1>1, <2>2, <3>1, <3>7, <3>8, OnceReplace
  <2> QED
    BY <2>3, <2>4
<1>15. ASSUME NEW n \in Node, NEW r \in Req, Commit(n, r)
       PROVE  OnceInv'
  <2> DEFINE c == CommandOf(r)
             s == Effect(c, Committed)
  <2>1. /\ r \in inflight
        /\ log' = Append(log, c)
        /\ states' = Append(states, s)
        /\ UNCHANGED req
    BY <1>15 DEF Commit
  <2>2. /\ c \in Command /\ c.op = "add" /\ c.req = r /\ c.key = req[r].key
    BY <1>1, <2>1, CommandOfType DEF CommandOf, Command
  <2>3. /\ log \in Seq(Command) /\ states \in Seq(Map) /\ Len(states) = Len(log) + 1
        /\ Committed \in Map /\ s \in Map
    BY <1>1, <2>2, CommittedType, EffectType DEF ReplicaInv, TypeOK, StatesFollowLog
  <2>4. \A k \in Key : Committed[k] # Nil => s[k] = Committed[k]
    BY <2>2, <2>3, AddIsFinal
  <2>5. req[r].pc \in {"wait", "done"}
    BY <1>1, <2>1 DEF ReplicaInv, InflightShape
  <2> HIDE DEF c, s
  <2>6. /\ Len(log') = Len(log) + 1 /\ Len(states') = Len(states) + 1
        /\ \A i \in 1 .. Len(log) : log'[i] = log[i]
        /\ \A i \in 1 .. Len(states) : states'[i] = states[i]
        /\ log'[Len(log) + 1] = c
        /\ states'[Len(states) + 1] = s
    BY <2>1, <2>2, <2>3
  <2>7. Committed' = s
    BY <2>6 DEF Committed
  <2>8. StatesAreFinal'
    <3>1. ASSUME NEW i \in 1 .. Len(states'), NEW k \in Key, states'[i][k] # Nil
          PROVE  Committed'[k] = states'[i][k]
      <4>1. CASE i \in 1 .. Len(states)
        BY <2>4, <2>6, <2>7, <3>1, <4>1 DEF OnceInv, StatesAreFinal
      <4>2. CASE i = Len(states) + 1
        BY <2>6, <2>7, <4>2
      <4> QED
        BY <2>3, <2>6, <4>1, <4>2
    <3> QED
      BY <3>1 DEF StatesAreFinal
  <2>9. LogMatchesRequests'
    <3>1. ASSUME NEW i \in 1 .. Len(log')
          PROVE  req[log'[i].req].pc \in {"wait", "done"} /\ req[log'[i].req].key = log'[i].key
      <4>1. CASE i \in 1 .. Len(log)
        BY <2>6, <4>1 DEF OnceInv, LogMatchesRequests
      <4>2. CASE i = Len(log) + 1
        BY <2>2, <2>5, <2>6, <4>2
      <4> QED
        BY <2>3, <2>6, <4>1, <4>2
    <3> QED
      BY <2>1, <3>1 DEF LogMatchesRequests
  <2>10. (\A q \in Req : Truthful(req[q]))'
    <3>1. ASSUME NEW q \in Req PROVE Truthful(req[q])'
      <4>1. Truthful(req[q])
        BY <1>2
      <4>2. req[q].pc = "idle" => req[q].reply = "none"
        BY <1>1 DEF ReplicaInv, HandlerShape, Shape, IdleHandler
      <4> QED
        BY <2>1, <2>4, <2>7, <4>1, <4>2 DEF Truthful
    <3> QED
      BY <2>1, <3>1
  <2> QED
    BY <1>1, <2>8, <2>9, <2>10 DEF OnceInv
<1> QED
  BY <1>4, <1>5, <1>6, <1>7, <1>8, <1>9, <1>10, <1>11, <1>12, <1>13, <1>14, <1>15
     DEF Next, Quiescent
\* Under the HTTP service the invariant holds in every reachable state.
LEMMA OnceInvariant == ASSUME Ops = {"add"} PROVE Spec => []OnceInv
<1>1. OnceInv /\ [Next]_vars => OnceInv'
  BY OnceStep
<1> QED
  BY <1>1, OnceInit, PTL DEF Spec

\* A write answered StatusOK has its key set by a committed command, whatever
\* crashes, elections and restarts come between (handleSet, Store.Add).
THEOREM AcksAreCommitted == ASSUME Ops = {"add"} PROVE Spec => []AckedIsCommitted
<1>1. OnceInv => AckedIsCommitted
  BY DEF OnceInv, Truthful, AckedIsCommitted
<1> QED
  BY <1>1, OnceInvariant, PTL

\* All values answered to reads of a key, at any node and at any time, are the
\* committed value of the key (handleGet, Store.Get).
THEOREM AllReadsAgree == ASSUME Ops = {"add"} PROVE Spec => []ReadsAgree
<1>1. OnceInv => ReadsAgree
  BY DEF OnceInv, Truthful, ReadsAgree
<1> QED
  BY <1>1, OnceInvariant, PTL

\* The database nodes, serving adds, implement the set-once map of OnceKV: the
\* committed map starts empty, and each step puts an unset key or changes
\* nothing.
THEOREM OnceKVRefinement == ASSUME Ops = {"add"} PROVE Spec => ImplementsOnceKV
<1>1. Init => OKV!Init
  BY DEF Init, OKV!Init, Committed, EmptyMap
<1>2. OnceInv /\ [Next]_vars => [OKV!Next]_Committed
  <2> SUFFICES ASSUME OnceInv, [Next]_vars PROVE [OKV!Next]_Committed
    OBVIOUS
  <2>1. CASE \E n \in Node, r \in Req : Commit(n, r)
    <3>1. PICK n \in Node, r \in Req : Commit(n, r)
      BY <2>1
    <3> DEFINE c == CommandOf(r)
               s == Effect(c, Committed)
    <3>2. r \in inflight /\ states' = Append(states, s)
      BY <3>1 DEF Commit
    <3>3. c \in Command /\ c.op = "add" /\ c.key \in Key /\ c.val \in Value
      BY <3>2, CommandOfType DEF Command, OnceInv
    <3>4. states \in Seq(Map) /\ Committed \in Map /\ s \in Map
      BY <3>3, CommittedType, EffectType DEF OnceInv, ReplicaInv, TypeOK
    <3>5. \/ s = Committed
          \/ Committed[c.key] = Nil /\ s = [Committed EXCEPT ![c.key] = c.val]
      BY <3>3, <3>4, AddIsFinal
    <3> HIDE DEF c, s
    <3>6. Committed' = s
      BY <3>2, <3>4 DEF Committed
    <3> QED
      BY <3>3, <3>5, <3>6 DEF OKV!Next, OKV!Put
  <2>2. CASE ~\E n \in Node, r \in Req : Commit(n, r)
    <3>1. UNCHANGED states
      <4>1. ASSUME NEW r \in Req, NEW n \in Node, NEW k \in Key,
                   \/ handleGet(r, n, k)
                   \/ \E op \in Ops, v \in Value : handleSet(r, n, op, k, v)
            PROVE  UNCHANGED states
        BY <4>1 DEF handleGet, handleSet, raftVars
      <4>2. ASSUME NEW r \in Req, propose(r) \/ Get(r)
            PROVE  UNCHANGED states
        BY <4>2 DEF propose, Get, raftVars
      <4>3. ASSUME NEW n \in Node, Elect(n) \/ StepDown(n) \/ Apply(n)
            PROVE  UNCHANGED states
        BY <4>3 DEF Elect, StepDown, Apply, raftVars
      <4>4. ASSUME NEW n \in Node,
                   \/ TakeSnapshot(n) \/ Persist(n) \/ Crash(n) \/ Open(n)
                   \/ \E l \in Node : InstallSnapshot(n, l)
            PROVE  UNCHANGED states
        BY <4>4 DEF TakeSnapshot, Persist, Crash, Open, InstallSnapshot, raftVars
      <4>5. CASE UNCHANGED vars
        BY <4>5 DEF vars
      <4> QED
        BY <2>2, <4>1, <4>2, <4>3, <4>4, <4>5 DEF Next, Quiescent
    <3> QED
      BY <3>1 DEF Committed
  <2> QED
    BY <2>1, <2>2
<1> QED
  BY <1>1, <1>2, OnceInvariant, PTL DEF Spec, ImplementsOnceKV, OKV!Spec
=============================================================================
