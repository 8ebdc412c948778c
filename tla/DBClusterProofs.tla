-------------------------- MODULE DBClusterProofs --------------------------
(***************************************************************************)
(* Proofs about DBCluster, for any number of nodes, crashes and faults.    *)
(***************************************************************************)
EXTENDS DBCluster, TLAPS

-----------------------------------------------------------------------------
(***************************************************************************)
(* Types.                                                                  *)
(***************************************************************************)
PC == {"down", "registered", "first", "join", "ready", "serving"}
Heartbeat == [on : BOOLEAN, todo : SUBSET Node, dead : SUBSET Node]
Removal == [dead : SUBSET Node, cur : (SUBSET Node) \cup {Nil}]

StartOK ==
  /\ pc \in [Node -> PC] /\ todo \in [Node -> SUBSET Node]
  /\ single \in SUBSET Node /\ booted \in SUBSET Node

RaftOK ==
  /\ asked \in [Node -> Node \cup {Nil}] /\ granted \in [Node -> SUBSET Node]
  /\ joins \in [Node -> SUBSET Entry]
  /\ conf \in [Node -> SUBSET Node] /\ leaders \in SUBSET Node
  /\ dispatched \in SUBSET SUBSET Node

EtcdOK == peers \in SUBSET Node /\ registered \in SUBSET Node
MasterOK == hb \in Heartbeat /\ rem \in Removal
JobsOK == upd \in SUBSET Job
CountOK == crashes \in Nat /\ faults \in Nat

\* The parts of the state make up the whole.
LEMMA TypeParts ==
  /\ TypeOK => StartOK /\ RaftOK /\ EtcdOK /\ MasterOK /\ JobsOK /\ CountOK
  /\ StartOK' /\ RaftOK' /\ EtcdOK' /\ MasterOK' /\ JobsOK' /\ CountOK' => TypeOK'
BY DEF TypeOK, StartOK, RaftOK, EtcdOK, MasterOK, JobsOK, CountOK, PC, Heartbeat, Removal

\* A part that no variable of changes keeps its type.
LEMMA PartsStay ==
  /\ StartOK /\ UNCHANGED startVars => StartOK'
  /\ RaftOK /\ UNCHANGED raftVars => RaftOK'
  /\ EtcdOK /\ UNCHANGED etcdVars => EtcdOK'
  /\ MasterOK /\ UNCHANGED masterVars => MasterOK'
  /\ JobsOK /\ UNCHANGED upd => JobsOK'
  /\ CountOK /\ UNCHANGED <<crashes, faults>> => CountOK'
BY DEF StartOK, RaftOK, EtcdOK, MasterOK, JobsOK, CountOK, startVars, raftVars, etcdVars,
       masterVars

\* The master has nothing to do.
LEMMA IdleType == IdleHeartbeat \in Heartbeat /\ IdleRemoval \in Removal
BY DEF IdleHeartbeat, IdleRemoval, Heartbeat, Removal

\* Initially everything has its type.
LEMMA TypeInit == Init => TypeOK
BY IdleType DEF Init, TypeOK, Heartbeat, Removal

\* A fault is counted.
LEMMA FaultType == CountOK /\ Fault /\ UNCHANGED crashes => CountOK'
BY DEF CountOK, Fault

\* A configuration is a set of nodes.
LEMMA GroupType == ASSUME RaftOK, NEW n \in Node PROVE Group(n) \in SUBSET Node
BY DEF RaftOK, Group

\* A node that exits.
LEMMA ExitType ==
  ASSUME StartOK, RaftOK, JobsOK, NEW n \in Node, Exit(n), conf' \in [Node -> SUBSET Node]
  PROVE  StartOK' /\ RaftOK' /\ JobsOK'
<1>1. StartOK'
  BY DEF StartOK, Exit, PC
<1>2. RaftOK'
  BY DEF RaftOK, Exit
<1>3. JobsOK'
  BY DEF JobsOK, Exit
<1> QED
  BY <1>1, <1>2, <1>3

\* The steps of Start keep the types.
LEMMA StartTypeStep ==
  ASSUME TypeOK, NEW n \in Node, StartStep(n) \/ Crash(n)
  PROVE  TypeOK'
<1>t. StartOK /\ RaftOK /\ EtcdOK /\ MasterOK /\ JobsOK /\ CountOK
  BY TypeParts
<1> SUFFICES StartOK' /\ RaftOK' /\ EtcdOK' /\ MasterOK' /\ JobsOK' /\ CountOK'
  BY TypeParts
<1>1. CASE register(n)
  <2>1. StartOK' /\ EtcdOK'
    BY <1>1, <1>t DEF register, StartOK, EtcdOK, PC
  <2> QED
    BY <1>1, <1>t, <2>1, PartsStay DEF register
<1>2. CASE Open(n)
  <2>1. StartOK'
    BY <1>2, <1>t DEF Open, StartOK, EtcdOK, PC
  <2> QED
    BY <1>2, <1>t, <2>1, PartsStay DEF Open
<1>3. CASE putFirst(n)
  <2>1. StartOK' /\ EtcdOK'
    BY <1>3, <1>t DEF putFirst, StartOK, EtcdOK, PC
  <2> QED
    BY <1>3, <1>t, <2>1, PartsStay DEF putFirst
<1>4. CASE StartFails(n)
  BY <1>4, <1>t, ExitType, FaultType, PartsStay DEF StartFails, RaftOK
<1>5. CASE Run(n)
  <2>1. StartOK'
    BY <1>5, <1>t DEF Run, StartOK, PC
  <2> QED
    BY <1>5, <1>t, <2>1, PartsStay DEF Run
<1>6. CASE JoinGivesUp(n)
  BY <1>6, <1>t, ExitType, PartsStay DEF JoinGivesUp, RaftOK
<1>7. ASSUME NEW p \in Node, tryPeer(n, p)
      PROVE  StartOK' /\ RaftOK' /\ EtcdOK' /\ MasterOK' /\ JobsOK' /\ CountOK'
  <2>1. StartOK'
    BY <1>7, <1>t DEF tryPeer, StartOK
  <2>2. CASE UNCHANGED <<asked, joins, conf, dispatched>>
    BY <1>7, <1>t, <2>1, <2>2, PartsStay DEF tryPeer, RaftOK
  <2>3. CASE /\ asked' = [asked EXCEPT ![n] = p]
             /\ LET S == Group(p) \cup {n} IN
                  /\ joins' = [joins EXCEPT ![p] = @ \cup {[node |-> n, peers |-> S]}]
                  /\ conf' = [conf EXCEPT ![p] = S]
                  /\ dispatched' = dispatched \cup {S}
    <3> DEFINE S == Group(p) \cup {n}
    <3>1. S \in SUBSET Node
      BY <1>t, GroupType
    <3> HIDE DEF S
    <3>2. [node |-> n, peers |-> S] \in Entry
      BY <3>1 DEF Entry
    <3>3. /\ asked' = [asked EXCEPT ![n] = p]
          /\ joins' = [joins EXCEPT ![p] = @ \cup {[node |-> n, peers |-> S]}]
          /\ conf' = [conf EXCEPT ![p] = S]
          /\ dispatched' = dispatched \cup {S}
      BY <2>3 DEF S
    <3>4. RaftOK'
      BY <1>7, <1>t, <3>1, <3>2, <3>3 DEF tryPeer, RaftOK
    <3> QED
      BY <1>7, <1>t, <2>1, <3>4, PartsStay DEF tryPeer
  <2> QED
    BY <1>7, <2>2, <2>3 DEF tryPeer
<1>8. ASSUME NEW e \in joins[n], Join(n, e)
      PROVE  StartOK' /\ RaftOK' /\ EtcdOK' /\ MasterOK' /\ JobsOK' /\ CountOK'
  <2>1. e \in Entry /\ e.node \in Node /\ e.peers \in SUBSET Node
    BY <1>t DEF RaftOK, Entry
  <2>2. granted' \in [Node -> SUBSET Node]
    BY <1>8, <1>t, <2>1 DEF Join, RaftOK
  <2>3. RaftOK'
    BY <1>8, <1>t, <2>1, <2>2 DEF Join, RaftOK
  <2>4. [by |-> n, node |-> e.node, list |-> Nil] \in Job
    BY <2>1 DEF Job
  <2>5. JobsOK'
    BY <1>8, <1>t, <2>4 DEF Join, JobsOK
  <2> QED
    BY <1>8, <1>t, <2>3, <2>5, PartsStay DEF Join
<1>9. CASE Crash(n)
  <2>1. CountOK'
    BY <1>9, <1>t DEF Crash, CountOK
  <2>2. conf' \in [Node -> SUBSET Node]
    BY <1>9, <1>t DEF Crash, RaftOK
  <2> QED
    BY <1>9, <1>t, <2>1, <2>2, ExitType, PartsStay DEF Crash
<1>10. CASE joinAnswered(n)
  <2>1. StartOK' /\ RaftOK'
    BY <1>10, <1>t DEF joinAnswered, StartOK, RaftOK, PC
  <2> QED
    BY <1>10, <1>t, <2>1, PartsStay DEF joinAnswered
<1>11. CASE joinAnswerLost(n)
  <2>1. RaftOK'
    BY <1>11, <1>t DEF joinAnswerLost, RaftOK
  <2>2. CountOK'
    BY <1>11, <1>t, FaultType DEF joinAnswerLost, CountOK
  <2> QED
    BY <1>11, <1>t, <2>1, <2>2, PartsStay DEF joinAnswerLost
<1> QED
  BY <1>1, <1>2, <1>3, <1>4, <1>5, <1>6, <1>7, <1>8, <1>9, <1>10, <1>11 DEF StartStep, Start

\* The steps of raft keep the types.
LEMMA RaftTypeStep ==
  ASSUME TypeOK, NEW n \in Node, RaftStep(n)
  PROVE  TypeOK'
<1>t. StartOK /\ RaftOK /\ EtcdOK /\ MasterOK /\ JobsOK /\ CountOK
  BY TypeParts
<1> SUFFICES RaftOK' /\ CountOK' /\ UNCHANGED <<etcdVars, startVars, upd, masterVars>>
  BY <1>t, TypeParts, PartsStay
<1>g. ASSUME NEW x \in Node PROVE Group(x) \in SUBSET Node
  BY <1>t, GroupType
<1>1. CASE Elect(n)
  <2>1. CountOK'
    BY <1>1, <1>t, FaultType DEF Elect, CountOK
  <2> QED
    BY <1>1, <1>t, <1>g, <2>1 DEF Elect, RaftOK
<1>2. CASE StepDown(n)
  <2>1. CountOK'
    BY <1>2, <1>t, FaultType DEF StepDown, CountOK
  <2> QED
    BY <1>2, <1>t, <2>1 DEF StepDown, RaftOK
<1>3. ASSUME NEW l \in Node, Replicate(l, n)
      PROVE  RaftOK' /\ CountOK' /\ UNCHANGED <<etcdVars, startVars, upd, masterVars>>
  <2>1. Group(l) \ {e.node : e \in joins[l]} \in SUBSET Node
    BY <1>g
  <2> QED
    BY <1>3, <1>t, <2>1, PartsStay DEF Replicate, RaftOK
<1> QED
  BY <1>1, <1>2, <1>3 DEF RaftStep

\* The updatePeers goroutines keep the types.
LEMMA UpdateTypeStep ==
  ASSUME TypeOK, NEW j \in upd, readPeers(j) \/ putPeers(j)
  PROVE  TypeOK'
<1>t. StartOK /\ RaftOK /\ EtcdOK /\ MasterOK /\ JobsOK /\ CountOK
  BY TypeParts
<1>j. j \in Job
  BY <1>t DEF JobsOK
<1>1. CASE readPeers(j)
  <2>1. ListOf(j.by) \in SUBSET Node
    BY <1>t, <1>j DEF ListOf, RaftOK, Job
  <2>2. [j EXCEPT !.list = ListOf(j.by)] \in Job
    BY <1>j, <2>1 DEF Job
  <2>3. JobsOK'
    BY <1>1, <1>t, <2>2 DEF readPeers, JobsOK
  <2>4. CountOK'
    BY <1>1, <1>t, FaultType DEF readPeers, CountOK
  <2> QED
    BY <1>1, <1>t, <2>3, <2>4, TypeParts, PartsStay DEF readPeers
<1>2. CASE putPeers(j)
  <2>1. j.list \in SUBSET Node
    BY <1>2, <1>j DEF putPeers, Job
  <2>2. EtcdOK' /\ JobsOK'
    BY <1>2, <1>t, <2>1 DEF putPeers, EtcdOK, JobsOK
  <2>3. CountOK'
    BY <1>2, <1>t, FaultType DEF putPeers, CountOK
  <2> QED
    BY <1>2, <1>t, <2>2, <2>3, TypeParts, PartsStay DEF putPeers
<1> QED
  BY <1>1, <1>2

\* The master keeps the types.
LEMMA MasterTypeStep ==
  ASSUME TypeOK, MasterStep
  PROVE  TypeOK'
<1>t. StartOK /\ RaftOK /\ EtcdOK /\ MasterOK /\ JobsOK /\ CountOK
  BY TypeParts
<1>u. UNCHANGED <<startVars, raftVars, upd>>
  BY DEF MasterStep, heartbeat, heartbeatEnds, removeFetch, removePut, ping
<1>h. hb \in Heartbeat /\ rem \in Removal
  BY <1>t DEF MasterOK
<1> SUFFICES EtcdOK' /\ MasterOK' /\ CountOK'
  BY <1>t, <1>u, TypeParts, PartsStay
<1>r. ASSUME NEW T \in SUBSET Node, NEW D \in SUBSET Node PROVE Round(T, D) \in Heartbeat
  BY IdleType DEF Round, Heartbeat
<1>1. CASE heartbeat
  BY <1>1, <1>t, <1>r, PartsStay DEF heartbeat, MasterOK, EtcdOK
<1>2. CASE heartbeatEnds
  <2>1. [rem EXCEPT !.dead = hb.dead] \in Removal
    BY <1>h DEF Heartbeat, Removal
  <2> QED
    BY <1>2, <1>t, <2>1, IdleType, PartsStay DEF heartbeatEnds, MasterOK
<1>3. CASE removeFetch
  <2>1. [rem EXCEPT !.cur = peers] \in Removal
    BY <1>t, <1>h DEF EtcdOK, Removal
  <2>2. CountOK'
    BY <1>3, <1>t, FaultType DEF removeFetch, CountOK
  <2> QED
    BY <1>3, <1>t, <2>1, <2>2, IdleType, PartsStay DEF removeFetch, MasterOK
<1>4. CASE removePut
  <2>1. rem.cur \in SUBSET Node
    BY <1>4, <1>h DEF removePut, Removal
  <2>2. EtcdOK'
    BY <1>4, <1>t, <2>1 DEF removePut, EtcdOK
  <2>3. CountOK'
    BY <1>4, <1>t, FaultType DEF removePut, CountOK
  <2> QED
    BY <1>4, <1>t, <2>2, <2>3, IdleType DEF removePut, MasterOK
<1>5. ASSUME NEW p \in Node, ping(p) PROVE EtcdOK' /\ MasterOK' /\ CountOK'
  <2>1. /\ Round(hb.todo \ {p}, hb.dead) \in Heartbeat
        /\ Round(hb.todo \ {p}, hb.dead \cup {p}) \in Heartbeat
    BY <1>h, <1>r DEF Heartbeat
  <2>2. hb' \in Heartbeat /\ UNCHANGED rem
    BY <1>5, <2>1 DEF ping
  <2>3. CountOK'
    BY <1>5, <1>t, FaultType DEF ping, CountOK
  <2> QED
    BY <1>5, <1>t, <2>2, <2>3, PartsStay DEF ping, MasterOK
<1> QED
  BY <1>1, <1>2, <1>3, <1>4, <1>5 DEF MasterStep

\* Every step keeps the types.
LEMMA TypeStep == TypeOK /\ [Next]_vars => TypeOK'
<1> SUFFICES ASSUME TypeOK, [Next]_vars PROVE TypeOK'
  OBVIOUS
<1>1. CASE UNCHANGED vars
  BY <1>1, TypeParts, PartsStay DEF vars
<1> QED
  BY <1>1, StartTypeStep, RaftTypeStep, UpdateTypeStep, MasterTypeStep DEF Next, UpdateStep

\* The list, the addresses, the peers files and the goroutines have their types:
\* in particular every list that is put is one of nodes.
THEOREM TypeCorrect == Spec => []TypeOK
BY TypeInit, TypeStep, PTL DEF Spec

-----------------------------------------------------------------------------
(***************************************************************************)
(* The AddPeer entries: only a leader holds any, and each is one of the    *)
(* configurations in a log, with the new node and the leader in it.        *)
(***************************************************************************)
JoinsAreLed == \A n \in Node : n \notin leaders => joins[n] = {}

EntriesAreDispatched ==
  \A p \in Node : \A e \in joins[p] : e.peers \in dispatched /\ {e.node, p} \subseteq e.peers

EntryInv == TypeOK /\ JoinsAreLed /\ EntriesAreDispatched

\* Initially there are none.
LEMMA EntryInit == Init => EntryInv
BY TypeInit DEF Init, EntryInv, JoinsAreLed, EntriesAreDispatched

\* A step that adds no entry, and takes those of the nodes that cease to lead.
LEMMA EntryFrame ==
  ASSUME EntryInv, TypeOK', dispatched \subseteq dispatched',
         \A p \in Node : joins'[p] \subseteq joins[p],
         \A p \in Node : p \in leaders /\ p \notin leaders' => joins'[p] = {}
  PROVE  EntryInv'
BY DEF EntryInv, JoinsAreLed, EntriesAreDispatched

\* A node that exits leads no longer and holds no entries.
LEMMA EntryExit ==
  ASSUME EntryInv, TypeOK', NEW n \in Node, Exit(n)
  PROVE  EntryInv'
<1>1. joins \in [Node -> SUBSET Entry]
  BY DEF EntryInv, TypeOK
<1>2. \A p \in Node : joins'[p] = IF p = n THEN {} ELSE joins[p]
  BY <1>1 DEF Exit
<1>3. leaders' = leaders \ {n} /\ dispatched' = dispatched
  BY DEF Exit
<1> QED
  BY <1>2, <1>3, EntryFrame

\* What tryToJoin and handleJoin do when the request is accepted.
Accepted(n, p) ==
  /\ p \in Serving /\ p \in leaders /\ n \notin conf[p]
  /\ asked' = [asked EXCEPT ![n] = p]
  /\ joins' = [joins EXCEPT ![p] = @ \cup {[node |-> n, peers |-> Group(p) \cup {n}]}]
  /\ conf' = [conf EXCEPT ![p] = Group(p) \cup {n}]
  /\ dispatched' = dispatched \cup {Group(p) \cup {n}}

\* A request is refused, or accepted.
LEMMA Asked ==
  ASSUME NEW n \in Node, NEW p \in Node, tryPeer(n, p)
  PROVE  /\ pc[n] = "join" /\ UNCHANGED <<etcdVars, pc, single, booted, leaders, upd>>
         /\ UNCHANGED <<asked, joins, conf, dispatched>> \/ Accepted(n, p)
BY DEF tryPeer, Accepted

\* The new node and the leader are in the entry of the request.
LEMMA EntryAsked ==
  ASSUME EntryInv, TypeOK', NEW n \in Node, NEW p \in Node, tryPeer(n, p)
  PROVE  EntryInv'
<1>1. leaders' = leaders
  BY Asked
<1>2. CASE UNCHANGED <<joins, dispatched>>
  BY <1>1, <1>2, EntryFrame
<1>3. CASE Accepted(n, p)
  <2> DEFINE S == Group(p) \cup {n}
  <2>1. {n, p} \subseteq S
    BY DEF Group
  <2>2. joins \in [Node -> SUBSET Entry]
    BY DEF EntryInv, TypeOK
  <2>3. /\ joins' = [joins EXCEPT ![p] = joins[p] \cup {[node |-> n, peers |-> S]}]
        /\ dispatched' = dispatched \cup {S} /\ p \in leaders
    BY <1>3 DEF Accepted
  <2> HIDE DEF S
  <2>4. \A x \in Node : joins'[x] = IF x = p THEN joins[p] \cup {[node |-> n, peers |-> S]}
                                    ELSE joins[x]
    BY <2>2, <2>3
  <2>5. JoinsAreLed'
    BY <1>1, <2>3, <2>4 DEF EntryInv, JoinsAreLed
  <2>6. EntriesAreDispatched'
    BY <2>1, <2>3, <2>4 DEF EntryInv, EntriesAreDispatched
  <2> QED
    BY <2>5, <2>6 DEF EntryInv
<1> QED
  BY <1>2, <1>3, Asked

\* Every step keeps the invariant.
LEMMA EntryStep == EntryInv /\ [Next]_vars => EntryInv'
<1> SUFFICES ASSUME EntryInv, [Next]_vars PROVE EntryInv'
  OBVIOUS
<1> USE DEF startVars, raftVars, masterVars, etcdVars
<1>t. TypeOK' /\ joins \in [Node -> SUBSET Entry]
  BY TypeStep DEF EntryInv, TypeOK
<1>u. UNCHANGED <<joins, leaders, dispatched>> => EntryInv'
  BY <1>t, EntryFrame
<1>1. ASSUME NEW n \in Node, StartStep(n) \/ Crash(n) PROVE EntryInv'
  <2>1. CASE register(n) \/ Open(n) \/ putFirst(n) \/ Run(n) \/ joinAnswered(n) \/ joinAnswerLost(n)
    BY <1>u, <2>1 DEF register, Open, putFirst, Run, joinAnswered, joinAnswerLost
  <2>2. CASE StartFails(n) \/ JoinGivesUp(n) \/ Crash(n)
    BY <1>t, <2>2, EntryExit DEF StartFails, JoinGivesUp, Crash
  <2>3. ASSUME NEW p \in Node, tryPeer(n, p) PROVE EntryInv'
    BY <1>t, <2>3, EntryAsked
  <2>4. ASSUME NEW e \in joins[n], Join(n, e) PROVE EntryInv'
    <3>1. \A x \in Node : joins'[x] \subseteq joins[x]
      BY <1>t, <2>4 DEF Join
    <3> QED
      BY <1>t, <2>4, <3>1, EntryFrame DEF Join
  <2> QED
    BY <1>1, <2>1, <2>2, <2>3, <2>4 DEF StartStep, Start
<1>2. ASSUME NEW n \in Node, RaftStep(n) PROVE EntryInv'
  <2>1. CASE Elect(n)
    BY <1>t, <2>1, EntryFrame DEF Elect
  <2>2. CASE StepDown(n)
    <3>1. \A x \in Node : joins'[x] = IF x = n THEN {} ELSE joins[x]
      BY <1>t, <2>2 DEF StepDown
    <3> QED
      BY <1>t, <2>2, <3>1, EntryFrame DEF StepDown
  <2>3. ASSUME NEW l \in Node, Replicate(l, n) PROVE EntryInv'
    BY <1>u, <2>3 DEF Replicate
  <2> QED
    BY <1>2, <2>1, <2>2, <2>3 DEF RaftStep
<1>3. CASE UpdateStep \/ MasterStep \/ UNCHANGED vars
  BY <1>u, <1>3 DEF UpdateStep, readPeers, putPeers, MasterStep, heartbeat, heartbeatEnds,
                    removeFetch, removePut, ping, vars
<1> QED
  BY <1>1, <1>2, <1>3 DEF Next

\* The invariant of the entries always holds.
LEMMA EntriesHold == Spec => []EntryInv
BY EntryInit, EntryStep, PTL DEF Spec

-----------------------------------------------------------------------------
(***************************************************************************)
(* The answers.  Only a node that is joining awaits one, and what it is    *)
(* granted is a configuration of a log, with itself and the node it asked, *)
(* for as long as the answer is on its way: whether that node steps down,  *)
(* crashes or changes its configuration again meanwhile does not matter.   *)
(***************************************************************************)
AskedIsJoining == \A n \in Node : asked[n] # Nil => pc[n] = "join"

GrantedIsDispatched ==
  \A n \in Node : granted[n] # {} =>
    granted[n] \in dispatched /\ {n, asked[n]} \subseteq granted[n]

GrantInv == EntryInv /\ AskedIsJoining /\ GrantedIsDispatched

\* Initially nobody has asked.
LEMMA GrantInit == Init => GrantInv
BY EntryInit DEF Init, GrantInv, AskedIsJoining, GrantedIsDispatched

\* A node that is not joining awaits nothing, and who has not asked is not granted.
LEMMA NoGrant ==
  ASSUME GrantInv, NEW n \in Node
  PROVE  /\ asked[n] = Nil => granted[n] = {}
         /\ pc[n] # "join" => asked[n] = Nil /\ granted[n] = {}
<1>1. granted[n] \subseteq Node
  BY DEF GrantInv, EntryInv, TypeOK
<1>2. asked[n] = Nil => granted[n] = {}
  BY <1>1, DBClusterAssumption DEF GrantInv, GrantedIsDispatched
<1> QED
  BY <1>2 DEF GrantInv, AskedIsJoining

\* A step in which every node asks no more, asks anew, or is granted what it was.
LEMMA GrantFrame ==
  ASSUME GrantInv, EntryInv', dispatched \subseteq dispatched',
         \A x \in Node :
           \/ asked'[x] = Nil /\ granted'[x] = {}
           \/ pc'[x] = "join" /\ granted'[x] = {}
           \/ asked'[x] = asked[x] /\ granted'[x] = granted[x] /\ (pc'[x] = pc[x] \/ pc[x] # "join")
  PROVE  GrantInv'
<1> SUFFICES ASSUME NEW x \in Node
             PROVE  /\ asked'[x] # Nil => pc'[x] = "join"
                    /\ granted'[x] # {} =>
                         granted'[x] \in dispatched' /\ {x, asked'[x]} \subseteq granted'[x]
  BY DEF GrantInv, AskedIsJoining, GrantedIsDispatched
<1> QED
  BY NoGrant DEF GrantInv, AskedIsJoining, GrantedIsDispatched

\* A node that exits asks no more, nor do those that it has not answered.
LEMMA GrantExit ==
  ASSUME GrantInv, EntryInv', NEW n \in Node, Exit(n)
  PROVE  GrantInv'
<1>1. /\ pc \in [Node -> PC] /\ granted \in [Node -> SUBSET Node]
  BY DEF GrantInv, EntryInv, TypeOK, PC
<1>2. dispatched' = dispatched
  BY DEF Exit
<1>3. asked'[n] = Nil /\ granted'[n] = {}
  BY <1>1 DEF Exit
<1>4. ASSUME NEW x \in Node \ {n}
      PROVE  /\ pc'[x] = pc[x] /\ granted'[x] = granted[x]
             /\ asked'[x] = asked[x] \/ (asked'[x] = Nil /\ granted[x] = {})
  BY <1>1 DEF Exit, Awaits
<1> QED
  BY <1>2, <1>3, <1>4, GrantFrame

\* An entry commits: if its node has asked p and waits, it is granted the
\* configuration of the entry, which has both.
LEMMA GrantJoins ==
  ASSUME GrantInv, EntryInv', NEW p \in Node, NEW e \in joins[p], Join(p, e)
  PROVE  GrantInv'
<1>1. e.node \in Node /\ e.peers \in dispatched /\ {e.node, p} \subseteq e.peers
  BY DEF GrantInv, EntryInv, TypeOK, EntriesAreDispatched, Entry
<1>2. UNCHANGED <<pc, asked, dispatched>>
  BY DEF Join, startVars
<1>3. \A x \in Node : granted'[x] = IF x = e.node /\ asked[x] = p THEN e.peers ELSE granted[x]
  BY DEF Join
<1>4. AskedIsJoining'
  BY <1>2 DEF GrantInv, AskedIsJoining
<1>5. GrantedIsDispatched'
  BY <1>1, <1>2, <1>3 DEF GrantInv, GrantedIsDispatched
<1> QED
  BY <1>4, <1>5 DEF GrantInv

\* Every step keeps the invariant.
LEMMA GrantStep == GrantInv /\ [Next]_vars => GrantInv'
<1> SUFFICES ASSUME GrantInv, [Next]_vars PROVE GrantInv'
  OBVIOUS
<1> USE DEF startVars, raftVars, masterVars, etcdVars
<1>e. EntryInv'
  BY EntryStep DEF GrantInv
<1>t. /\ pc \in [Node -> PC] /\ asked \in [Node -> Node \cup {Nil}]
      /\ granted \in [Node -> SUBSET Node]
  BY DEF GrantInv, EntryInv, TypeOK, PC
<1>u. UNCHANGED <<pc, asked, granted>> /\ dispatched \subseteq dispatched' => GrantInv'
  BY <1>e, GrantFrame
<1>1. ASSUME NEW n \in Node, StartStep(n) \/ Crash(n) PROVE GrantInv'
  <2>1. CASE register(n) \/ Open(n) \/ putFirst(n) \/ Run(n)
    <3>1. pc[n] # "join" /\ UNCHANGED <<asked, granted, dispatched>>
      BY <2>1 DEF register, Open, putFirst, Run
    <3>2. \A x \in Node \ {n} : pc'[x] = pc[x]
      BY <1>t, <2>1 DEF register, Open, putFirst, Run
    <3> QED
      BY <1>e, <3>1, <3>2, GrantFrame
  <2>2. CASE StartFails(n) \/ JoinGivesUp(n) \/ Crash(n)
    BY <1>e, <2>2, GrantExit DEF StartFails, JoinGivesUp, Crash
  <2>3. ASSUME NEW p \in Node, tryPeer(n, p) PROVE GrantInv'
    <3>1. pc[n] = "join" /\ asked[n] = Nil /\ UNCHANGED <<pc, granted>>
      BY <2>3 DEF tryPeer
    <3>2. granted[n] = {}
      BY <3>1, NoGrant
    <3>3. dispatched \subseteq dispatched' /\ \A x \in Node \ {n} : asked'[x] = asked[x]
      BY <1>t, <2>3 DEF tryPeer
    <3> QED
      BY <1>e, <3>1, <3>2, <3>3, GrantFrame
  <2>4. ASSUME NEW e \in joins[n], Join(n, e) PROVE GrantInv'
    BY <1>e, <2>4, GrantJoins
  <2>5. CASE joinAnswered(n) \/ joinAnswerLost(n)
    <3>1. asked'[n] = Nil /\ granted'[n] = {} /\ dispatched' = dispatched
      BY <1>t, <2>5 DEF joinAnswered, joinAnswerLost
    <3>2. \A x \in Node \ {n} : /\ asked'[x] = asked[x] /\ granted'[x] = granted[x]
                                /\ pc'[x] = pc[x]
      BY <1>t, <2>5 DEF joinAnswered, joinAnswerLost
    <3> QED
      BY <1>e, <3>1, <3>2, GrantFrame
  <2> QED
    BY <1>1, <2>1, <2>2, <2>3, <2>4, <2>5 DEF StartStep, Start
<1>2. ASSUME NEW n \in Node, RaftStep(n) PROVE GrantInv'
  <2>1. CASE Elect(n)
    BY <1>u, <2>1 DEF Elect
  <2>2. CASE StepDown(n)
    <3>1. UNCHANGED <<pc, granted, dispatched>>
      BY <2>2 DEF StepDown
    <3>2. \A x \in Node : asked'[x] = asked[x] \/ (asked'[x] = Nil /\ granted[x] = {})
      BY <2>2 DEF StepDown, Awaits
    <3> QED
      BY <1>e, <3>1, <3>2, GrantFrame
  <2>3. ASSUME NEW l \in Node, Replicate(l, n) PROVE GrantInv'
    BY <1>u, <2>3 DEF Replicate
  <2> QED
    BY <1>2, <2>1, <2>2, <2>3 DEF RaftStep
<1>3. CASE UpdateStep \/ MasterStep \/ UNCHANGED vars
  BY <1>u, <1>3 DEF UpdateStep, readPeers, putPeers, MasterStep, heartbeat, heartbeatEnds,
                    removeFetch, removePut, ping, vars
<1> QED
  BY <1>1, <1>2, <1>3 DEF Next

\* The invariant of the answers always holds.
LEMMA GrantsHold == Spec => []GrantInv
BY GrantInit, GrantStep, PTL DEF Spec

\* Only an answer lets a node that is joining go on.
LEMMA JoinedStep ==
  ASSUME GrantInv, [Next]_vars, NEW n \in Node, pc[n] = "join", pc'[n] = "ready"
  PROVE  granted[n] # {}
<1> USE DEF startVars, raftVars, masterVars, etcdVars
<1>t. pc \in [Node -> PC]
  BY DEF GrantInv, EntryInv, TypeOK, PC
<1>1. ASSUME NEW x \in Node, StartStep(x) \/ Crash(x) PROVE granted[n] # {}
  <2>1. CASE register(x) \/ Open(x) \/ putFirst(x) \/ Run(x) \/ joinAnswerLost(x)
    BY <1>t, <2>1 DEF register, Open, putFirst, Run, joinAnswerLost
  <2>2. CASE StartFails(x) \/ JoinGivesUp(x) \/ Crash(x)
    BY <1>t, <2>2 DEF StartFails, JoinGivesUp, Crash, Exit
  <2>3. ASSUME NEW p \in Node, tryPeer(x, p) PROVE FALSE
    BY <2>3, Asked
  <2>4. ASSUME NEW e \in joins[x], Join(x, e) PROVE FALSE
    BY <2>4 DEF Join
  <2>5. CASE joinAnswered(x)
    BY <1>t, <2>5 DEF joinAnswered
  <2> QED
    BY <1>1, <2>1, <2>2, <2>3, <2>4, <2>5 DEF StartStep, Start
<1>2. ASSUME NEW x \in Node, RaftStep(x) PROVE FALSE
  BY <1>2 DEF RaftStep, Elect, StepDown, Replicate
<1>3. CASE UpdateStep \/ MasterStep \/ UNCHANGED vars
  BY <1>3 DEF UpdateStep, readPeers, putPeers, MasterStep, heartbeat, heartbeatEnds,
              removeFetch, removePut, ping, vars
<1> QED
  BY <1>1, <1>2, <1>3 DEF Next

-----------------------------------------------------------------------------
(***************************************************************************)
(* Members are registered.  A node comes into a configuration by asking    *)
(* for it, by taking another one in, or by electing itself; all three are  *)
(* done by a node that has been through register, addresses are never      *)
(* taken away, and what a log or a file holds was a configuration before.  *)
(***************************************************************************)
StartedIsRegistered ==
  leaders \subseteq registered /\ \A n \in Node : pc[n] # "down" => n \in registered

DispatchedIsRegistered == \A S \in dispatched : S \subseteq registered

RegisteredInv ==
  EntryInv /\ StartedIsRegistered /\ DispatchedIsRegistered /\ MembersAreRegistered

\* The invariant holds initially.
LEMMA RegisteredInit == Init => RegisteredInv
BY EntryInit DEF Init, RegisteredInv, StartedIsRegistered, DispatchedIsRegistered,
                 MembersAreRegistered

\* A step after which nobody new runs, and no one unknown is in a configuration.
LEMMA RegisteredFrame ==
  ASSUME RegisteredInv, EntryInv', registered \subseteq registered',
         leaders' \subseteq leaders \cup registered',
         \A x \in Node : pc'[x] # "down" => pc[x] # "down" \/ x \in registered',
         \A S \in dispatched' : S \subseteq registered',
         \A x \in Node : conf'[x] \subseteq registered'
  PROVE  RegisteredInv'
BY DEF RegisteredInv, StartedIsRegistered, DispatchedIsRegistered, MembersAreRegistered

\* A node that exits is down; its file holds what it held, or an older
\* configuration.
LEMMA RegisteredExit ==
  ASSUME RegisteredInv, EntryInv', NEW n \in Node, Exit(n), UNCHANGED registered,
         UNCHANGED conf \/ \E S \in dispatched : conf' = [conf EXCEPT ![n] = S]
  PROVE  RegisteredInv'
<1>1. pc \in [Node -> PC] /\ conf \in [Node -> SUBSET Node]
  BY DEF RegisteredInv, EntryInv, TypeOK, PC
<1>2. \A x \in Node : pc'[x] = IF x = n THEN "down" ELSE pc[x]
  BY <1>1 DEF Exit
<1>3. dispatched' = dispatched /\ leaders' = leaders \ {n}
  BY DEF Exit
<1>4. \A x \in Node : conf'[x] \subseteq registered
  BY <1>1 DEF RegisteredInv, DispatchedIsRegistered, MembersAreRegistered
<1> QED
  BY <1>2, <1>3, <1>4, RegisteredFrame DEF RegisteredInv, DispatchedIsRegistered

\* The configuration of a node that runs or leads is registered.
LEMMA RegisteredGroup ==
  ASSUME RegisteredInv, NEW n \in Node, pc[n] # "down" \/ n \in leaders
  PROVE  Group(n) \subseteq registered
BY DEF RegisteredInv, StartedIsRegistered, MembersAreRegistered, Group

\* The steps of Start keep the invariant.
LEMMA RegisteredStartStep ==
  ASSUME RegisteredInv, GrantInv, EntryInv', NEW n \in Node, StartStep(n) \/ Crash(n)
  PROVE  RegisteredInv'
<1> USE DEF startVars, raftVars, masterVars, etcdVars
<1>p. /\ pc \in [Node -> PC] /\ conf \in [Node -> SUBSET Node]
      /\ joins \in [Node -> SUBSET Entry]
  BY DEF RegisteredInv, EntryInv, TypeOK, PC
<1>m. /\ \A S \in dispatched : S \subseteq registered
      /\ \A x \in Node : conf[x] \subseteq registered
  BY DEF RegisteredInv, DispatchedIsRegistered, MembersAreRegistered
<1>1. CASE register(n)
  <2>1. \A x \in Node : pc'[x] = IF x = n THEN "registered" ELSE pc[x]
    BY <1>1, <1>p DEF register
  <2>2. registered' = registered \cup {n} /\ UNCHANGED <<conf, dispatched, leaders>>
    BY <1>1 DEF register
  <2> QED
    BY <1>m, <2>1, <2>2, RegisteredFrame
<1>2. CASE Open(n) \/ putFirst(n) \/ Run(n) \/ joinAnswered(n) \/ joinAnswerLost(n)
  <2>1. pc[n] # "down"
    BY <1>2, NoGrant DEF Open, putFirst, Run, joinAnswered, joinAnswerLost
  <2>2. UNCHANGED <<conf, dispatched, registered, leaders>>
    BY <1>2 DEF Open, putFirst, Run, joinAnswered, joinAnswerLost
  <2>3. \A x \in Node \ {n} : pc'[x] = pc[x]
    BY <1>2, <1>p DEF Open, putFirst, Run, joinAnswered, joinAnswerLost
  <2> QED
    BY <1>m, <2>1, <2>2, <2>3, RegisteredFrame
<1>3. CASE StartFails(n) \/ JoinGivesUp(n) \/ Crash(n)
  BY <1>3, RegisteredExit DEF StartFails, JoinGivesUp, Crash
<1>4. ASSUME NEW p \in Node, tryPeer(n, p) PROVE RegisteredInv'
  <2>1. pc[n] = "join" /\ UNCHANGED <<pc, registered, leaders>>
    BY <1>4, Asked
  <2>2. CASE UNCHANGED <<conf, dispatched>>
    BY <1>m, <2>1, <2>2, RegisteredFrame
  <2>3. CASE Accepted(n, p)
    <3> DEFINE S == Group(p) \cup {n}
    <3>1. n \in registered
      BY <2>1 DEF RegisteredInv, StartedIsRegistered
    <3>2. Group(p) \subseteq registered
      BY <2>3, RegisteredGroup DEF Accepted, Serving
    <3>3. S \subseteq registered
      BY <3>1, <3>2
    <3>4. conf' = [conf EXCEPT ![p] = S] /\ dispatched' = dispatched \cup {S}
      BY <2>3 DEF Accepted
    <3> HIDE DEF S
    <3> QED
      BY <1>p, <1>m, <2>1, <3>3, <3>4, RegisteredFrame
  <2> QED
    BY <1>4, <2>2, <2>3, Asked
<1>5. ASSUME NEW e \in joins[n], Join(n, e) PROVE RegisteredInv'
  <2>1. e.peers \subseteq registered /\ e.node \in e.peers /\ e.node \in Node
    BY <1>p, <1>m DEF RegisteredInv, EntryInv, EntriesAreDispatched, Entry
  <2>2. UNCHANGED <<pc, registered, dispatched, leaders>> /\ conf' = [conf EXCEPT ![n] = e.peers]
    BY <1>5 DEF Join
  <2>3. \A x \in Node : conf'[x] \subseteq registered
    BY <1>p, <1>m, <2>1, <2>2
  <2> QED
    BY <1>m, <2>2, <2>3, RegisteredFrame
<1> QED
  BY <1>1, <1>2, <1>3, <1>4, <1>5 DEF StartStep, Start

\* The steps of raft keep the invariant.
LEMMA RegisteredRaftStep ==
  ASSUME RegisteredInv, EntryInv', NEW n \in Node, RaftStep(n)
  PROVE  RegisteredInv'
<1> USE DEF startVars, raftVars, masterVars, etcdVars
<1>p. conf \in [Node -> SUBSET Node]
  BY DEF RegisteredInv, EntryInv, TypeOK
<1>m. /\ \A S \in dispatched : S \subseteq registered
      /\ \A x \in Node : conf[x] \subseteq registered
  BY DEF RegisteredInv, DispatchedIsRegistered, MembersAreRegistered
<1>1. CASE Elect(n)
  <2>1. Group(n) \subseteq registered
    BY <1>1, RegisteredGroup DEF Elect, Running
  <2>2. n \in registered
    BY <2>1 DEF Group
  <2> QED
    BY <1>1, <1>m, <2>1, <2>2, RegisteredFrame DEF Elect
<1>2. CASE StepDown(n)
  BY <1>2, <1>m, RegisteredFrame DEF StepDown
<1>3. ASSUME NEW l \in Node, Replicate(l, n) PROVE RegisteredInv'
  <2>1. l \in leaders
    BY <1>3 DEF Replicate
  <2>2. UNCHANGED <<registered, pc, dispatched, leaders>>
    BY <1>3 DEF Replicate
  <2>3. Group(l) \subseteq registered
    BY <2>1, RegisteredGroup
  <2>4. \A x \in Node : conf'[x] \subseteq registered
    BY <1>3, <1>p, <1>m, <2>3 DEF Replicate
  <2> QED
    BY <1>m, <2>2, <2>4, RegisteredFrame
<1> QED
  BY <1>1, <1>2, <1>3 DEF RaftStep

\* Every step keeps the invariant.
LEMMA RegisteredStep == RegisteredInv /\ GrantInv /\ [Next]_vars => RegisteredInv'
<1> SUFFICES ASSUME RegisteredInv, GrantInv, [Next]_vars PROVE RegisteredInv'
  OBVIOUS
<1>t. EntryInv'
  BY EntryStep DEF RegisteredInv
<1>1. CASE UpdateStep \/ MasterStep \/ UNCHANGED vars
  <2>1. UNCHANGED <<pc, conf, dispatched, leaders, registered>>
    BY <1>1 DEF UpdateStep, readPeers, putPeers, MasterStep, heartbeat, heartbeatEnds,
                removeFetch, removePut, ping, vars, startVars, raftVars, etcdVars
  <2> QED
    BY <1>t, <2>1, RegisteredFrame
       DEF RegisteredInv, DispatchedIsRegistered, MembersAreRegistered
<1> QED
  BY <1>t, <1>1, RegisteredStartStep, RegisteredRaftStep DEF Next

\* updatePeers never meets a peer without an HTTP address, whatever nodes crash,
\* restart, are refused or come back with an old peers file.
THEOREM MembersHaveAddresses == Spec => []MembersAreRegistered
<1>1. RegisteredInv => MembersAreRegistered
  BY DEF RegisteredInv
<1> QED
  BY <1>1, RegisteredInit, RegisteredStep, GrantsHold, PTL DEF Spec

-----------------------------------------------------------------------------
(***************************************************************************)
(* One boot, one group.  Every configuration that a leader, a file or a    *)
(* log has contains a founder: a node that once found the list empty.  For *)
(* a leader this is not enough: it may return to the configuration of an   *)
(* entry that commits late, and its followers take over its configuration  *)
(* without the nodes whose entries are not committed.  So one founder is   *)
(* in its group, in every entry that it holds, and is not waiting in any.  *)
(***************************************************************************)
SingleIsFounder == single \subseteq booted

LogsHaveFounder == \A S \in dispatched : S \cap booted # {}

FilesHaveFounder == \A n \in Node : conf[n] # {} => conf[n] \cap booted # {}

\* The node g is settled in the group of l.
Settled(g, l) == g \in Group(l) /\ \A e \in joins[l] : g \in e.peers /\ e.node # g

LeadersHaveFounder == \A l \in leaders : \E g \in booted : Settled(g, l)

FounderInv ==
  EntryInv /\ SingleIsFounder /\ LogsHaveFounder /\ FilesHaveFounder /\ LeadersHaveFounder

\* The invariant holds initially.
LEMMA FounderInit == Init => FounderInv
BY EntryInit DEF Init, FounderInv, SingleIsFounder, LogsHaveFounder, FilesHaveFounder,
                 LeadersHaveFounder

\* A step that changes no configuration of a leader and adds none.
LEMMA FounderFrame ==
  ASSUME FounderInv, EntryInv', booted \subseteq booted', single' \subseteq single \cup booted',
         dispatched' \subseteq dispatched, leaders' \subseteq leaders,
         \A l \in leaders' : conf'[l] = conf[l] /\ joins'[l] = joins[l],
         \A x \in Node : conf'[x] = conf[x] \/ conf'[x] \cap booted # {}
  PROVE  FounderInv'
<1>1. SingleIsFounder' /\ LogsHaveFounder' /\ FilesHaveFounder'
  BY DEF FounderInv, SingleIsFounder, LogsHaveFounder, FilesHaveFounder
<1>2. LeadersHaveFounder'
  BY DEF FounderInv, LeadersHaveFounder, Settled, Group
<1> QED
  BY <1>1, <1>2 DEF FounderInv

\* A node that exits may be left with the file of an older configuration.
LEMMA FounderExit ==
  ASSUME FounderInv, EntryInv', NEW n \in Node, Exit(n),
         UNCHANGED conf \/ \E S \in dispatched : conf' = [conf EXCEPT ![n] = S]
  PROVE  FounderInv'
<1>1. conf \in [Node -> SUBSET Node] /\ joins \in [Node -> SUBSET Entry] /\ leaders \subseteq Node
  BY DEF FounderInv, EntryInv, TypeOK
<1>2. /\ leaders' = leaders \ {n} /\ single' = single \ {n}
      /\ UNCHANGED <<dispatched, booted>>
      /\ joins' = [joins EXCEPT ![n] = {}]
  BY DEF Exit
<1>3. \A x \in Node \ {n} : conf'[x] = conf[x] /\ joins'[x] = joins[x]
  BY <1>1, <1>2
<1>4. conf'[n] = conf[n] \/ conf'[n] \cap booted # {}
  BY <1>1 DEF FounderInv, LogsHaveFounder
<1> QED
  BY <1>1, <1>2, <1>3, <1>4, FounderFrame

\* A request that is accepted: the founder of p is not the new node, which is
\* neither p nor one of its peers.
LEMMA FounderAccepts ==
  ASSUME FounderInv, EntryInv', NEW n \in Node, NEW p \in Node, pc[n] = "join",
         Accepted(n, p), UNCHANGED <<booted, single, leaders>>
  PROVE  FounderInv'
<1> DEFINE S == Group(p) \cup {n}
<1>1. conf \in [Node -> SUBSET Node] /\ joins \in [Node -> SUBSET Entry]
  BY DEF FounderInv, EntryInv, TypeOK
<1>2. PICK g \in booted : Settled(g, p)
  BY DEF Accepted, FounderInv, LeadersHaveFounder
<1>3. g \in S /\ g # n /\ g \in Group(p)
  BY <1>2 DEF Settled, Group, Accepted, Serving
<1>4. /\ conf' = [conf EXCEPT ![p] = S] /\ dispatched' = dispatched \cup {S}
      /\ joins' = [joins EXCEPT ![p] = joins[p] \cup {[node |-> n, peers |-> S]}]
  BY DEF Accepted
<1> HIDE DEF S
<1>5. /\ conf'[p] = S /\ joins'[p] = joins[p] \cup {[node |-> n, peers |-> S]}
      /\ \A x \in Node \ {p} : conf'[x] = conf[x] /\ joins'[x] = joins[x]
  BY <1>1, <1>4
<1>6. SingleIsFounder' /\ LogsHaveFounder' /\ FilesHaveFounder'
  BY <1>3, <1>4, <1>5 DEF FounderInv, SingleIsFounder, LogsHaveFounder, FilesHaveFounder
<1>7. Settled(g, p)'
  BY <1>2, <1>3, <1>5 DEF Settled, Group
<1>8. ASSUME NEW l \in leaders', l # p PROVE \E h \in booted' : Settled(h, l)'
  <2>1. l \in leaders /\ l \in Node
    BY <1>8 DEF FounderInv, EntryInv, TypeOK
  <2>2. PICK h \in booted : Settled(h, l)
    BY <2>1 DEF FounderInv, LeadersHaveFounder
  <2>3. Settled(h, l)'
    BY <1>5, <1>8, <2>1, <2>2 DEF Settled, Group
  <2> QED
    BY <2>3
<1>9. LeadersHaveFounder'
  BY <1>7, <1>8 DEF LeadersHaveFounder
<1> QED
  BY <1>6, <1>9 DEF FounderInv

\* An entry commits: the founder of p is in its configuration.
LEMMA FounderJoins ==
  ASSUME FounderInv, EntryInv', NEW p \in Node, NEW e \in joins[p], Join(p, e)
  PROVE  FounderInv'
<1>1. conf \in [Node -> SUBSET Node] /\ joins \in [Node -> SUBSET Entry]
  BY DEF FounderInv, EntryInv, TypeOK
<1>2. p \in leaders
  BY DEF FounderInv, EntryInv, JoinsAreLed
<1>3. PICK g \in booted : Settled(g, p)
  BY <1>2 DEF FounderInv, LeadersHaveFounder
<1>4. /\ UNCHANGED <<booted, single, leaders, dispatched>>
      /\ joins' = [joins EXCEPT ![p] = joins[p] \ {e}]
      /\ conf' = [conf EXCEPT ![p] = e.peers]
  BY DEF Join, startVars
<1>5. /\ conf'[p] = e.peers /\ joins'[p] \subseteq joins[p]
      /\ \A x \in Node \ {p} : conf'[x] = conf[x] /\ joins'[x] = joins[x]
  BY <1>1, <1>4
<1>6. SingleIsFounder' /\ LogsHaveFounder' /\ FilesHaveFounder'
  BY <1>3, <1>4, <1>5
     DEF FounderInv, SingleIsFounder, LogsHaveFounder, FilesHaveFounder, Settled
<1>7. Settled(g, p)'
  BY <1>3, <1>5 DEF Settled, Group
<1>8. ASSUME NEW l \in leaders', l # p PROVE \E h \in booted' : Settled(h, l)'
  <2>1. l \in leaders /\ l \in Node
    BY <1>4, <1>8 DEF FounderInv, EntryInv, TypeOK
  <2>2. PICK h \in booted : Settled(h, l)
    BY <2>1 DEF FounderInv, LeadersHaveFounder
  <2>3. Settled(h, l)'
    BY <1>5, <1>8, <2>1, <2>2 DEF Settled, Group
  <2> QED
    BY <1>4, <2>3
<1>9. LeadersHaveFounder'
  BY <1>4, <1>7, <1>8 DEF LeadersHaveFounder
<1> QED
  BY <1>6, <1>9 DEF FounderInv

\* The steps of Start keep the invariant.
LEMMA FounderStartStep ==
  ASSUME FounderInv, EntryInv', NEW n \in Node, StartStep(n) \/ Crash(n)
  PROVE  FounderInv'
<1> USE DEF startVars, raftVars, masterVars, etcdVars
<1>1. CASE register(n) \/ putFirst(n) \/ Run(n) \/ joinAnswered(n) \/ joinAnswerLost(n)
  BY <1>1, FounderFrame DEF register, putFirst, Run, joinAnswered, joinAnswerLost
<1>2. CASE Open(n)
  <2>1. booted \subseteq booted' /\ single' \subseteq single \cup booted'
    BY <1>2 DEF Open
  <2> QED
    BY <1>2, <2>1, FounderFrame DEF Open
<1>3. CASE StartFails(n) \/ JoinGivesUp(n) \/ Crash(n)
  BY <1>3, FounderExit DEF StartFails, JoinGivesUp, Crash
<1>4. ASSUME NEW p \in Node, tryPeer(n, p) PROVE FounderInv'
  <2>1. pc[n] = "join" /\ UNCHANGED <<booted, single, leaders>>
    BY <1>4, Asked
  <2>2. CASE UNCHANGED <<asked, joins, conf, dispatched>>
    BY <2>1, <2>2, FounderFrame
  <2>3. CASE Accepted(n, p)
    BY <2>1, <2>3, FounderAccepts
  <2> QED
    BY <1>4, <2>2, <2>3, Asked
<1>5. ASSUME NEW e \in joins[n], Join(n, e) PROVE FounderInv'
  BY <1>5, FounderJoins
<1> QED
  BY <1>1, <1>2, <1>3, <1>4, <1>5 DEF StartStep, Start

\* A node that is elected has a founder among its peers, or is one.
LEMMA FounderElects ==
  ASSUME FounderInv, EntryInv', NEW n \in Node, Elect(n)
  PROVE  FounderInv'
<1>1. PICK g \in booted : g \in Group(n)
  BY DEF Elect, FounderInv, SingleIsFounder, FilesHaveFounder, Group
<1>2. /\ leaders' = leaders \cup {n} /\ dispatched' = dispatched \cup {Group(n)}
      /\ UNCHANGED <<booted, single, conf, joins>> /\ joins[n] = {}
  BY DEF Elect, startVars, FounderInv, EntryInv, JoinsAreLed
<1>3. SingleIsFounder' /\ LogsHaveFounder' /\ FilesHaveFounder'
  BY <1>1, <1>2 DEF FounderInv, SingleIsFounder, LogsHaveFounder, FilesHaveFounder
<1>4. Settled(g, n)
  BY <1>1, <1>2 DEF Settled
<1>5. LeadersHaveFounder'
  BY <1>2, <1>4 DEF FounderInv, LeadersHaveFounder, Settled, Group
<1> QED
  BY <1>3, <1>5 DEF FounderInv

\* The steps of raft keep the invariant.
LEMMA FounderRaftStep ==
  ASSUME FounderInv, EntryInv', NEW n \in Node, RaftStep(n)
  PROVE  FounderInv'
<1> USE DEF startVars, raftVars, masterVars, etcdVars
<1>p. /\ conf \in [Node -> SUBSET Node] /\ joins \in [Node -> SUBSET Entry]
      /\ leaders \subseteq Node
  BY DEF FounderInv, EntryInv, TypeOK
<1>1. CASE StepDown(n)
  <2>1. \A l \in leaders' : joins'[l] = joins[l]
    BY <1>1, <1>p DEF StepDown
  <2> QED
    BY <1>1, <2>1, FounderFrame DEF StepDown
<1>2. ASSUME NEW l \in Node, Replicate(l, n) PROVE FounderInv'
  <2>1. l \in leaders /\ (n = l \/ n \notin leaders)
    BY <1>2 DEF Replicate
  <2>2. PICK g \in booted : Settled(g, l)
    BY <2>1 DEF FounderInv, LeadersHaveFounder
  <2>3. g \in Group(l) \ {e.node : e \in joins[l]}
    BY <2>2 DEF Settled
  <2>4. conf' = [conf EXCEPT ![n] = Group(l) \ {e.node : e \in joins[l]}]
    BY <1>2 DEF Replicate
  <2>5. g \in conf'[n] /\ \A x \in Node \ {n} : conf'[x] = conf[x]
    BY <1>p, <2>3, <2>4
  <2>6. UNCHANGED <<booted, single, dispatched, leaders, joins>>
    BY <1>2 DEF Replicate
  <2>7. SingleIsFounder' /\ LogsHaveFounder' /\ FilesHaveFounder'
    BY <2>5, <2>6 DEF FounderInv, SingleIsFounder, LogsHaveFounder, FilesHaveFounder
  <2>8. n = l => Settled(g, n)'
    BY <2>2, <2>5, <2>6 DEF Settled, Group
  <2>9. ASSUME NEW x \in leaders', x # n PROVE \E h \in booted' : Settled(h, x)'
    <3>1. x \in leaders /\ x \in Node
      BY <1>p, <2>6, <2>9
    <3>2. PICK h \in booted : Settled(h, x)
      BY <3>1 DEF FounderInv, LeadersHaveFounder
    <3>3. Settled(h, x)'
      BY <2>5, <2>6, <2>9, <3>1, <3>2 DEF Settled, Group
    <3> QED
      BY <2>6, <3>3
  <2>10. LeadersHaveFounder'
    BY <2>1, <2>6, <2>8, <2>9 DEF LeadersHaveFounder
  <2> QED
    BY <2>7, <2>10 DEF FounderInv
<1> QED
  BY <1>1, <1>2, FounderElects DEF RaftStep

\* Every step keeps the invariant.
LEMMA FounderStep == FounderInv /\ [Next]_vars => FounderInv'
<1> SUFFICES ASSUME FounderInv, [Next]_vars PROVE FounderInv'
  OBVIOUS
<1>t. EntryInv'
  BY EntryStep DEF FounderInv
<1>1. CASE UpdateStep \/ MasterStep \/ UNCHANGED vars
  <2>1. UNCHANGED <<startVars, raftVars>>
    BY <1>1 DEF UpdateStep, readPeers, putPeers, MasterStep, heartbeat, heartbeatEnds,
                removeFetch, removePut, ping, vars
  <2> QED
    BY <1>t, <2>1, FounderFrame DEF startVars, raftVars
<1> QED
  BY <1>t, <1>1, FounderStartStep, FounderRaftStep DEF Next

\* With one founder f, f is in every group.
LEMMA OneFounder == FounderInv => OneBootOneGroup
<1> SUFFICES ASSUME FounderInv, NEW f \in Node, booted \subseteq {f}, NEW n \in Node,
                    n \in leaders \/ conf[n] # {}
             PROVE  f \in Group(n)
  BY DEF OneBootOneGroup
<1>1. CASE n \in leaders
  BY <1>1 DEF FounderInv, LeadersHaveFounder, Settled
<1>2. CASE conf[n] # {}
  BY <1>2 DEF FounderInv, FilesHaveFounder, Group
<1> QED
  BY <1>1, <1>2

\* A cluster that one node booted never splits into one with it and one without:
\* neither elections on old configurations, nor entries that commit late, nor
\* peers files that a crash leaves behind make a leader of others alone.
THEOREM OneBootIsOneGroup == Spec => []OneBootOneGroup
BY FounderInit, FounderStep, OneFounder, PTL DEF Spec

\* A node whose join request was answered with success is in a configuration that
\* the node it asked has committed, and that leads back to a founder, however
\* requests, commits, answers, crashes and changes of leadership interleave.
THEOREM JoinSucceeds == Spec => JoinedIsMember
<1>1. ASSUME GrantInv, FounderInv, [Next]_vars, NEW n \in Node, pc[n] = "join", pc'[n] = "ready"
      PROVE  /\ {n, asked[n]} \subseteq granted[n] /\ granted[n] \in dispatched
             /\ granted[n] \cap booted # {}
  <2>1. granted[n] # {}
    BY <1>1, JoinedStep
  <2>2. {n, asked[n]} \subseteq granted[n] /\ granted[n] \in dispatched
    BY <1>1, <2>1 DEF GrantInv, GrantedIsDispatched
  <2> QED
    BY <1>1, <2>2 DEF FounderInv, LogsHaveFounder
<1>2. GrantInv /\ FounderInv /\ [Next]_vars =>
        [\A n \in Node : pc[n] = "join" /\ pc'[n] = "ready" =>
           /\ {n, asked[n]} \subseteq granted[n] /\ granted[n] \in dispatched
           /\ granted[n] \cap booted # {}]_vars
  BY <1>1
<1>3. Spec => []FounderInv
  BY FounderInit, FounderStep, PTL DEF Spec
<1> QED
  BY <1>2, <1>3, GrantsHold, PTL DEF Spec, JoinedIsMember
=============================================================================
