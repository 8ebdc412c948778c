--------------------------- MODULE CacheNodeProofs ---------------------------
(***************************************************************************)
(* Proofs about CacheNode, for any number of nodes, databases and calls,   *)
(* any ring, and any number of heartbeats and crashes.                     *)
(***************************************************************************)
EXTENDS CacheNode, WellFoundedInduction, TLAPS

-----------------------------------------------------------------------------
(***************************************************************************)
(* The ring.                                                               *)
(***************************************************************************)
\* Some node of a set of nodes is the closest one to the key.
LEMMA ClosestExists ==
  ASSUME NEW S \in SUBSET Node, S # {}
  PROVE  \E p \in S : \A q \in S : Dist[p] <= Dist[q]
<1> DEFINE T == {Dist[p] : p \in S}
           R == OpToRel(<, Nat)
<1>1. \A p \in Node : Dist[p] \in Nat
  BY CacheNodeAssumption
<1>2. T \subseteq Nat /\ T # {}
  BY <1>1
<1>3. IsWellFoundedOn(R, Nat)
  BY NatLessThanWellFounded
<1> HIDE DEF R, T
<1>4. PICK d \in T : \A e \in T : <<e, d>> \notin R
  BY <1>2, <1>3, WFMin
<1>5. \A e \in T : d <= e
  <2>1. ASSUME NEW e \in T PROVE d <= e
    <3>1. d \in Nat /\ e \in Nat
      BY <1>2
    <3>2. ~(e < d)
      BY <1>4, <3>1 DEF R, OpToRel
    <3> QED
      BY <3>1, <3>2
  <2> QED
    BY <2>1
<1>6. PICK p \in S : d = Dist[p]
  BY DEF T
<1> QED
  BY <1>5, <1>6 DEF T

\* The owner of the key among some nodes is one of them, and the closest.
LEMMA OwnerIsClosest ==
  ASSUME NEW S \in SUBSET Node, S # {}
  PROVE  Owner(S) \in S /\ \A q \in S : Dist[Owner(S)] <= Dist[q]
BY ClosestExists DEF Owner

\* A peer that the load of a node asks is another node.
LEMMA PeerType ==
  ASSUME TypeOK, NEW n \in Node, NEW p \in Peer(n)
  PROVE  p \in Node \ {n}
<1>1. pool[n] \in Pool
  BY DEF TypeOK
<1>2. pool[n].of \in SUBSET Node /\ pool[n].of # {}
  BY <1>1 DEF Pool, Peer
<1> QED
  BY <1>2, OwnerIsClosest DEF Peer

-----------------------------------------------------------------------------
(***************************************************************************)
(* Types.                                                                  *)
(***************************************************************************)
LoadPC == {"none", "pick", "peer", "fetch", "fast", "try", "all"}

\* What a load of n that goes on changes.
LEMMA GotoType ==
  ASSUME TypeOK, NEW n \in Node, NEW c \in LoadPC, Goto(n, c)
  PROVE  /\ ld' \in [Node -> Load]
         /\ ld'[n].pc = c /\ ld'[n].got = ld[n].got /\ ld'[n].err = ld[n].err
         /\ \A p \in Node \ {n} : ld'[p] = ld[p]
<1>1. ld[n] \in Load /\ ld \in [Node -> Load]
  BY DEF TypeOK
<1>2. ld' = [ld EXCEPT ![n] = [ld[n] EXCEPT !.pc = c]]
  BY DEF Goto
<1>3. /\ [ld[n] EXCEPT !.pc = c] \in Load
      /\ [ld[n] EXCEPT !.pc = c].pc = c
      /\ [ld[n] EXCEPT !.pc = c].got = ld[n].got
      /\ [ld[n] EXCEPT !.pc = c].err = ld[n].err
  BY <1>1 DEF Load, LoadPC
<1> QED
  BY <1>1, <1>2, <1>3

\* No load.
LEMMA NoLoadType == NoLoad \in Load /\ NoLoad.pc = "none" /\ NoLoad.got = FALSE /\ NoLoad.err = "fail"
BY DEF NoLoad, Load, Answer

\* What the end of a load with the result a changes.
LEMMA EndLoadType ==
  ASSUME TypeOK, NEW n \in Node, NEW a \in Answer, EndLoad(n, a)
  PROVE  /\ ld' \in [Node -> Load]
         /\ rq' \in [Caller -> {"idle", "get", "do", "wait", "done"}]
         /\ ret' \in [Caller -> Answer \cup {"none"}]
         /\ ld'[n] = NoLoad /\ \A p \in Node \ {n} : ld'[p] = ld[p]
         /\ \A r \in Caller : ret'[r] \in {ret[r], a}
         /\ \A r \in Caller : ret'[r] = ret[r] \/ rq'[r] = "done"
         /\ \A r \in Caller : rq'[r] \in {rq[r], "done"}
         /\ UNCHANGED <<at, late>>
BY NoLoadType DEF TypeOK, EndLoad

\* What the end of a load leaves in the cache.
LEMMA PopulateType ==
  ASSUME TypeOK, NEW n \in Node, NEW a \in Answer, Populate(n, a)
  PROVE  /\ main' \in [Node -> {"value", "empty", Nil}]
         /\ \A p \in Node : main'[p] = main[p] \/ (a = "found" /\ main'[p] = "value")
BY DEF TypeOK, Populate, Bytes

\* A database gives one of the three answers.
LEMMA SaysType == Says \subseteq Answer
BY DEF Says, Answer

\* What setting a fast database later changes.
LEMMA SetDBType ==
  ASSUME TypeOK, NEW n \in Node, NEW d \in DB \cup {Nil}
  PROVE  /\ [setDB EXCEPT ![n] = @ \cup {d}] \in [Node -> SUBSET (DB \cup {Nil})]
         /\ [setDB EXCEPT ![n] = @ \ {d}] \in [Node -> SUBSET (DB \cup {Nil})]
BY DEF TypeOK

\* A lookup keeps the types.
LEMMA GetType ==
  ASSUME TypeOK, NEW r \in Caller, Get(r)
  PROVE  /\ rq' \in [Caller -> {"idle", "get", "do", "wait", "done"}]
         /\ ret' \in [Caller -> Answer \cup {"none"}]
         /\ \A q \in Caller : ret'[q] = ret[q] \/ (ret'[q] = "found" /\ Cached(at[r]))
         /\ \A q \in Caller : rq'[q] = rq[q] \/ rq'[q] \in {"do", "done"}
BY DEF TypeOK, Get, Answer

\* What the death of a node changes.
LEMMA ResetType ==
  ASSUME TypeOK, NEW n \in Node, Reset(n)
  PROVE  /\ main' \in [Node -> {"value", "empty", Nil}]
         /\ hot' \in [Node -> {"value", "empty", Nil}]
         /\ fastDB' \in [Node -> DB \cup {Nil}]
         /\ setDB' \in [Node -> SUBSET (DB \cup {Nil})]
         /\ ld' \in [Node -> Load]
         /\ rq' \in [Caller -> {"idle", "get", "do", "wait", "done"}]
         /\ ret' \in [Caller -> Answer \cup {"none"}]
         /\ at' \in [Caller -> Node]
         /\ late' = late
<1> USE DEF TypeOK, Reset
<1>1. n \in Caller
  BY DEF Caller
<1>2. ld' \in [Node -> Load]
  BY NoLoadType
<1>3. rq' \in [Caller -> {"idle", "get", "do", "wait", "done"}]
  OBVIOUS
<1>4. ret' \in [Caller -> Answer \cup {"none"}]
  BY DEF Answer
<1> QED
  BY <1>1, <1>2, <1>3, <1>4

\* Initially everything has its type.
LEMMA TypeInit == Init => TypeOK
<1> SUFFICES ASSUME Init PROVE TypeOK
  OBVIOUS
<1>1. [kind |-> "node", of |-> Node] \in Pool
  BY DEF Pool
<1>2. at \in [Caller -> Node]
  BY CacheNodeAssumption DEF Init, ReadInit, Caller
<1> QED
  BY <1>1, <1>2, NoLoadType DEF Init, ReadInit, TypeOK

\* The steps of a load keep the types.
LEMMA LoadTypeStep ==
  ASSUME TypeOK, NEW n \in Node, LoadStep(n)
  PROVE  TypeOK'
<1> USE DEF views, requests, env, caches, fast
<1>c. n \in Caller
  BY DEF Caller
<1>1. CASE PickPeer(n)
  <2>1. ASSUME NEW p \in Peer(n), Goto(n, "peer"), rq' = [rq EXCEPT ![n] = "get"],
               at' = [at EXCEPT ![n] = p], ret' = [ret EXCEPT ![n] = "none"]
        PROVE  TypeOK'
    <3>1. p \in Node /\ ld' \in [Node -> Load]
      BY <2>1, PeerType, GotoType DEF LoadPC
    <3> QED
      BY <1>c, <1>1, <2>1, <3>1 DEF TypeOK, PickPeer
  <2>2. CASE Goto(n, "fetch") /\ UNCHANGED <<rq, at, ret>>
    <3>1. ld' \in [Node -> Load]
      BY <2>2, GotoType DEF LoadPC
    <3> QED
      BY <1>1, <2>2, <3>1 DEF TypeOK, PickPeer
  <2> QED
    BY <1>1, <2>1, <2>2 DEF PickPeer
<1>2. CASE PeerReturns(n)
  <2>1. CASE EndLoad(n, "found")
    <3>1. "found" \in Answer /\ Bytes("found") = "value"
      BY DEF Answer, Bytes
    <3>2. hot' \in [Node -> {"value", "empty", Nil}]
      BY <1>2, <3>1 DEF TypeOK, PeerReturns
    <3> QED
      BY <1>2, <2>1, <3>1, <3>2, EndLoadType DEF TypeOK, PeerReturns
  <2>2. CASE Goto(n, "fetch") /\ UNCHANGED <<requests, hot>>
    <3>1. ld' \in [Node -> Load]
      BY <2>2, GotoType DEF LoadPC
    <3> QED
      BY <1>2, <2>2, <3>1 DEF TypeOK, PeerReturns
  <2> QED
    BY <1>2, <2>1, <2>2 DEF PeerReturns
<1>3. CASE fetchData(n)
  <2>1. ld' \in [Node -> Load]
    BY <1>3, GotoType DEF fetchData, LoadPC
  <2> QED
    BY <1>3, <2>1 DEF TypeOK, fetchData
<1>4. CASE FastFind(n)
  <2>1. PICK a \in Answer : \/ EndLoad(n, a) /\ Populate(n, a) /\ UNCHANGED setDB
                           \/ /\ Goto(n, "try") /\ UNCHANGED <<main, requests>>
                              /\ setDB' = [setDB EXCEPT ![n] = @ \cup {Nil}]
    BY <1>4, SaysType DEF FastFind
  <2>2. CASE EndLoad(n, a) /\ Populate(n, a) /\ UNCHANGED setDB
    BY <1>4, <2>2, EndLoadType, PopulateType DEF TypeOK, FastFind
  <2>3. CASE /\ Goto(n, "try") /\ UNCHANGED <<main, requests>>
             /\ setDB' = [setDB EXCEPT ![n] = @ \cup {Nil}]
    <3>1. ld' \in [Node -> Load]
      BY <2>3, GotoType DEF LoadPC
    <3> QED
      BY <1>4, <2>3, <3>1, SetDBType DEF TypeOK, FastFind
  <2> QED
    BY <2>1, <2>2, <2>3
<1>5. CASE tryAllDBFind(n)
  <2>1. CASE EndLoad(n, "fail")
    <3>1. "fail" \in Answer
      BY DEF Answer
    <3> QED
      BY <1>5, <2>1, <3>1, EndLoadType DEF TypeOK, tryAllDBFind
  <2>2. CASE /\ ld' = [ld EXCEPT ![n] = [NoLoad EXCEPT !.pc = "all", !.to = dbs[n]]]
             /\ UNCHANGED requests
    <3>1. [NoLoad EXCEPT !.pc = "all", !.to = dbs[n]] \in Load
      BY DEF TypeOK, NoLoad, Load, Answer
    <3> QED
      BY <1>5, <2>2, <3>1 DEF TypeOK, tryAllDBFind
  <2> QED
    BY <1>5, <2>1, <2>2 DEF tryAllDBFind
<1>6. CASE Returns(n)
  <2>1. ld[n].err \in Answer /\ ld[n].url \in DB \cup {Nil}
    BY DEF TypeOK, Load
  <2> QED
    BY <1>6, <2>1, EndLoadType, PopulateType, SetDBType DEF TypeOK, Returns
<1>7. CASE TimesOut(n)
  <2>1. "fail" \in Answer
    BY DEF Answer
  <2> QED
    BY <1>7, <2>1, EndLoadType, SetDBType DEF TypeOK, TimesOut
<1> QED
  BY <1>1, <1>2, <1>3, <1>4, <1>5, <1>6, <1>7 DEF LoadStep, LoadGoesOn

\* A goroutine of tryAllDBFind changes its load only.
LEMMA FindType ==
  ASSUME TypeOK, NEW n \in Node, NEW d \in DB \cup {Nil}, Find(n, d)
  PROVE  /\ ld' \in [Node -> Load]
         /\ \A p \in Node \ {n} : ld'[p] = ld[p]
         /\ ld'[n].pc = "all"
         /\ \/ ld'[n].got = ld[n].got /\ ld'[n].err = ld[n].err
            \/ ld'[n].err \in Says
<1>1. ld[n] \in Load
  BY DEF TypeOK
<1>2. PICK a \in Says :
        LET first == ~ld[n].got /\ a # "fail"
        IN  ld' = [ld EXCEPT ![n] =
                     [ld[n] EXCEPT !.done = ld[n].done \cup {d}, !.got = ld[n].got \/ first,
                                   !.url = IF first THEN d ELSE ld[n].url,
                                   !.err = IF first THEN a ELSE ld[n].err]]
  BY DEF Find
<1> DEFINE first == ~ld[n].got /\ a # "fail"
           l == [ld[n] EXCEPT !.done = ld[n].done \cup {d}, !.got = ld[n].got \/ first,
                              !.url = IF first THEN d ELSE ld[n].url,
                              !.err = IF first THEN a ELSE ld[n].err]
<1>3. d \in DB /\ a \in Answer
  BY <1>1, SaysType DEF Find, Load
<1>4. first \in BOOLEAN
  OBVIOUS
<1> HIDE DEF first
<1>5. /\ l \in Load
      /\ l.pc = ld[n].pc
      /\ l.got = (ld[n].got \/ first)
      /\ l.err = IF first THEN a ELSE ld[n].err
  BY <1>1, <1>3, <1>4 DEF Load
<1>6. ld' = [ld EXCEPT ![n] = l]
  BY <1>2 DEF first
<1> HIDE DEF l
<1>7. ld' \in [Node -> Load] /\ ld'[n] = l /\ \A p \in Node \ {n} : ld'[p] = ld[p]
  BY <1>5, <1>6 DEF TypeOK
<1>8. ld[n].got \in BOOLEAN
  BY <1>1 DEF Load
<1>9. \/ ld'[n].got = ld[n].got /\ ld'[n].err = ld[n].err
      \/ ld'[n].err \in Says
  <2>1. CASE first
    BY <1>2, <1>5, <1>7, <2>1
  <2>2. CASE ~first
    BY <1>4, <1>5, <1>7, <1>8, <2>2
  <2> QED
    BY <2>1, <2>2
<1> QED
  BY <1>5, <1>7, <1>9 DEF Find

\* Every step keeps the types.
LEMMA TypeStep == TypeOK /\ [Next]_vars => TypeOK'
<1> SUFFICES ASSUME TypeOK, [Next]_vars PROVE TypeOK'
  OBVIOUS
<1> USE DEF views, requests, env, caches, fast
<1>1. ASSUME NEW c \in Call, handleGetKey(c) PROVE TypeOK'
  <2>1. c \in Caller
    BY DEF Caller
  <2>2. late' \in [Call -> BOOLEAN]
    BY <1>1 DEF TypeOK, handleGetKey
  <2> QED
    BY <1>1, <2>1, <2>2, GetType DEF TypeOK, handleGetKey
<1>2. ASSUME NEW r \in Caller, Do(r) PROVE TypeOK'
  <2>1. at[r] \in Node
    BY DEF TypeOK
  <2>2. ld' \in [Node -> Load]
    BY <1>2, <2>1, GotoType DEF TypeOK, Do, LoadPC
  <2>3. ret' \in [Caller -> Answer \cup {"none"}]
    BY <1>2 DEF TypeOK, Do, Answer
  <2> QED
    BY <1>2, <2>2, <2>3 DEF TypeOK, Do
<1>3. ASSUME NEW n \in Node, ServeHTTP(n) PROVE TypeOK'
  <2>1. n \in Caller
    BY DEF Caller
  <2> QED
    BY <1>3, <2>1, GetType DEF TypeOK, ServeHTTP
<1>4. ASSUME NEW n \in Node, LoadStep(n) PROVE TypeOK'
  BY <1>4, LoadTypeStep
<1>5. ASSUME NEW n \in Node, Evict(n) PROVE TypeOK'
  BY <1>5 DEF TypeOK, Evict
<1>6. ASSUME NEW n \in Node, NEW d \in DB \cup {Nil}, Find(n, d) PROVE TypeOK'
  BY <1>6, FindType DEF TypeOK, Find
<1>7. ASSUME NEW n \in Node, NEW d \in DB \cup {Nil}, setFastDB(n, d) PROVE TypeOK'
  BY <1>7, SetDBType DEF TypeOK, setFastDB
<1>8. ASSUME Store \/ Settle PROVE TypeOK'
  BY <1>8 DEF TypeOK, Store, Settle
<1>9. ASSUME NEW n \in Node, Crash(n) PROVE TypeOK'
  <2>1. Reset(n) /\ [kind |-> "http", of |-> Node] \in Pool
    BY <1>9 DEF Crash, Pool
  <2>2. pool' \in [Node -> Pool] /\ dbs' \in [Node -> SUBSET DB]
    BY <1>9, <2>1 DEF TypeOK, Crash
  <2>3. crashes' \in Nat
    BY <1>9 DEF TypeOK, Crash
  <2> QED
    BY <1>9, <2>1, <2>2, <2>3, ResetType DEF TypeOK, Crash
<1>10. ASSUME NEW n \in Node, NEW m \in Meta[n], handleMeta(n, m) PROVE TypeOK'
  <2>1. m.pool \in Pool /\ m.dbs \in SUBSET DB
    BY CacheNodeAssumption
  <2> QED
    BY <1>10, <2>1 DEF TypeOK, handleMeta
<1>11. CASE UNCHANGED vars
  BY <1>11 DEF vars, TypeOK
<1> QED
  BY <1>1, <1>2, <1>3, <1>4, <1>5, <1>6, <1>7, <1>8, <1>9, <1>10, <1>11
     DEF Next, ReadNext, Quiescent

\* Caches, loads, calls and lists have their types.
THEOREM TypeCorrect == Spec => []TypeOK
BY TypeInit, TypeStep, PTL DEF Spec
-----------------------------------------------------------------------------
(***************************************************************************)
(* What is cached is stored.  A load carries a value on its way to the     *)
(* cache, so the invariant speaks of loads too.                            *)
(***************************************************************************)
StoredInv ==
  /\ TypeOK
  /\ CachedIsStored
  /\ \A n \in Node : ld[n].err = "found" => stored

\* A database gives a value only if there is one.
LEMMA FoundIsStored == "found" \in Says => stored
BY DEF Says

\* The invariant holds initially.
LEMMA StoredInit == Init => StoredInv
<1> SUFFICES ASSUME Init PROVE StoredInv
  OBVIOUS
<1>1. TypeOK
  BY TypeInit
<1> QED
  BY <1>1, NoLoadType DEF Init, ReadInit, StoredInv, CachedIsStored, Cached

\* A load of n that goes on, and changes no cache and no result, keeps it.
LEMMA StoredGoto ==
  ASSUME StoredInv, TypeOK', NEW n \in Node, NEW c \in LoadPC, Goto(n, c),
         UNCHANGED <<main, hot, stored>>,
         \A r \in Caller : ret'[r] = "found" => ret[r] = "found"
  PROVE  StoredInv'
<1>1. \A p \in Node : ld'[p].err = ld[p].err
  BY GotoType DEF StoredInv
<1> QED
  BY <1>1 DEF StoredInv, CachedIsStored, Cached

\* The end of a load with a value that is stored keeps it.
LEMMA StoredEnd ==
  ASSUME StoredInv, TypeOK', NEW n \in Node, NEW a \in Answer, EndLoad(n, a),
         a = "found" => stored, UNCHANGED stored,
         \A p \in Node : main'[p] \in {main[p], Nil} \/ (a = "found" /\ main'[p] = "value"),
         \A p \in Node : hot'[p] \in {hot[p], Nil} \/ (a = "found" /\ hot'[p] = "value")
  PROVE  StoredInv'
<1>1. /\ \A p \in Node : ld'[p].err \in {ld[p].err, "fail"}
      /\ \A r \in Caller : ret'[r] \in {ret[r], a}
  BY EndLoadType, NoLoadType DEF StoredInv
<1> QED
  BY <1>1 DEF StoredInv, CachedIsStored, Cached

\* The steps of a load keep the invariant.
LEMMA StoredLoadStep ==
  ASSUME StoredInv, NEW n \in Node, LoadStep(n)
  PROVE  StoredInv'
<1> USE DEF views, requests, env, caches, fast
<1>t. TypeOK /\ TypeOK'
  BY LoadTypeStep DEF StoredInv
<1>a. {"found", "fail"} \subseteq Answer /\ Bytes("found") = "value"
  BY DEF Answer, Bytes
<1>1. CASE PickPeer(n)
  <2>1. Goto(n, "peer") \/ Goto(n, "fetch")
    BY <1>1 DEF PickPeer
  <2>2. \A r \in Caller : ret'[r] = "found" => ret[r] = "found"
    BY <1>1, <1>t DEF TypeOK, PickPeer
  <2> QED
    BY <1>1, <1>t, <2>1, <2>2, StoredGoto DEF PickPeer, LoadPC
<1>2. CASE PeerReturns(n)
  <2>1. CASE ret[n] = "found" /\ EndLoad(n, "found")
    <3>1. stored
      BY <2>1 DEF StoredInv, CachedIsStored, Caller
    <3>2. \A p \in Node : hot'[p] \in {hot[p], "value"}
      BY <1>2, <1>t, <1>a DEF TypeOK, PeerReturns
    <3>3. UNCHANGED <<main, stored>>
      BY <1>2 DEF PeerReturns
    <3> QED
      BY <1>t, <1>a, <2>1, <3>1, <3>2, <3>3, StoredEnd
  <2>2. CASE Goto(n, "fetch") /\ UNCHANGED <<requests, hot>>
    BY <1>2, <1>t, <2>2, StoredGoto DEF PeerReturns, LoadPC
  <2> QED
    BY <1>2, <2>1, <2>2 DEF PeerReturns
<1>3. CASE fetchData(n)
  <2>1. Goto(n, "try") \/ Goto(n, "fast")
    BY <1>3 DEF fetchData
  <2> QED
    BY <1>3, <1>t, <2>1, StoredGoto DEF fetchData, LoadPC
<1>4. CASE FastFind(n)
  <2>1. PICK a \in Says : \/ EndLoad(n, a) /\ Populate(n, a)
                          \/ Goto(n, "try") /\ UNCHANGED <<main, requests>>
    BY <1>4 DEF FastFind
  <2>2. CASE EndLoad(n, a) /\ Populate(n, a)
    <3>1. a \in Answer /\ (a = "found" => stored)
      BY SaysType, FoundIsStored
    <3>2. \A p \in Node : main'[p] = main[p] \/ (a = "found" /\ main'[p] = "value")
      BY <1>t, <2>2, <3>1, PopulateType
    <3>3. UNCHANGED <<hot, stored>>
      BY <1>4 DEF FastFind
    <3> QED
      BY <1>t, <2>2, <3>1, <3>2, <3>3, StoredEnd
  <2>3. CASE Goto(n, "try") /\ UNCHANGED <<main, requests>>
    BY <1>4, <1>t, <2>3, StoredGoto DEF FastFind, LoadPC
  <2> QED
    BY <2>1, <2>2, <2>3
<1>5. CASE tryAllDBFind(n)
  <2>1. CASE EndLoad(n, "fail")
    BY <1>5, <1>t, <1>a, <2>1, StoredEnd DEF tryAllDBFind
  <2>2. CASE /\ ld' = [ld EXCEPT ![n] = [NoLoad EXCEPT !.pc = "all", !.to = dbs[n]]]
             /\ UNCHANGED requests
    <3>1. [NoLoad EXCEPT !.pc = "all", !.to = dbs[n]].err = "fail"
      BY DEF NoLoad
    <3>2. \A p \in Node : ld'[p].err \in {ld[p].err, "fail"}
      BY <1>t, <2>2, <3>1 DEF TypeOK
    <3> QED
      BY <1>5, <1>t, <2>2, <3>2 DEF StoredInv, CachedIsStored, Cached, tryAllDBFind
  <2> QED
    BY <1>5, <2>1, <2>2 DEF tryAllDBFind
<1>6. CASE Returns(n)
  <2>1. ld[n].err \in Answer /\ (ld[n].err = "found" => stored)
    BY <1>t DEF TypeOK, Load, StoredInv
  <2>2. EndLoad(n, ld[n].err) /\ Populate(n, ld[n].err) /\ UNCHANGED <<hot, stored>>
    BY <1>6 DEF Returns
  <2>3. \A p \in Node : main'[p] = main[p] \/ (ld[n].err = "found" /\ main'[p] = "value")
    BY <1>t, <2>1, <2>2, PopulateType
  <2> QED
    BY <1>t, <2>1, <2>2, <2>3, StoredEnd
<1>7. CASE TimesOut(n)
  BY <1>7, <1>t, <1>a, StoredEnd DEF TimesOut
<1> QED
  BY <1>1, <1>2, <1>3, <1>4, <1>5, <1>6, <1>7 DEF LoadStep, LoadGoesOn

\* A lookup that answers from a cache answers what is stored.
LEMMA StoredGet ==
  ASSUME StoredInv, TypeOK', NEW r \in Caller, Get(r), UNCHANGED <<main, hot, ld, stored>>
  PROVE  StoredInv'
<1>1. \A q \in Caller : ret'[q] = ret[q] \/ (ret'[q] = "found" /\ Cached(at[r]))
  BY GetType DEF StoredInv
<1>2. at[r] \in Node
  BY DEF StoredInv, TypeOK
<1> QED
  BY <1>1, <1>2 DEF StoredInv, CachedIsStored, Cached

\* Every step keeps the invariant.
LEMMA StoredStep == StoredInv /\ [Next]_vars => StoredInv'
<1> SUFFICES ASSUME StoredInv, [Next]_vars PROVE StoredInv'
  OBVIOUS
<1> USE DEF views, requests, env, caches, fast
<1>t. TypeOK /\ TypeOK'
  BY TypeStep DEF StoredInv
<1>1. ASSUME NEW c \in Call, handleGetKey(c) PROVE StoredInv'
  BY <1>1, <1>t, StoredGet DEF handleGetKey, Caller
<1>2. ASSUME NEW r \in Caller, Do(r) PROVE StoredInv'
  <2>1. at[r] \in Node
    BY <1>t DEF TypeOK
  <2>2. CASE Goto(at[r], "pick") /\ UNCHANGED ret
    BY <1>2, <1>t, <2>1, <2>2, StoredGoto DEF Do, LoadPC
  <2>3. CASE /\ Cached(at[r]) /\ UNCHANGED ld
             /\ ret' = [ret EXCEPT ![r] = "found"]
    BY <1>2, <1>t, <2>1, <2>3 DEF Do, StoredInv, CachedIsStored, Cached, TypeOK
  <2>4. CASE UNCHANGED <<ld, ret>>
    BY <1>2, <1>t, <2>4 DEF Do, StoredInv, CachedIsStored, Cached
  <2> QED
    BY <1>2, <2>2, <2>3, <2>4 DEF Do
<1>3. ASSUME NEW n \in Node, ServeHTTP(n) PROVE StoredInv'
  BY <1>3, <1>t, StoredGet DEF ServeHTTP, Caller
<1>4. ASSUME NEW n \in Node, LoadStep(n) PROVE StoredInv'
  BY <1>4, StoredLoadStep
<1>5. ASSUME NEW n \in Node, Evict(n) PROVE StoredInv'
  <2>1. \A p \in Node : main'[p] \in {main[p], Nil} /\ hot'[p] \in {hot[p], Nil}
    BY <1>5, <1>t DEF Evict, TypeOK
  <2> QED
    BY <1>5, <1>t, <2>1 DEF Evict, StoredInv, CachedIsStored, Cached
<1>6. ASSUME NEW n \in Node, NEW d \in DB \cup {Nil}, Find(n, d) PROVE StoredInv'
  <2>1. \A p \in Node : ld'[p].err = ld[p].err \/ ld'[p].err \in Says
    BY <1>6, <1>t, FindType
  <2>2. \A p \in Node : ld'[p].err = "found" => stored
    BY <2>1, FoundIsStored DEF StoredInv
  <2> QED
    BY <1>6, <1>t, <2>2 DEF Find, StoredInv, CachedIsStored, Cached
<1>7. ASSUME NEW n \in Node, NEW d \in DB \cup {Nil}, setFastDB(n, d) PROVE StoredInv'
  BY <1>7, <1>t DEF setFastDB, StoredInv, CachedIsStored, Cached
<1>8. ASSUME Store \/ Settle PROVE StoredInv'
  BY <1>8, <1>t DEF Store, Settle, StoredInv, CachedIsStored, Cached
<1>9. ASSUME NEW n \in Node, Crash(n) PROVE StoredInv'
  <2>1. \A p \in Node : main'[p] \in {main[p], Nil} /\ hot'[p] \in {hot[p], Nil}
    BY <1>9, <1>t DEF Crash, Reset, TypeOK
  <2>2. \A p \in Node : ld'[p].err \in {ld[p].err, "fail"}
    BY <1>9, <1>t, NoLoadType DEF Crash, Reset, TypeOK
  <2>3. \A r \in Caller : ret'[r] \in {ret[r], "none", "fail"}
    BY <1>9, <1>t DEF Crash, Reset, TypeOK
  <2>4. UNCHANGED stored
    BY <1>9 DEF Crash
  <2> QED
    BY <1>t, <2>1, <2>2, <2>3, <2>4 DEF StoredInv, CachedIsStored, Cached
<1>10. ASSUME NEW n \in Node, NEW m \in Meta[n], handleMeta(n, m) PROVE StoredInv'
  BY <1>10, <1>t DEF handleMeta, StoredInv, CachedIsStored, Cached
<1>11. CASE UNCHANGED vars
  BY <1>11, <1>t DEF vars, StoredInv, CachedIsStored, Cached
<1> QED
  BY <1>1, <1>2, <1>3, <1>4, <1>5, <1>6, <1>7, <1>8, <1>9, <1>10, <1>11
     DEF Next, ReadNext, Quiescent

\* Caches, and answers with a value, are of what is stored: no lost timer, error
\* of a peer or late goroutine puts empty bytes into groupcache.
THEOREM CacheHoldsStored == Spec => []CachedIsStored
<1>1. StoredInv => CachedIsStored
  BY DEF StoredInv
<1> QED
  BY <1>1, StoredInit, StoredStep, PTL DEF Spec
-----------------------------------------------------------------------------
(***************************************************************************)
(* A miss is forgotten.  When a call is late the databases have settled    *)
(* and no load is under way, so whatever a load has got since is no miss;  *)
(* tryAllDBFind is the only one to keep an answer, while it waits in its   *)
(* select.                                                                 *)
(***************************************************************************)
GotInAll == \A n \in Node : ld[n].got => ld[n].pc = "all"

IdleHasNone == \A c \in Call : rq[c] = "idle" => ret[c] = "none"

LateIsSettled ==
  \A c \in Call : late[c] =>
    /\ settled /\ ret[c] # "notfound"
    /\ \A n \in Node : ld[n].got => ld[n].err # "notfound"

MissInv == TypeOK /\ GotInAll /\ IdleHasNone /\ LateIsSettled

\* The invariant holds initially.
LEMMA MissInit == Init => MissInv
<1> SUFFICES ASSUME Init PROVE MissInv
  OBVIOUS
<1>1. TypeOK
  BY TypeInit
<1> QED
  BY <1>1, NoLoadType
     DEF Init, ReadInit, MissInv, GotInAll, IdleHasNone, LateIsSettled, Caller

\* Callers other than calls do not matter to it.
LEMMA CallIsCaller == \A c \in Call : c \in Caller /\ c \notin Node
BY CacheNodeAssumption DEF Caller

\* A step that brings no miss to a call, and none to a load unless databases may
\* still miss the key, keeps the invariant.
LEMMA MissFrame ==
  ASSUME MissInv, TypeOK', GotInAll',
         settled => settled',
         \A c \in Call : late'[c] => late[c],
         \A c \in Call : rq'[c] = "idle" => rq[c] = "idle" /\ ret'[c] = ret[c],
         \A c \in Call : late[c] /\ ret'[c] = "notfound" => ret[c] = "notfound",
         \A n \in Node : ld'[n].got /\ ld'[n].err = "notfound" =>
                           ~settled \/ (ld[n].got /\ ld[n].err = "notfound")
  PROVE  MissInv'
BY DEF MissInv, IdleHasNone, LateIsSettled

\* A load that goes on has not got anything yet, unless it is in its select.
LEMMA MissGoto ==
  ASSUME MissInv, TypeOK', NEW n \in Node, NEW c \in LoadPC, Goto(n, c), ld[n].pc # "all",
         UNCHANGED <<settled, late>>,
         \A k \in Call : ret'[k] = ret[k] /\ (rq'[k] = "idle" => rq[k] = "idle")
  PROVE  MissInv'
<1>1. GotInAll'
  BY GotoType DEF MissInv, GotInAll
<1>2. \A p \in Node : ld'[p].got = ld[p].got /\ ld'[p].err = ld[p].err
  BY GotoType DEF MissInv
<1> QED
  BY <1>1, <1>2, MissFrame

\* The end of a load that brings no miss to late calls.
LEMMA MissEnd ==
  ASSUME MissInv, TypeOK', NEW n \in Node, NEW a \in Answer, EndLoad(n, a),
         a = "notfound" => \A c \in Call : ~late[c],
         UNCHANGED settled
  PROVE  MissInv'
<1>1. /\ ld'[n] = NoLoad /\ \A p \in Node \ {n} : ld'[p] = ld[p]
      /\ \A r \in Caller : ret'[r] \in {ret[r], a}
      /\ \A r \in Caller : ret'[r] = ret[r] \/ rq'[r] = "done"
      /\ \A r \in Caller : rq'[r] \in {rq[r], "done"}
      /\ late' = late
  BY EndLoadType DEF MissInv
<1>2. GotInAll'
  BY <1>1, NoLoadType DEF MissInv, GotInAll
<1>3. \A p \in Node : ld'[p].got => ld'[p] = ld[p]
  BY <1>1, NoLoadType
<1> QED
  BY <1>1, <1>2, <1>3, CallIsCaller, MissFrame

\* The steps of a load keep the invariant.
LEMMA MissLoadStep ==
  ASSUME MissInv, NEW n \in Node, LoadStep(n)
  PROVE  MissInv'
<1> USE DEF views, requests, env, caches, fast
<1>t. TypeOK /\ TypeOK'
  BY LoadTypeStep DEF MissInv
<1>a. {"found", "fail"} \subseteq Answer
  BY DEF Answer
<1>1. CASE PickPeer(n)
  <2>1. Goto(n, "peer") \/ Goto(n, "fetch")
    BY <1>1 DEF PickPeer
  <2>2. \A k \in Call : ret'[k] = ret[k] /\ rq'[k] = rq[k]
    BY <1>1, <1>t, CallIsCaller DEF TypeOK, PickPeer
  <2> QED
    BY <1>1, <1>t, <2>1, <2>2, MissGoto DEF PickPeer, LoadPC
<1>2. CASE PeerReturns(n)
  <2>1. CASE EndLoad(n, "found")
    BY <1>2, <1>t, <1>a, <2>1, MissEnd DEF PeerReturns
  <2>2. CASE Goto(n, "fetch") /\ UNCHANGED <<requests, hot>>
    BY <1>2, <1>t, <2>2, MissGoto DEF PeerReturns, LoadPC
  <2> QED
    BY <1>2, <2>1, <2>2 DEF PeerReturns
<1>3. CASE fetchData(n)
  <2>1. Goto(n, "try") \/ Goto(n, "fast")
    BY <1>3 DEF fetchData
  <2> QED
    BY <1>3, <1>t, <2>1, MissGoto DEF fetchData, LoadPC
<1>4. CASE FastFind(n)
  <2>1. PICK a \in Says : \/ EndLoad(n, a)
                          \/ Goto(n, "try") /\ UNCHANGED requests
    BY <1>4 DEF FastFind
  <2>2. CASE EndLoad(n, a)
    <3>1. a \in Answer /\ (a = "notfound" => ~settled)
      BY SaysType DEF Says
    <3>2. a = "notfound" => \A c \in Call : ~late[c]
      BY <3>1 DEF MissInv, LateIsSettled
    <3>3. UNCHANGED settled
      BY <1>4 DEF FastFind
    <3> QED
      BY <1>t, <2>2, <3>1, <3>2, <3>3, MissEnd
  <2>3. CASE Goto(n, "try") /\ UNCHANGED requests
    BY <1>4, <1>t, <2>3, MissGoto DEF FastFind, LoadPC
  <2> QED
    BY <2>1, <2>2, <2>3
<1>5. CASE tryAllDBFind(n)
  <2>1. CASE EndLoad(n, "fail")
    BY <1>5, <1>t, <1>a, <2>1, MissEnd DEF tryAllDBFind
  <2>2. CASE /\ ld' = [ld EXCEPT ![n] = [NoLoad EXCEPT !.pc = "all", !.to = dbs[n]]]
             /\ UNCHANGED requests
    <3>1. [NoLoad EXCEPT !.pc = "all", !.to = dbs[n]].got = FALSE
      BY DEF NoLoad
    <3>2. \A p \in Node : ld'[p].got => ld'[p] = ld[p]
      BY <1>t, <2>2, <3>1 DEF TypeOK
    <3>3. GotInAll'
      BY <3>2 DEF MissInv, GotInAll
    <3> QED
      BY <1>5, <1>t, <2>2, <3>2, <3>3, MissFrame DEF tryAllDBFind
  <2> QED
    BY <1>5, <2>1, <2>2 DEF tryAllDBFind
<1>6. CASE Returns(n)
  <2>1. ld[n].err \in Answer
    BY <1>t DEF TypeOK, Load
  <2>2. ld[n].got /\ EndLoad(n, ld[n].err) /\ UNCHANGED settled
    BY <1>6 DEF Returns
  <2>3. ld[n].err = "notfound" => \A c \in Call : ~late[c]
    BY <2>2 DEF MissInv, LateIsSettled
  <2> QED
    BY <1>t, <2>1, <2>2, <2>3, MissEnd
<1>7. CASE TimesOut(n)
  BY <1>7, <1>t, <1>a, MissEnd DEF TimesOut
<1> QED
  BY <1>1, <1>2, <1>3, <1>4, <1>5, <1>6, <1>7 DEF LoadStep, LoadGoesOn

\* Every step keeps the invariant.
LEMMA MissStep == MissInv /\ [Next]_vars => MissInv'
<1> SUFFICES ASSUME MissInv, [Next]_vars PROVE MissInv'
  OBVIOUS
<1> USE DEF views, requests, env, caches, fast
<1>t. TypeOK /\ TypeOK'
  BY TypeStep DEF MissInv
<1>1. ASSUME NEW c \in Call, handleGetKey(c) PROVE MissInv'
  <2>1. c \in Caller /\ rq[c] = "idle" /\ ret[c] = "none" /\ rq'[c] # "idle"
    BY <1>1, <1>t, CallIsCaller DEF handleGetKey, Get, MissInv, IdleHasNone, TypeOK
  <2>2. \A k \in Call : k # c => ret'[k] = ret[k] /\ rq'[k] = rq[k] /\ late'[k] = late[k]
    BY <1>1, <1>t, <2>1, CallIsCaller DEF handleGetKey, Get, TypeOK
  <2>3. ret'[c] # "notfound"
    BY <1>1, <1>t, <2>1, GetType DEF handleGetKey
  <2>4. UNCHANGED <<ld, settled>>
    BY <1>1 DEF handleGetKey
  <2>5. late'[c] => settled /\ \A n \in Node : ~ld[n].got
    <3>1. late'[c] => settled /\ \A n \in Node : ld[n].pc = "none"
      BY <1>1, <1>t DEF handleGetKey, TypeOK
    <3> QED
      BY <3>1 DEF MissInv, GotInAll
  <2> QED
    BY <1>t, <2>1, <2>2, <2>3, <2>4, <2>5 DEF MissInv, GotInAll, IdleHasNone, LateIsSettled
<1>2. ASSUME NEW r \in Caller, Do(r) PROVE MissInv'
  <2>1. at[r] \in Node
    BY <1>t DEF TypeOK
  <2>2. \A k \in Call : /\ rq'[k] = "idle" => rq[k] = "idle" /\ ret'[k] = ret[k]
                        /\ ret'[k] \in {ret[k], "found"}
    BY <1>2, <1>t, CallIsCaller DEF Do, TypeOK
  <2>3. CASE ld[at[r]].pc = "none" /\ Goto(at[r], "pick") /\ UNCHANGED ret
    BY <1>2, <1>t, <2>1, <2>2, <2>3, MissGoto DEF Do, LoadPC
  <2>4. CASE UNCHANGED ld
    <3>1. GotInAll'
      BY <2>4 DEF MissInv, GotInAll
    <3> QED
      BY <1>2, <1>t, <2>2, <2>4, <3>1, MissFrame DEF Do
  <2> QED
    BY <1>2, <2>3, <2>4 DEF Do
<1>3. ASSUME NEW n \in Node, ServeHTTP(n) PROVE MissInv'
  <2>1. \A k \in Call : rq'[k] = rq[k] /\ ret'[k] = ret[k]
    BY <1>3, <1>t, CallIsCaller DEF ServeHTTP, Get, TypeOK
  <2> QED
    BY <1>3, <1>t, <2>1 DEF ServeHTTP, MissInv, GotInAll, IdleHasNone, LateIsSettled
<1>4. ASSUME NEW n \in Node, LoadStep(n) PROVE MissInv'
  BY <1>4, MissLoadStep
<1>5. ASSUME NEW n \in Node, Evict(n) PROVE MissInv'
  BY <1>5, <1>t DEF Evict, MissInv, GotInAll, IdleHasNone, LateIsSettled
<1>6. ASSUME NEW n \in Node, NEW d \in DB \cup {Nil}, Find(n, d) PROVE MissInv'
  <2>1. /\ \A p \in Node \ {n} : ld'[p] = ld[p]
        /\ ld'[n].pc = "all"
        /\ \/ ld'[n].got = ld[n].got /\ ld'[n].err = ld[n].err
           \/ ld'[n].err \in Says
    BY <1>6, <1>t, FindType
  <2>2. GotInAll'
    BY <2>1 DEF MissInv, GotInAll
  <2>3. "notfound" \in Says => ~settled
    BY DEF Says
  <2> QED
    BY <1>6, <1>t, <2>1, <2>2, <2>3, MissFrame DEF Find
<1>7. ASSUME NEW n \in Node, NEW d \in DB \cup {Nil}, setFastDB(n, d) PROVE MissInv'
  BY <1>7, <1>t DEF setFastDB, MissInv, GotInAll, IdleHasNone, LateIsSettled
<1>8. ASSUME Store \/ Settle PROVE MissInv'
  BY <1>8, <1>t DEF Store, Settle, MissInv, GotInAll, IdleHasNone, LateIsSettled
<1>9. ASSUME NEW n \in Node, Crash(n) PROVE MissInv'
  <2>1. \A p \in Node : ld'[p] \in {ld[p], NoLoad}
    BY <1>9, <1>t DEF Crash, Reset, TypeOK
  <2>2. \A k \in Call : /\ rq'[k] = "idle" => rq[k] = "idle" /\ ret'[k] = ret[k]
                        /\ ret'[k] \in {ret[k], "fail"}
    BY <1>9, <1>t, CallIsCaller DEF Crash, Reset, TypeOK
  <2>3. UNCHANGED <<late, settled>>
    BY <1>9 DEF Crash, Reset
  <2>4. GotInAll'
    BY <2>1, NoLoadType DEF MissInv, GotInAll
  <2>5. \A p \in Node : ld'[p].got => ld'[p] = ld[p]
    BY <2>1, NoLoadType
  <2> QED
    BY <1>t, <2>2, <2>3, <2>4, <2>5, MissFrame
<1>10. ASSUME NEW n \in Node, NEW m \in Meta[n], handleMeta(n, m) PROVE MissInv'
  BY <1>10, <1>t DEF handleMeta, MissInv, GotInAll, IdleHasNone, LateIsSettled
<1>11. CASE UNCHANGED vars
  BY <1>11, <1>t DEF vars, MissInv, GotInAll, IdleHasNone, LateIsSettled
<1> QED
  BY <1>1, <1>2, <1>3, <1>4, <1>5, <1>6, <1>7, <1>8, <1>9, <1>10, <1>11
     DEF Next, ReadNext, Quiescent

\* No GET is told a miss that is over, through whatever nodes, fast databases
\* and loads in common with others it goes.
THEOREM MissesAreForgotten == Spec => []MissIsForgotten
<1>1. MissInv => MissIsForgotten
  BY DEF MissInv, LateIsSettled, MissIsForgotten
<1> QED
  BY <1>1, MissInit, MissStep, PTL DEF Spec
-----------------------------------------------------------------------------
(***************************************************************************)
(* No circle of loads.  If every list a node is told names the node        *)
(* itself, a load only asks a peer that is closer to the key, and the      *)
(* closest node of a would-be circle waits for none of it.                 *)
(***************************************************************************)
SelfListed ==
  \A n \in Node : \A m \in Meta[n] : m.pool.kind = "http" \/ n \in m.pool.of

ListsSelf == \A n \in Node : pool[n].kind = "http" \/ n \in pool[n].of

AsksCloser == \A n \in Node : ld[n].pc = "peer" => Dist[at[n]] < Dist[n]

CloserInv == TypeOK /\ ListsSelf /\ AsksCloser

\* The invariant holds initially.
LEMMA CloserInit == Init => CloserInv
<1> SUFFICES ASSUME Init PROVE CloserInv
  OBVIOUS
<1>1. TypeOK
  BY TypeInit
<1> QED
  BY <1>1, NoLoadType DEF Init, ReadInit, CloserInv, ListsSelf, AsksCloser

\* The peer that a node's load asks is closer to the key than the node.
LEMMA PeerIsCloser ==
  ASSUME CloserInv, NEW n \in Node, NEW p \in Peer(n)
  PROVE  Dist[p] < Dist[n]
<1>1. pool[n].of \in SUBSET Node /\ pool[n].of # {} /\ n \in pool[n].of
  BY DEF CloserInv, TypeOK, ListsSelf, Peer, Pool
<1>2. p = Owner(pool[n].of) /\ p # n
  BY DEF Peer
<1>3. p \in Node /\ Dist[p] <= Dist[n]
  BY <1>1, <1>2, OwnerIsClosest
<1> QED
  BY <1>2, <1>3, CacheNodeAssumption

\* A step that changes no list and starts no question to a peer keeps the
\* invariant.
LEMMA CloserFrame ==
  ASSUME CloserInv, TypeOK', UNCHANGED <<pool, at>>,
         \A p \in Node : ld'[p].pc = "peer" => ld[p].pc = "peer"
  PROVE  CloserInv'
BY DEF CloserInv, ListsSelf, AsksCloser

\* The steps of a load keep the invariant.
LEMMA CloserLoadStep ==
  ASSUME CloserInv, NEW n \in Node, LoadStep(n)
  PROVE  CloserInv'
<1> USE DEF views, requests, env, caches, fast
<1>t. TypeOK /\ TypeOK'
  BY LoadTypeStep DEF CloserInv
<1>a. Answer = {"found", "notfound", "fail"}
  BY DEF Answer
<1>g. ASSUME NEW c \in LoadPC \ {"peer"}, Goto(n, c), UNCHANGED <<pool, at>> PROVE CloserInv'
  <2>1. \A p \in Node : ld'[p].pc = "peer" => ld[p].pc = "peer"
    BY <1>t, <1>g, GotoType
  <2> QED
    BY <1>t, <1>g, <2>1, CloserFrame
<1>e. ASSUME NEW a \in Answer, EndLoad(n, a), UNCHANGED pool PROVE CloserInv'
  <2>1. UNCHANGED at /\ \A p \in Node : ld'[p].pc = "peer" => ld[p].pc = "peer"
    BY <1>t, <1>e, EndLoadType, NoLoadType
  <2> QED
    BY <1>t, <1>e, <2>1, CloserFrame
<1>1. CASE PickPeer(n)
  <2>1. ASSUME NEW p \in Peer(n), Goto(n, "peer"), at' = [at EXCEPT ![n] = p]
        PROVE  CloserInv'
    <3>1. Dist[p] < Dist[n]
      BY PeerIsCloser
    <3>2. at'[n] = p /\ \A q \in Node \ {n} : at'[q] = at[q]
      BY <1>t, <2>1 DEF TypeOK, Caller
    <3>3. \A q \in Node \ {n} : ld'[q] = ld[q]
      BY <1>t, <2>1, GotoType DEF LoadPC
    <3>4. UNCHANGED pool
      BY <1>1 DEF PickPeer
    <3> QED
      BY <1>t, <3>1, <3>2, <3>3, <3>4 DEF CloserInv, ListsSelf, AsksCloser
  <2>2. CASE Goto(n, "fetch") /\ UNCHANGED <<rq, at, ret>>
    BY <1>1, <1>g, <2>2 DEF PickPeer, LoadPC
  <2> QED
    BY <1>1, <2>1, <2>2 DEF PickPeer
<1>2. CASE PeerReturns(n)
  BY <1>2, <1>a, <1>g, <1>e DEF PeerReturns, LoadPC
<1>3. CASE fetchData(n)
  BY <1>3, <1>g DEF fetchData, LoadPC
<1>4. CASE FastFind(n)
  BY <1>4, <1>g, <1>e, SaysType DEF FastFind, LoadPC
<1>5. CASE tryAllDBFind(n)
  <2>1. CASE EndLoad(n, "fail")
    BY <1>5, <1>a, <1>e, <2>1 DEF tryAllDBFind
  <2>2. CASE /\ ld' = [ld EXCEPT ![n] = [NoLoad EXCEPT !.pc = "all", !.to = dbs[n]]]
             /\ UNCHANGED requests
    <3>1. [NoLoad EXCEPT !.pc = "all", !.to = dbs[n]].pc = "all"
      BY DEF NoLoad
    <3>2. \A p \in Node : ld'[p].pc = "peer" => ld[p].pc = "peer"
      BY <1>t, <2>2, <3>1 DEF TypeOK
    <3> QED
      BY <1>5, <1>t, <2>2, <3>2, CloserFrame DEF tryAllDBFind
  <2> QED
    BY <1>5, <2>1, <2>2 DEF tryAllDBFind
<1>6. CASE Returns(n)
  <2>1. ld[n].err \in Answer
    BY <1>t DEF TypeOK, Load
  <2> QED
    BY <1>6, <1>e, <2>1 DEF Returns
<1>7. CASE TimesOut(n)
  BY <1>7, <1>a, <1>e DEF TimesOut
<1> QED
  BY <1>1, <1>2, <1>3, <1>4, <1>5, <1>6, <1>7 DEF LoadStep, LoadGoesOn

\* Every step keeps the invariant.
LEMMA CloserStep == SelfListed /\ CloserInv /\ [Next]_vars => CloserInv'
<1> SUFFICES ASSUME SelfListed, CloserInv, [Next]_vars PROVE CloserInv'
  OBVIOUS
<1> USE DEF views, requests, env, caches, fast
<1>t. TypeOK /\ TypeOK'
  BY TypeStep DEF CloserInv
<1>1. ASSUME NEW c \in Call, handleGetKey(c) PROVE CloserInv'
  BY <1>1, <1>t, CloserFrame DEF handleGetKey
<1>2. ASSUME NEW r \in Caller, Do(r) PROVE CloserInv'
  <2>1. at[r] \in Node
    BY <1>t DEF TypeOK
  <2>2. \A p \in Node : ld'[p].pc = "peer" => ld[p].pc = "peer"
    BY <1>2, <1>t, <2>1, GotoType DEF Do, LoadPC
  <2> QED
    BY <1>2, <1>t, <2>2, CloserFrame DEF Do
<1>3. ASSUME NEW n \in Node, ServeHTTP(n) PROVE CloserInv'
  BY <1>3, <1>t, CloserFrame DEF ServeHTTP
<1>4. ASSUME NEW n \in Node, LoadStep(n) PROVE CloserInv'
  BY <1>4, CloserLoadStep
<1>5. ASSUME NEW n \in Node, Evict(n) PROVE CloserInv'
  BY <1>5, <1>t, CloserFrame DEF Evict
<1>6. ASSUME NEW n \in Node, NEW d \in DB \cup {Nil}, Find(n, d) PROVE CloserInv'
  <2>1. \A p \in Node : ld'[p].pc = "peer" => ld[p].pc = "peer"
    BY <1>6, <1>t, FindType
  <2> QED
    BY <1>6, <1>t, <2>1, CloserFrame DEF Find
<1>7. ASSUME NEW n \in Node, NEW d \in DB \cup {Nil}, setFastDB(n, d) PROVE CloserInv'
  BY <1>7, <1>t, CloserFrame DEF setFastDB
<1>8. ASSUME Store \/ Settle PROVE CloserInv'
  BY <1>8, <1>t, CloserFrame DEF Store, Settle
<1>9. ASSUME NEW n \in Node, Crash(n) PROVE CloserInv'
  <2>1. \A p \in Node : ld'[p].pc = "peer" => p # n /\ ld'[p] = ld[p]
    BY <1>9, <1>t, NoLoadType DEF Crash, Reset, TypeOK
  <2>2. \A p \in Node : p # n => at'[p] = at[p] /\ pool'[p] = pool[p]
    BY <1>9, <1>t DEF Crash, Reset, TypeOK, Caller
  <2>3. pool'[n].kind = "http"
    BY <1>9, <1>t DEF Crash, TypeOK
  <2> QED
    BY <1>t, <2>1, <2>2, <2>3 DEF CloserInv, ListsSelf, AsksCloser
<1>10. ASSUME NEW n \in Node, NEW m \in Meta[n], handleMeta(n, m) PROVE CloserInv'
  <2>1. \A p \in Node : pool'[p].kind = "http" \/ p \in pool'[p].of
    BY <1>10, <1>t DEF handleMeta, TypeOK, CloserInv, ListsSelf, SelfListed
  <2> QED
    BY <1>10, <1>t, <2>1 DEF handleMeta, CloserInv, ListsSelf, AsksCloser
<1>11. CASE UNCHANGED vars
  BY <1>11, <1>t, CloserFrame DEF vars
<1> QED
  BY <1>1, <1>2, <1>3, <1>4, <1>5, <1>6, <1>7, <1>8, <1>9, <1>10, <1>11
     DEF Next, ReadNext, Quiescent

\* Loads never wait for each other in a circle of whatever length, although each
\* node picks the owner of the key from a list of its own: groupcache has no
\* timeout there, and the circle would last.
THEOREM LoadsDoNotDeadlock ==
  ASSUME SelfListed
  PROVE  Spec => []NoWaitCycle
<1>1. CloserInv => NoWaitCycle
  <2> SUFFICES ASSUME CloserInv, NEW S \in SUBSET Node, S # {}
               PROVE  \E n \in S : ~WaitsFor(n) \/ at[n] \notin S
    BY DEF NoWaitCycle
  <2>1. PICK p \in S : \A q \in S : Dist[p] <= Dist[q]
    BY ClosestExists
  <2>2. SUFFICES ASSUME WaitsFor(p), at[p] \in S PROVE FALSE
    OBVIOUS
  <2>3. Dist[at[p]] < Dist[p]
    BY <2>2 DEF WaitsFor, CloserInv, AsksCloser
  <2>4. Dist[p] <= Dist[at[p]] /\ Dist[p] \in Nat /\ Dist[at[p]] \in Nat
    BY <2>1, <2>2, CacheNodeAssumption
  <2> QED
    BY <2>3, <2>4
<1>2. CloserInv /\ [Next]_vars => CloserInv'
  BY CloserStep
<1> QED
  BY <1>1, <1>2, CloserInit, PTL DEF Spec
=============================================================================
