----------------------------- MODULE CacheNode -----------------------------
(***************************************************************************)
(* How a cache node answers GET /key/:key: cache/node/node.go, and of      *)
(* groupcache what it relies on.                                           *)
(*                                                                         *)
(* groupcache looks into the caches of the node and else loads the key,    *)
(* one load at a time (singleflight): later callers wait for the load that *)
(* is under way.  A load asks the node that owns the key, which may be     *)
(* loading it itself, and if that fails fetchData asks the databases: the  *)
(* fast one, or all at once against a timer.                               *)
(*                                                                         *)
(* There is one key; its owner among some nodes is the closest one on the  *)
(* ring.  Goroutines of tryAllDBFind that come after its return only touch *)
(* variables nobody reads any more.                                        *)
(***************************************************************************)
EXTENDS Naturals, FiniteSets

CONSTANTS Node, DB,
          Call,        \* requests GET /key/:key
          To,          \* To[c]: the node that call c is sent to
          Dist,        \* Dist[n]: distance of n from the key on the ring
          Meta,        \* Meta[n]: what the master may tell n, [pool |-> .., dbs |-> ..]
          Nil,         \* no value, no server
          MaxMeta,     \* bound on handleMeta calls
          MaxCrashes   \* bound on restarts of nodes

Pool == [kind : {"http", "node"}, of : SUBSET Node]

ASSUME CacheNodeAssumption ==
  /\ Nil \notin DB \cup {"value", "empty"}
  /\ Call \cap Node = {}
  /\ To \in [Call -> Node]
  /\ Dist \in [Node -> Nat]
  /\ \A n, p \in Node : Dist[n] = Dist[p] => n = p
  /\ \A n \in Node : Meta[n] \subseteq [pool : Pool, dbs : SUBSET DB]
  /\ MaxMeta \in Nat /\ MaxCrashes \in Nat

VARIABLES
  pool,        \* pool[n]: the peers of n, by their HTTP or by their node addresses
  dbs,         \* dbs[n]: the databases n knows
  main, hot,   \* the two caches of groupcache: the value of the key, or Nil
  fastDB,      \* fastDB[n], Nil if none
  setDB,       \* setDB[n]: the arguments of setFastDB goroutines that have not run
  ld,          \* ld[n]: the load of the key at n
  rq,          \* rq[r]: where the Get of r stands
  at,          \* at[r]: the node at which it runs
  ret,         \* ret[r]: its result
  stored,      \* the key has been set
  settled,     \* ... and no database says otherwise any more
  late,        \* history: late[c] iff c was made after that, with no load under way
  told, crashes

views == <<pool, dbs, told>>
requests == <<rq, at, ret, late>>
env == <<stored, settled, crashes>>
caches == <<main, hot>>
fast == <<fastDB, setDB>>
vars == <<views, caches, fast, ld, requests, env>>

-----------------------------------------------------------------------------
\* A call of Group.Get: of handleGetKey, or of ServeHTTP for the load of a node.
Caller == Call \cup Node

\* What node.find returns: the value, ErrDataNotFound, or another error.
Answer == {"found", "notfound", "fail"}
Bytes(a) == IF a = "found" THEN "value" ELSE "empty"

\* The variables of a load: its stage; those of tryAllDBFind (dbs, who has
\* answered, got, fastURL, resErr).
Load == [pc : {"none", "pick", "peer", "fetch", "fast", "try", "all"},
         to : SUBSET DB, done : SUBSET DB, got : BOOLEAN, url : DB \cup {Nil},
         err : Answer]

NoLoad == [pc |-> "none", to |-> {}, done |-> {}, got |-> FALSE, url |-> Nil,
           err |-> "fail"]

TypeOK ==
  /\ pool \in [Node -> Pool] /\ dbs \in [Node -> SUBSET DB]
  /\ main \in [Node -> {"value", "empty", Nil}] /\ hot \in [Node -> {"value", "empty", Nil}]
  /\ fastDB \in [Node -> DB \cup {Nil}] /\ setDB \in [Node -> SUBSET (DB \cup {Nil})]
  /\ ld \in [Node -> Load]
  /\ rq \in [Caller -> {"idle", "get", "do", "wait", "done"}]
  /\ at \in [Caller -> Node]
  /\ ret \in [Caller -> Answer \cup {"none"}]
  /\ stored \in BOOLEAN /\ settled \in BOOLEAN
  /\ late \in [Call -> BOOLEAN]
  /\ told \in Nat /\ crashes \in Nat

\* What a database says: what it has is right (DBNode, ReadsAgree), but it may
\* miss a key that is stored.
Says == {"fail"} \cup (IF stored THEN {"found"} ELSE {})
                 \cup (IF settled THEN {} ELSE {"notfound"})

Cached(n) == main[n] # Nil \/ hot[n] # Nil

Owner(S) == CHOOSE p \in S : \A q \in S : Dist[p] <= Dist[q]

\* PickPeer (a mutated form) that never takes the node itself for the owner.
PeerNeverSelf(n) ==
  IF pool[n].kind = "http" \/ pool[n].of \subseteq {n} THEN {}
  ELSE {Owner(pool[n].of \ {n})}

\* PickPeer: the peers the load of n may ask.  An HTTP address is never the
\* node's own, and its server has no route for groupcache: asking it fails.
Peer(n) == IF pool[n].kind = "http" \/ pool[n].of = {} THEN {}
           ELSE {Owner(pool[n].of)} \ {n}

\* The read path as a node starts.
ReadInit ==
  /\ main = [n \in Node |-> Nil] /\ hot = [n \in Node |-> Nil]
  /\ fastDB = [n \in Node |-> Nil] /\ setDB = [n \in Node |-> {}]
  /\ ld = [n \in Node |-> NoLoad]
  /\ rq = [r \in Caller |-> "idle"]
  /\ at = [r \in Caller |-> IF r \in Call THEN To[r] ELSE r]
  /\ ret = [r \in Caller |-> "none"]
  /\ stored = FALSE /\ settled = FALSE
  /\ late = [c \in Call |-> FALSE]
  /\ crashes = 0

\* All nodes have joined, and had a heartbeat since.
Init ==
  /\ ReadInit
  /\ pool = [n \in Node |-> [kind |-> "node", of |-> Node]]
  /\ dbs = [n \in Node |-> DB]
  /\ told = 0

\* The load of n ends: everyone who waits for it gets its result.
EndLoad(n, a) ==
  LET waiting == {r \in Caller : rq[r] = "wait" /\ at[r] = n}
  IN  /\ ld' = [ld EXCEPT ![n] = NoLoad]
      /\ rq' = [r \in Caller |-> IF r \in waiting THEN "done" ELSE rq[r]]
      /\ ret' = [r \in Caller |-> IF r \in waiting THEN a ELSE ret[r]]
      /\ UNCHANGED <<at, late>>

\* populateCache, if the getter has returned no error.
Populate(n, a) ==
  main' = IF a = "found" THEN [main EXCEPT ![n] = Bytes(a)] ELSE main

\* The load of n goes on.
Goto(n, pc) == ld' = [ld EXCEPT ![n].pc = pc]

(***************************************************************************)
(* Mutated forms of the actions below, with which the properties fail.     *)
(***************************************************************************)
\* tryAllDBFind that sets the bytes of ErrDataNotFound and returns no error.
ReturnsNil(n) ==
  /\ ld[n].pc = "all" /\ ld[n].got
  /\ main' = [main EXCEPT ![n] = Bytes(ld[n].err)]
  /\ setDB' = [setDB EXCEPT ![n] = @ \cup {ld[n].url}]
  /\ EndLoad(n, "found")
  /\ UNCHANGED <<views, hot, fastDB, env>>

\* fetchData that takes any error of the fast database for ErrDataNotFound.
FastFindFailIsMiss(n) ==
  /\ ld[n].pc = "fast"
  /\ \E a \in Says :
       /\ EndLoad(n, IF a = "found" THEN a ELSE "notfound")
       /\ Populate(n, a)
  /\ UNCHANGED <<views, hot, fast, env>>

\* A load that gives up for its caller only when its timer fires.
TimesOutAlone(n) ==
  /\ ld[n].pc = "all"
  /\ ld' = [ld EXCEPT ![n] = NoLoad]
  /\ setDB' = [setDB EXCEPT ![n] = @ \cup {Nil}]
  /\ UNCHANGED <<views, caches, fastDB, requests, env>>

\* setFastDB that stores it as the only database.
setFastDBSwapped(n, d) ==
  /\ d \in setDB[n]
  /\ dbs' = [dbs EXCEPT ![n] = {d}]
  /\ setDB' = [setDB EXCEPT ![n] = @ \ {d}]
  /\ UNCHANGED <<pool, told, caches, fastDB, ld, requests, env>>

-----------------------------------------------------------------------------
(***************************************************************************)
(* The environment: databases and master.                                  *)
(***************************************************************************)
\* The key is written; later no database is behind any more.
Store ==
  /\ ~stored /\ stored' = TRUE
  /\ UNCHANGED <<views, caches, fast, ld, requests, settled, crashes>>

Settle ==
  /\ stored /\ ~settled /\ settled' = TRUE
  /\ UNCHANGED <<views, caches, fast, ld, requests, stored, crashes>>

\* handleMeta.  Lists that are equal to the node's are not set again.
handleMeta(n, m) ==
  /\ told < MaxMeta /\ told' = told + 1
  /\ <<m.pool, m.dbs>> # <<pool[n], dbs[n]>>
  /\ pool' = [pool EXCEPT ![n] = m.pool]
  /\ dbs' = [dbs EXCEPT ![n] = m.dbs]
  /\ UNCHANGED <<caches, fast, ld, requests, env>>

\* The process of n dies, and those it was serving are left with an error.
Reset(n) ==
  LET lost == {r \in Caller \ {n} : at[r] = n /\ rq[r] \in {"get", "do", "wait"}}
  IN  /\ main' = [main EXCEPT ![n] = Nil] /\ hot' = [hot EXCEPT ![n] = Nil]
      /\ fastDB' = [fastDB EXCEPT ![n] = Nil] /\ setDB' = [setDB EXCEPT ![n] = {}]
      /\ ld' = [ld EXCEPT ![n] = NoLoad]
      /\ rq' = [r \in Caller |-> IF r = n THEN "idle"
                                 ELSE IF r \in lost THEN "done" ELSE rq[r]]
      /\ ret' = [r \in Caller |-> IF r = n THEN "none"
                                  ELSE IF r \in lost THEN "fail" ELSE ret[r]]
      /\ at' = [at EXCEPT ![n] = n]
      /\ UNCHANGED late

\* It starts again and joins: JoinNode tells it the HTTP addresses of the nodes,
\* and no databases if the master has not looked for them yet.
Crash(n) ==
  /\ crashes < MaxCrashes /\ crashes' = crashes + 1
  /\ Reset(n)
  /\ pool' = [pool EXCEPT ![n] = [kind |-> "http", of |-> Node]]
  /\ \E D \in {{}, DB} : dbs' = [dbs EXCEPT ![n] = D]
  /\ UNCHANGED <<told, stored, settled>>

\* Another key has filled the caches, and one of them drops this one.
Evict(n) ==
  /\ \/ main[n] # Nil /\ main' = [main EXCEPT ![n] = Nil] /\ UNCHANGED hot
     \/ hot[n] # Nil /\ hot' = [hot EXCEPT ![n] = Nil] /\ UNCHANGED main
  /\ UNCHANGED <<views, fast, ld, requests, env>>

(***************************************************************************)
(* Group.Get.                                                              *)
(***************************************************************************)
\* lookupCache.
Get(r) ==
  \/ /\ Cached(at[r])
     /\ rq' = [rq EXCEPT ![r] = "done"]
     /\ ret' = [ret EXCEPT ![r] = "found"]
  \/ /\ ~Cached(at[r])
     /\ rq' = [rq EXCEPT ![r] = "do"]
     /\ UNCHANGED ret

handleGetKey(c) ==
  /\ c \in Call /\ rq[c] = "idle"
  /\ Get(c)
  /\ late' = [late EXCEPT ![c] = settled /\ \A n \in Node : ld[n].pc = "none"]
  /\ UNCHANGED <<views, caches, fast, ld, at, env>>

\* The peer that the load of n has asked receives the request.
ServeHTTP(n) ==
  /\ n \in Node /\ rq[n] = "get"
  /\ Get(n)
  /\ UNCHANGED <<views, caches, fast, ld, at, late, env>>

\* loadGroup.Do: wait for the load under way, or look again and start one.
Do(r) ==
  LET n == at[r] IN
  /\ rq[r] = "do"
  /\ \/ /\ ld[n].pc = "none" /\ Cached(n)
        /\ rq' = [rq EXCEPT ![r] = "done"]
        /\ ret' = [ret EXCEPT ![r] = "found"]
        /\ UNCHANGED ld
     \/ /\ ld[n].pc = "none" /\ ~Cached(n)
        /\ rq' = [rq EXCEPT ![r] = "wait"]
        /\ Goto(n, "pick")
        /\ UNCHANGED ret
     \/ /\ ld[n].pc # "none"
        /\ rq' = [rq EXCEPT ![r] = "wait"]
        /\ UNCHANGED <<ld, ret>>
  /\ UNCHANGED <<views, caches, fast, at, late, env>>

\* Ask the owner; if there is none, or it cannot be reached, load locally.
PickPeer(n) ==
  /\ ld[n].pc = "pick"
  /\ \/ \E p \in Peer(n) :
          /\ Goto(n, "peer")
          /\ rq' = [rq EXCEPT ![n] = "get"]
          /\ at' = [at EXCEPT ![n] = p]
          /\ ret' = [ret EXCEPT ![n] = "none"]
     \/ /\ Goto(n, "fetch")
        /\ UNCHANGED <<rq, at, ret>>
  /\ UNCHANGED <<views, caches, fast, late, env>>

\* getFromPeer has an answer.  One in ten values goes into the hot cache; an
\* error, "not found" included, means getLocally.
PeerReturns(n) ==
  /\ ld[n].pc = "peer" /\ rq[n] = "done"
  /\ \/ /\ ret[n] = "found"
        /\ EndLoad(n, "found")
        /\ hot' = [hot EXCEPT ![n] = Bytes("found")] \/ UNCHANGED hot
     \/ /\ ret[n] # "found"
        /\ Goto(n, "fetch")
        /\ UNCHANGED <<requests, hot>>
  /\ UNCHANGED <<views, main, fast, env>>

(***************************************************************************)
(* fetchData.                                                              *)
(***************************************************************************)
fetchData(n) ==
  /\ ld[n].pc = "fetch"
  /\ \/ fastDB[n] = Nil /\ Goto(n, "try")
     \/ fastDB[n] # Nil /\ Goto(n, "fast")
  /\ UNCHANGED <<views, caches, fast, requests, env>>

\* The fast database answers: a value or ErrDataNotFound is final.
FastFind(n) ==
  /\ ld[n].pc = "fast"
  /\ \E a \in Says :
       \/ /\ a # "fail"
          /\ EndLoad(n, a) /\ Populate(n, a)
          /\ UNCHANGED setDB
       \/ /\ a = "fail"
          /\ Goto(n, "try")
          /\ setDB' = [setDB EXCEPT ![n] = @ \cup {Nil}]
          /\ UNCHANGED <<main, requests>>
  /\ UNCHANGED <<views, hot, fastDB, env>>

tryAllDBFind(n) ==
  /\ ld[n].pc = "try"
  /\ \/ dbs[n] = {} /\ EndLoad(n, "fail")
     \/ /\ dbs[n] # {}
        /\ ld' = [ld EXCEPT ![n] = [NoLoad EXCEPT !.pc = "all", !.to = dbs[n]]]
        /\ UNCHANGED requests
  /\ UNCHANGED <<views, caches, fast, env>>

\* A goroutine of tryAllDBFind.  completeCount is never incremented: an error is
\* not handed over, not even by the last one.
Find(n, d) ==
  /\ ld[n].pc = "all" /\ d \in ld[n].to \ ld[n].done
  /\ \E a \in Says :
       LET l == ld[n]
           first == ~l.got /\ a # "fail"
       IN  ld' = [ld EXCEPT ![n] =
                    [l EXCEPT !.done = l.done \cup {d}, !.got = l.got \/ first,
                              !.url = IF first THEN d ELSE l.url,
                              !.err = IF first THEN a ELSE l.err]]
  /\ UNCHANGED <<views, caches, fast, requests, env>>

\* The select of tryAllDBFind.
Returns(n) ==
  /\ ld[n].pc = "all" /\ ld[n].got
  /\ Populate(n, ld[n].err)
  /\ setDB' = [setDB EXCEPT ![n] = @ \cup {ld[n].url}]
  /\ EndLoad(n, ld[n].err)
  /\ UNCHANGED <<views, hot, fastDB, env>>

TimesOut(n) ==
  /\ ld[n].pc = "all"
  /\ EndLoad(n, "fail")
  /\ setDB' = [setDB EXCEPT ![n] = @ \cup {Nil}]
  /\ UNCHANGED <<views, caches, fastDB, env>>

setFastDB(n, d) ==
  /\ d \in setDB[n]
  /\ fastDB' = [fastDB EXCEPT ![n] = d]
  /\ setDB' = [setDB EXCEPT ![n] = @ \ {d}]
  /\ UNCHANGED <<views, caches, ld, requests, env>>

-----------------------------------------------------------------------------
\* The steps of a load that no database holds up.
LoadGoesOn(n) ==
  \/ PickPeer(n) \/ PeerReturns(n) \/ fetchData(n) \/ tryAllDBFind(n)
  \/ Returns(n) \/ TimesOut(n)

LoadStep(n) == LoadGoesOn(n) \/ FastFind(n)

\* What the nodes do by themselves.
ReadNext ==
  \/ \E c \in Call : handleGetKey(c)
  \/ \E r \in Caller : Do(r)
  \/ \E n \in Node : \/ ServeHTTP(n) \/ LoadStep(n) \/ Evict(n)
                     \/ \E d \in DB \cup {Nil} : Find(n, d) \/ setFastDB(n, d)

\* The calls of the model are finitely many; when all are answered the nodes are
\* just there.
Quiescent ==
  /\ \A c \in Call : rq[c] = "done"
  /\ UNCHANGED vars

Next ==
  \/ ReadNext \/ Store \/ Settle \/ Quiescent
  \/ \E n \in Node : Crash(n) \/ \E m \in Meta[n] : handleMeta(n, m)

Spec == Init /\ [][Next]_vars

(***************************************************************************)
(* Fairness: handlers and loads go on, and the timer of tryAllDBFind       *)
(* fires.  Nothing is assumed of the databases: neither that the           *)
(* goroutines of tryAllDBFind get an answer, nor that the fast database    *)
(* answers fetchData, which no timer limits.                               *)
(***************************************************************************)
Fairness ==
  /\ \A r \in Caller : WF_vars(Do(r))
  /\ \A n \in Node : WF_vars(ServeHTTP(n)) /\ WF_vars(LoadGoesOn(n))

FairSpec == Spec /\ Fairness

-----------------------------------------------------------------------------
\* What a cache holds, and what a GET is answered as the value, is the value of
\* the key: never something that is not stored yet, never the empty bytes that
\* come with an error (fetchData sets them into the sink all the same).
CachedIsStored ==
  /\ \A n \in Node : main[n] \in {"value", Nil} /\ hot[n] \in {"value", Nil}
  /\ \A n \in Node : Cached(n) => stored
  /\ \A r \in Caller : ret[r] = "found" => stored

\* A miss is not remembered: once the databases all know the key and the loads
\* of before are over, no GET is answered "not found", through whatever nodes,
\* caches and fast databases it goes.
MissIsForgotten ==
  \A c \in Call : late[c] => ret[c] # "notfound"

\* The load of n waits for a load of the peer it has asked.
WaitsFor(n) == ld[n].pc = "peer" /\ rq[n] = "wait"

\* No loads wait for each other in a circle, although every node has its own
\* idea of who owns the key: each waits for a node closer to the key.  This
\* needs lists that name the node itself.
NoWaitCycle ==
  \A S \in SUBSET Node :
    S # {} => \E n \in S : ~WaitsFor(n) \/ at[n] \notin S

\* Every GET is answered, through whatever peers, restarts and lists it goes and
\* even if no database that is asked under the timer ever answers, unless a load
\* waits for ever for a fast database (fetchData, whose request has no timer):
\* that alone holds up a load and all who wait for it.
EveryGetReturns ==
  (\A n \in Node : []<>(ld[n].pc # "fast")) =>
    \A c \in Call : rq[c] # "idle" ~> rq[c] = "done"
=============================================================================
