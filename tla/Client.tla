------------------------------- MODULE Client -------------------------------
(***************************************************************************)
(* The client of oncekv: client/kv.go and client/client.go.                *)
(*                                                                         *)
(* Put and Get ask the server that was fast last time and, failing that,   *)
(* all servers at once: a goroutine for each, the first useful answer      *)
(* wins, a timer limits the wait.  Goroutines that come too late go on     *)
(* after the call has returned, and setFastDB and setFastCache run in      *)
(* goroutines of their own.  Calls run concurrently and concern one key.   *)
(*                                                                         *)
(* tryAllDBSet declares one `err' that its goroutines all assign without   *)
(* the lock: which value a goroutine sees is a matter of interleaving.     *)
(*                                                                         *)
(* The servers are external: an answer is any answer they can give.        *)
(***************************************************************************)
EXTENDS Naturals, FiniteSets

CONSTANTS DB, Cache,         \* the servers
          PutCall, GetCall,  \* the calls of Put and of Get
          Nil,               \* no server: the URL ""
          Listing,           \* the pairs of server lists the masters may report
          LeftFast,          \* what earlier calls may have left in fastCache
          MaxUpdates         \* bound on changes of the server lists

ASSUME ClientAssumption ==
  /\ Nil \notin DB \cup Cache
  /\ DB \cap Cache = {} /\ PutCall \cap GetCall = {}
  /\ Listing \subseteq (SUBSET DB) \X (SUBSET Cache)
  /\ LeftFast \subseteq Cache \cup {Nil}
  /\ MaxUpdates \in Nat

Call == PutCall \cup GetCall
Server == DB \cup Cache

VARIABLES
  dbs, caches,          \* the server lists
  fastDB, fastCache,    \* the last fast enough servers, Nil if none
  pc,                   \* pc[c]: where call c stands
  via,                  \* via[c]: the fast server it asks
  fan,                  \* fan[c]: the closure variables of its fan-outs
  said,                 \* history: said[c] are the answers c got, with their servers
  ret,                  \* ret[c]: what it returned
  setDB, setCache,      \* setDB[c], setCache[c]: its pending setFastDB, setFastCache
  updates

lists == <<dbs, caches, updates>>
closures == <<fan, said>>
vars == <<lists, fastDB, fastCache, pc, via, closures, ret, setDB, setCache>>

-----------------------------------------------------------------------------
(***************************************************************************)
(* Answers.                                                                *)
(***************************************************************************)
\* What a database says to POST /key.  handleSet answers HTTP 200 also when
\* the write failed ("internal").
SetAnswer == {"ok", "internal", "fail"}

\* kv.set looks at the HTTP status only.
IsOK(a) == a \in {"ok", "internal"}

\* What a cache says to GET /key/:key.
CacheAnswer == {"found", "notfound", "fail"}

\* What a database says to GET /key/:key, the URL of dbGetURLFormat.  It has a
\* route for /i/key/:key only, so the answer is 404 if there is one.
FindAnswer == {"notfound", "fail"}

\* An answer that tells whether the key is there; parseData lets no empty value
\* through.
Useful(a) == a \in {"found", "notfound"}

\* The durations find reports, in order: ideal, slow, requestTimeout.  An error
\* is always requestTimeout.
requestTimeout == 3
Duration(a) == IF Useful(a) THEN {1, 2} ELSE {requestTimeout}

Answers == SetAnswer \cup {"found", "notfound"}
Result == {"none", "nil", "found", "notfound", "fail", "timeout"}

\* A pending call of setFastDB or setFastCache; "no" if there is none.
Pending(S) == S \cup {Nil, "no"}

Stage == {"caches", "find", "set"}

\* The variables of a fan-out: whom it asks, who was answered, who has been
\* through the locked section, and fetched (or got), fastURL, err (or resErr),
\* minDuration.
FanOut == [to : SUBSET Server, answered : SUBSET Server, done : SUBSET Server,
           got : BOOLEAN, url : Server \cup {Nil},
           err : Answers \cup {"none"}, min : 1 .. requestTimeout]

AskAll(S) == [to |-> S, answered |-> {}, done |-> {}, got |-> FALSE, url |-> Nil,
              err |-> "none", min |-> requestTimeout]

TypeOK ==
  /\ dbs \subseteq DB /\ caches \subseteq Cache
  /\ fastDB \in DB \cup {Nil} /\ fastCache \in Cache \cup {Nil}
  /\ pc \in [Call -> {"idle", "fastSet", "set", "fastCache", "fastBody", "caches",
                      "fastFind", "find", "done"}]
  /\ via \in [Call -> Server \cup {Nil}]
  /\ fan \in [Call -> [Stage -> FanOut]]
  /\ said \in [Call -> SUBSET (Server \X Answers)]
  /\ ret \in [Call -> Result]
  /\ setDB \in [Call -> Pending(DB)] /\ setCache \in [Call -> Pending(Cache)]
  /\ updates \in Nat

\* newClient: the first update has found every server.  Earlier calls, which are
\* over, may have left a fast cache.
Init ==
  /\ dbs = DB /\ caches = Cache
  /\ fastDB = Nil /\ fastCache \in LeftFast
  /\ pc = [c \in Call |-> "idle"]
  /\ via = [c \in Call |-> Nil]
  /\ fan = [c \in Call |-> [g \in Stage |-> AskAll({})]]
  /\ said = [c \in Call |-> {}]
  /\ ret = [c \in Call |-> "none"]
  /\ setDB = [c \in Call |-> "no"] /\ setCache = [c \in Call |-> "no"]
  /\ updates = 0

Hear(c, s, a) == said' = [said EXCEPT ![c] = @ \cup {<<s, a>>}]

Return(c, r) ==
  /\ pc' = [pc EXCEPT ![c] = "done"]
  /\ via' = [via EXCEPT ![c] = Nil]
  /\ ret' = [ret EXCEPT ![c] = r]

\* Call c goes on by asking all of S; without any server it fails at once.
Start(c, g, S) ==
  \/ /\ S = {}
     /\ Return(c, "fail")
     /\ UNCHANGED fan
  \/ /\ S # {}
     /\ pc' = [pc EXCEPT ![c] = g]
     /\ via' = [via EXCEPT ![c] = Nil]
     /\ fan' = [fan EXCEPT ![c][g] = AskAll(S)]
     /\ UNCHANGED ret

\* Call c goes on by asking the fast server s.
Ask(c, g, s) ==
  /\ pc' = [pc EXCEPT ![c] = g]
  /\ via' = [via EXCEPT ![c] = s]
  /\ UNCHANGED <<fan, ret>>

\* go setFastDB(s)
GoSetFastDB(c, s) == setDB' = [setDB EXCEPT ![c] = s]

\* tryAllCaches up to its select, or what follows when it has nobody to ask;
\* kv.get up to its first request.
getDB(c) ==
  \/ fastDB = Nil /\ Start(c, "find", dbs)
  \/ fastDB # Nil /\ Ask(c, "fastFind", fastDB)

tryAllCaches(c) ==
  \/ caches = {} /\ getDB(c)
  \/ caches # {} /\ Start(c, "caches", caches)

(***************************************************************************)
(* Mutated forms of the actions below, with which the properties fail.     *)
(***************************************************************************)
\* tryAllDBSet whose result channel carries an `err' nobody assigns.
SetReturnsUnassigned(c) ==
  /\ pc[c] = "set" /\ fan[c]["set"].got
  /\ Return(c, "nil")
  /\ GoSetFastDB(c, fan[c]["set"].url)
  /\ UNCHANGED <<lists, fastDB, fastCache, closures, setCache>>

\* tryAllDBSet that counts one answer too many.
SetDoneLate(c, s) ==
  LET f == fan[c]["set"]
      first == ~f.got /\ IsOK(f.err)
  IN  /\ s \in f.answered \ f.done
      /\ fan' = [fan EXCEPT ![c]["set"] =
                   [f EXCEPT !.done = f.done \cup {s}, !.got = f.got \/ first,
                             !.url = IF first THEN s ELSE f.url]]
      /\ UNCHANGED <<lists, fastDB, fastCache, pc, via, said, ret, setDB, setCache>>

\* tryAllCaches whose last goroutine does not hand over its error.
CachesReturnNoError(c) ==
  /\ pc[c] = "caches" /\ fan[c]["caches"].got
  /\ Return(c, "found") /\ UNCHANGED fan
  /\ UNCHANGED <<lists, fastDB, fastCache, said, setDB, setCache>>

\* tryAllCaches that does not look at completeCount.
CacheDoneUncounted(c, s) ==
  LET f == fan[c]["caches"]
  IN  /\ s \in f.to \ f.done
      /\ \E a \in CacheAnswer :
           /\ fan' = [fan EXCEPT ![c]["caches"] =
                        [f EXCEPT !.done = f.done \cup {s}, !.got = f.got \/ Useful(a),
                                  !.err = a]]
           /\ Hear(c, s, a)
      /\ UNCHANGED <<lists, fastDB, fastCache, pc, via, ret, setDB, setCache>>

\* tryAllDBFind that starts again when its timer fires.
FindTimesOutRetries(c) ==
  /\ pc[c] = "find"
  /\ Start(c, "find", fan[c]["find"].to)
  /\ UNCHANGED <<lists, fastDB, fastCache, said, setDB, setCache>>

\* setFastDB that stores into fastCache.
setFastDBSwapped(c) ==
  /\ setDB[c] # "no"
  /\ fastCache' = setDB[c]
  /\ setDB' = [setDB EXCEPT ![c] = "no"]
  /\ UNCHANGED <<lists, fastDB, pc, via, closures, ret, setCache>>

-----------------------------------------------------------------------------
(***************************************************************************)
(* client.go.                                                              *)
(***************************************************************************)
\* update: the lists become what the masters say.
update(ds, cs) ==
  /\ <<ds, cs>> # <<dbs, caches>>
  /\ dbs' = ds /\ caches' = cs
  /\ updates < MaxUpdates /\ updates' = updates + 1
  /\ UNCHANGED <<fastDB, fastCache, pc, via, closures, ret, setDB, setCache>>

setFastDB(c) ==
  /\ setDB[c] # "no"
  /\ fastDB' = setDB[c]
  /\ setDB' = [setDB EXCEPT ![c] = "no"]
  /\ UNCHANGED <<lists, fastCache, pc, via, closures, ret, setCache>>

setFastCache(c) ==
  /\ setCache[c] # "no"
  /\ fastCache' = setCache[c]
  /\ setCache' = [setCache EXCEPT ![c] = "no"]
  /\ UNCHANGED <<lists, fastDB, pc, via, closures, ret, setDB>>

(***************************************************************************)
(* Put.                                                                    *)
(***************************************************************************)
Put(c) ==
  /\ c \in PutCall /\ pc[c] = "idle"
  /\ \/ fastDB = Nil /\ Start(c, "set", dbs)
     \/ fastDB # Nil /\ Ask(c, "fastSet", fastDB)
  /\ UNCHANGED <<lists, fastDB, fastCache, said, setDB, setCache>>

\* The fast database answers, in time or slowly; an error means tryAllDBSet.
FastSet(c) ==
  /\ pc[c] = "fastSet"
  /\ \E a \in SetAnswer :
       /\ Hear(c, via[c], a)
       /\ \/ /\ IsOK(a)
             /\ Return(c, "nil") /\ UNCHANGED fan
             /\ GoSetFastDB(c, Nil) \/ UNCHANGED setDB
          \/ /\ ~IsOK(a)
             /\ Start(c, "set", dbs)
             /\ UNCHANGED setDB
  /\ UNCHANGED <<lists, fastDB, fastCache, setCache>>

\* A goroutine of tryAllDBSet: kv.set returns into the shared err ...
SetAnswers(c, s) ==
  LET f == fan[c]["set"] IN
  /\ s \in f.to \ f.answered
  /\ \E a \in SetAnswer :
       /\ fan' = [fan EXCEPT ![c]["set"] =
                    [f EXCEPT !.answered = f.answered \cup {s}, !.err = a]]
       /\ Hear(c, s, a)
  /\ UNCHANGED <<lists, fastDB, fastCache, pc, via, ret, setDB, setCache>>

\* ... and its locked section reads err, whosever it is by then.
SetDone(c, s) ==
  LET f == fan[c]["set"]
      done == f.done \cup {s}
      first == ~f.got /\ (IsOK(f.err) \/ done = f.to)
  IN  /\ s \in f.answered \ f.done
      /\ fan' = [fan EXCEPT ![c]["set"] =
                   [f EXCEPT !.done = done, !.got = f.got \/ first,
                             !.url = IF first THEN s ELSE f.url]]
      /\ UNCHANGED <<lists, fastDB, fastCache, pc, via, said, ret, setDB, setCache>>

\* The select of tryAllDBSet: the err of the moment the sender evaluates it, or
\* the timer.
SetReturns(c) ==
  LET f == fan[c]["set"] IN
  /\ pc[c] = "set" /\ f.got
  /\ \/ /\ IsOK(f.err)
        /\ Return(c, "nil") /\ GoSetFastDB(c, f.url)
     \/ /\ ~IsOK(f.err)
        /\ Return(c, "fail") /\ UNCHANGED setDB
  /\ UNCHANGED <<lists, fastDB, fastCache, closures, setCache>>

SetTimesOut(c) ==
  /\ pc[c] = "set"
  /\ Return(c, "timeout")
  /\ GoSetFastDB(c, Nil)
  /\ UNCHANGED <<lists, fastDB, fastCache, closures, setCache>>

(***************************************************************************)
(* Get.                                                                    *)
(***************************************************************************)
Get(c) ==
  /\ c \in GetCall /\ pc[c] = "idle"
  /\ \/ fastCache = Nil /\ tryAllCaches(c)
     \/ fastCache # Nil /\ Ask(c, "fastCache", fastCache)
  /\ UNCHANGED <<lists, fastDB, fastCache, said, setDB, setCache>>

\* The fast cache has said a; an error means tryAllCaches.
FastCacheSays(c, a) ==
  /\ Hear(c, via[c], a)
  /\ \/ Useful(a) /\ Return(c, a) /\ UNCHANGED fan
     \/ ~Useful(a) /\ tryAllCaches(c)

\* The fast cache answers within idealResponseDuration, or does not.  Of an answer
\* 200 the body is still to be read ...
FastCache(c) ==
  /\ pc[c] = "fastCache"
  /\ \/ \E a \in {"notfound", "fail"} : FastCacheSays(c, a)
     \/ Ask(c, "fastBody", via[c]) /\ UNCHANGED said
  /\ UNCHANGED <<lists, fastDB, fastCache, setDB, setCache>>

\* ... by parseData, which no timer limits.
FastBody(c) ==
  /\ pc[c] = "fastBody"
  /\ \E a \in {"found", "fail"} : FastCacheSays(c, a)
  /\ UNCHANGED <<lists, fastDB, fastCache, setDB, setCache>>

\* A goroutine of tryAllCaches: find, then the locked section.  The last one
\* hands over whatever it has got, and lets fastCache be set.
CacheDone(c, s) ==
  LET f == fan[c]["caches"]
      done == f.done \cup {s}
      last == done = f.to
  IN  /\ s \in f.to \ f.done
      /\ \E a \in CacheAnswer : \E d \in Duration(a) :
           LET first == ~f.got /\ (Useful(a) \/ last)
               fastURL == IF d <= f.min THEN s ELSE f.url
           IN  /\ fan' = [fan EXCEPT ![c]["caches"] =
                            [f EXCEPT !.answered = f.answered \cup {s}, !.done = done,
                                      !.got = f.got \/ first,
                                      !.err = IF first THEN a ELSE f.err,
                                      !.min = IF d <= f.min THEN d ELSE f.min,
                                      !.url = fastURL]]
               /\ setCache' = IF last THEN [setCache EXCEPT ![c] = fastURL] ELSE setCache
               /\ Hear(c, s, a)
      /\ UNCHANGED <<lists, fastDB, fastCache, pc, via, ret, setDB>>

\* The select of tryAllCaches.  An error, or the timer, sends Get to the
\* databases.
CachesReturn(c) ==
  LET f == fan[c]["caches"] IN
  /\ pc[c] = "caches" /\ f.got
  /\ \/ Useful(f.err) /\ Return(c, f.err) /\ UNCHANGED fan
     \/ ~Useful(f.err) /\ getDB(c)
  /\ UNCHANGED <<lists, fastDB, fastCache, said, setDB, setCache>>

CachesTimeOut(c) ==
  /\ pc[c] = "caches"
  /\ getDB(c)
  /\ UNCHANGED <<lists, fastDB, fastCache, said, setDB, setCache>>

\* The fast database answers; an error means tryAllDBFind.  (The setFastDB that
\* would follow a slow value has no place here: there is never a value.)
FastFind(c) ==
  /\ pc[c] = "fastFind"
  /\ \E a \in FindAnswer :
       /\ Hear(c, via[c], a)
       /\ \/ /\ Useful(a)
             /\ Return(c, a) /\ UNCHANGED fan
          \/ /\ ~Useful(a)
             /\ Start(c, "find", dbs)
  /\ UNCHANGED <<lists, fastDB, fastCache, setDB, setCache>>

\* A goroutine of tryAllDBFind.  completeCount is never incremented: an error is
\* not handed over, not even by the last one.
FindDone(c, s) ==
  LET f == fan[c]["find"] IN
  /\ s \in f.to \ f.done
  /\ \E a \in FindAnswer :
       LET first == ~f.got /\ Useful(a)
       IN  /\ fan' = [fan EXCEPT ![c]["find"] =
                        [f EXCEPT !.answered = f.answered \cup {s},
                                  !.done = f.done \cup {s},
                                  !.got = f.got \/ first,
                                  !.err = IF first THEN a ELSE f.err,
                                  !.url = IF first THEN s ELSE f.url]]
           /\ Hear(c, s, a)
  /\ UNCHANGED <<lists, fastDB, fastCache, pc, via, ret, setDB, setCache>>

\* The select of tryAllDBFind.
FindReturns(c) ==
  LET f == fan[c]["find"] IN
  /\ pc[c] = "find" /\ f.got
  /\ Return(c, f.err)
  /\ GoSetFastDB(c, f.url)
  /\ UNCHANGED <<lists, fastDB, fastCache, closures, setCache>>

FindTimesOut(c) ==
  /\ pc[c] = "find"
  /\ Return(c, "timeout")
  /\ GoSetFastDB(c, Nil)
  /\ UNCHANGED <<lists, fastDB, fastCache, closures, setCache>>

-----------------------------------------------------------------------------
PutStep(c) ==
  \/ Put(c) \/ FastSet(c) \/ SetReturns(c) \/ SetTimesOut(c)
  \/ \E s \in DB : SetAnswers(c, s) \/ SetDone(c, s)

GetStep(c) ==
  \/ Get(c) \/ FastCache(c) \/ FastBody(c) \/ CachesReturn(c) \/ CachesTimeOut(c)
  \/ FastFind(c) \/ FindReturns(c) \/ FindTimesOut(c)
  \/ \E s \in Server : CacheDone(c, s) \/ FindDone(c, s)

\* The calls of the model are finitely many; when all have returned the client
\* is just there.
Quiescent ==
  /\ \A c \in Call : pc[c] = "done"
  /\ UNCHANGED vars

Next ==
  \/ \E c \in Call : PutStep(c) \/ GetStep(c) \/ setFastDB(c) \/ setFastCache(c)
  \/ \E l \in Listing : update(l[1], l[2])
  \/ Quiescent

Spec == Init /\ [][Next]_vars

(***************************************************************************)
(* Fairness: where a timer runs, it fires if nothing comes before.  That   *)
(* is so in find, with which Get asks the fast cache and the fast          *)
(* database, and in the select of a fan-out.  Nothing is assumed of what   *)
(* waits for a server without a timer (kv.set of the fast database, the    *)
(* body of the fast cache's answer, the goroutines of a fan-out), or of    *)
(* setFastDB and setFastCache.                                             *)
(***************************************************************************)
Fairness ==
  \A c \in Call :
    /\ WF_vars(FastCache(c)) /\ WF_vars(FastFind(c))
    /\ WF_vars(SetTimesOut(c)) /\ WF_vars(CachesTimeOut(c)) /\ WF_vars(FindTimesOut(c))

FairSpec == Spec /\ Fairness

-----------------------------------------------------------------------------
SaidBy(c, a) == {s \in Server : <<s, a>> \in said[c]}

\* Put returns nil only if a database has answered 200 to this very Put,
\* whatever the goroutines of tryAllDBSet do to the err they share.
PutIsAnswered ==
  \A c \in PutCall : ret[c] = "nil" => \E a \in SetAnswer : IsOK(a) /\ SaidBy(c, a) # {}

\* What Get returns is what some server has said to this very Get: never an
\* empty value without an error, never "not found" out of timeouts and errors.
GetIsBacked ==
  \A c \in GetCall : Useful(ret[c]) => SaidBy(c, ret[c]) # {}

\* When the last goroutine of tryAllDBSet or of tryAllCaches is done, there is
\* a result on the channel: the caller does not sit out the timer ("Fast fail",
\* client/README.md).
SetAndCachesFailFast ==
  \A c \in Call, g \in {"set", "caches"} :
    fan[c][g].to # {} /\ fan[c][g].done = fan[c][g].to => fan[c][g].got

\* A call waits for one server, and no timer runs.
Untimed(c) == pc[c] \in {"fastSet", "fastBody"}

\* Every Put and every Get returns, even if no server of a fan-out ever answers
\* and whatever the masters report meanwhile, unless the fast database never ends
\* a Put's request (kv.set), or the fast cache its answer to a Get (parseData):
\* only there does a silent server hold up a call for ever.
EveryCallReturns ==
  \A c \in Call :
    []<>~Untimed(c) => (pc[c] # "idle" ~> pc[c] = "done")
=============================================================================
