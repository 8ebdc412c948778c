---------------------------- MODULE ClientProofs ----------------------------
(***************************************************************************)
(* Proofs about Client, for any number of servers, of concurrent calls and *)
(* of changes of the server lists.                                         *)
(***************************************************************************)
EXTENDS Client, TLAPS

-----------------------------------------------------------------------------
(***************************************************************************)
(* Types, and what holds of a fan-out by itself: its servers, and the one  *)
(* it finds fast, are of the kind that its stage asks; a goroutine is      *)
(* through its locked section only after it was answered; tryAllDBFind     *)
(* hands over no error, and the others something when all are done.        *)
(***************************************************************************)
PC == {"idle", "fastSet", "set", "fastCache", "fastBody", "caches", "fastFind", "find",
       "done"}

Of(g) == IF g = "caches" THEN Cache ELSE DB

FanOK(g, f) ==
  /\ f \in FanOut
  /\ f.to \subseteq Of(g) /\ f.answered \subseteq f.to /\ f.done \subseteq f.answered
  /\ f.url \in Of(g) \cup {Nil}
  /\ g = "find" /\ f.got => Useful(f.err)
  /\ g # "find" /\ f.to # {} /\ f.done = f.to => f.got

FansOK == \A c \in Call, g \in Stage : FanOK(g, fan[c][g])

\* A call that asks a fast server asks a server.
AsksFast == {"fastSet", "fastFind", "fastCache", "fastBody"}
AsksOK == \A c \in Call : pc[c] \in AsksFast => via[c] \in Server

TypeInv == TypeOK /\ FansOK /\ AsksOK

\* A fan-out that begins is well formed, and is over only if it asks nobody.
LEMMA AskAllOK ==
  ASSUME NEW g \in Stage, NEW S \in SUBSET Of(g)
  PROVE  /\ FanOK(g, AskAll(S))
         /\ AskAll(S).to = S /\ AskAll(S).done = {} /\ AskAll(S).err = "none"
         /\ AskAll(S).got = FALSE
<1>1. S \subseteq Server
  BY DEF Of, Server
<1>2. AskAll(S) \in FanOut
  BY <1>1 DEF AskAll, FanOut, requestTimeout
<1> QED
  BY <1>2 DEF AskAll, FanOK

\* What it means to set one fan-out of one call.
LEMMA FanSet ==
  ASSUME TypeOK, NEW c \in Call, NEW g \in Stage, NEW F \in FanOut,
         fan' = [fan EXCEPT ![c][g] = F]
  PROVE  /\ fan' \in [Call -> [Stage -> FanOut]]
         /\ fan'[c][g] = F
         /\ \A k \in Call, h \in Stage : k # c \/ h # g => fan'[k][h] = fan[k][h]
<1>1. fan \in [Call -> [Stage -> FanOut]] /\ fan[c] \in [Stage -> FanOut]
  BY DEF TypeOK
<1>2. fan' = [fan EXCEPT ![c] = [fan[c] EXCEPT ![g] = F]]
  OBVIOUS
<1>3. /\ [fan[c] EXCEPT ![g] = F] \in [Stage -> FanOut]
      /\ [fan[c] EXCEPT ![g] = F][g] = F
      /\ \A h \in Stage : h # g => [fan[c] EXCEPT ![g] = F][h] = fan[c][h]
  BY <1>1
<1> QED
  BY <1>1, <1>2, <1>3

\* ... to a well-formed one.
LEMMA FansSet ==
  ASSUME TypeInv, NEW c \in Call, NEW g \in Stage, NEW F, FanOK(g, F),
         fan' = [fan EXCEPT ![c][g] = F]
  PROVE  fan' \in [Call -> [Stage -> FanOut]] /\ FansOK'
<1>1. F \in FanOut
  BY DEF FanOK
<1>2. \A k \in Call, h \in Stage : fan'[k][h] = IF k = c /\ h = g THEN F ELSE fan[k][h]
  BY <1>1, FanSet DEF TypeInv
<1>3. \A k \in Call, h \in Stage : FanOK(h, fan[k][h])
  BY DEF TypeInv, FansOK
<1>4. \A k \in Call, h \in Stage : FanOK(h, fan'[k][h])
  BY <1>2, <1>3
<1> QED
  BY <1>1, <1>4, FanSet DEF TypeInv, FansOK

\* What a call has heard are answers of servers.
LEMMA HearType ==
  ASSUME TypeOK, NEW c \in Call, NEW s \in Server, NEW a \in Answers, Hear(c, s, a)
  PROVE  /\ said' \in [Call -> SUBSET (Server \X Answers)]
         /\ <<s, a>> \in said'[c]
         /\ \A k \in Call : said[k] \subseteq said'[k]
BY DEF TypeOK, Hear

\* The parts of a step that move call c: where it stands, whom it asks, its
\* fan-outs and what it returned.
Moves ==
  /\ pc' \in [Call -> PC] /\ via' \in [Call -> Server \cup {Nil}]
  /\ ret' \in [Call -> Result]
  /\ fan' \in [Call -> [Stage -> FanOut]] /\ FansOK' /\ AsksOK'

\* A return.
LEMMA ReturnMoves ==
  ASSUME TypeInv, NEW c \in Call, NEW r \in Result, Return(c, r), UNCHANGED fan
  PROVE  Moves
<1>1. FansOK'
  BY DEF TypeInv, FansOK
<1> QED
  BY <1>1 DEF TypeInv, TypeOK, AsksOK, AsksFast, Return, Moves, PC

\* The start of a fan-out.
LEMMA StartMoves ==
  ASSUME TypeInv, NEW c \in Call, NEW g \in Stage, NEW S \in SUBSET Of(g), Start(c, g, S)
  PROVE  Moves
<1>1. CASE Return(c, "fail") /\ UNCHANGED fan
  BY <1>1, ReturnMoves DEF Result
<1>2. CASE /\ pc' = [pc EXCEPT ![c] = g]
           /\ via' = [via EXCEPT ![c] = Nil]
           /\ fan' = [fan EXCEPT ![c][g] = AskAll(S)]
           /\ UNCHANGED ret
  <2>1. fan' \in [Call -> [Stage -> FanOut]] /\ FansOK'
    BY <1>2, AskAllOK, FansSet
  <2>2. g \in PC \ AsksFast
    BY DEF Stage, PC, AsksFast
  <2>3. pc' \in [Call -> PC] /\ via' \in [Call -> Server \cup {Nil}]
    BY <1>2, <2>2 DEF TypeInv, TypeOK, PC
  <2>4. AsksOK'
    BY <1>2, <2>2 DEF TypeInv, TypeOK, AsksOK
  <2>5. ret' \in [Call -> Result]
    BY <1>2 DEF TypeInv, TypeOK
  <2> QED
    BY <2>1, <2>3, <2>4, <2>5 DEF Moves
<1> QED
  BY <1>1, <1>2 DEF Start

\* A question to a fast server.
LEMMA AskMoves ==
  ASSUME TypeInv, NEW c \in Call, NEW g \in PC, NEW s \in Server, Ask(c, g, s)
  PROVE  Moves
<1>1. FansOK'
  BY DEF TypeInv, FansOK, Ask
<1> QED
  BY <1>1 DEF TypeInv, TypeOK, AsksOK, Ask, Moves, PC

\* kv.get up to its first request.
LEMMA GetDBMoves ==
  ASSUME TypeInv, NEW c \in Call, getDB(c)
  PROVE  Moves
<1>1. dbs \subseteq Of("find") /\ "find" \in Stage /\ "fastFind" \in PC
  BY DEF TypeInv, TypeOK, Of, Stage, PC
<1>2. fastDB # Nil => fastDB \in Server
  BY DEF TypeInv, TypeOK, Server
<1> QED
  BY <1>1, <1>2, StartMoves, AskMoves DEF getDB

\* tryAllCaches up to its select, or kv.get.
LEMMA TryCachesMoves ==
  ASSUME TypeInv, NEW c \in Call, tryAllCaches(c)
  PROVE  Moves
<1>1. caches \subseteq Of("caches") /\ "caches" \in Stage
  BY DEF TypeInv, TypeOK, Of, Stage
<1> QED
  BY <1>1, GetDBMoves, StartMoves DEF tryAllCaches
-----------------------------------------------------------------------------
(***************************************************************************)
(* The goroutines of the fan-outs.                                         *)
(***************************************************************************)
\* A goroutine of stage g of call c has got the answer a of s: the fan-out stays
\* well formed, and its err is the answer or what it was.
Hears(c, g, s) ==
  \E a \in Answers, F \in FanOut :
    /\ FanOK(g, F) /\ fan' = [fan EXCEPT ![c][g] = F]
    /\ Hear(c, s, a) /\ F.err \in {a, fan[c][g].err}

\* The servers that a fan-out asks are servers.
LEMMA FanType ==
  ASSUME TypeInv, NEW c \in Call, NEW g \in Stage
  PROVE  FanOK(g, fan[c][g]) /\ fan[c][g] \in FanOut
BY DEF TypeInv, FansOK, FanOK

\* A goroutine of tryAllDBSet, answered.
LEMMA SetAnswersHears ==
  ASSUME TypeInv, NEW c \in Call, NEW s \in DB, SetAnswers(c, s)
  PROVE  Hears(c, "set", s)
<1> DEFINE f == fan[c]["set"]
<1>1. PICK a \in SetAnswer :
        /\ fan' = [fan EXCEPT ![c]["set"] =
                     [f EXCEPT !.answered = f.answered \cup {s}, !.err = a]]
        /\ Hear(c, s, a)
  BY DEF SetAnswers
<1>2. s \in f.to /\ FanOK("set", f)
  BY FanType DEF SetAnswers, Stage
<1>3. a \in Answers
  BY DEF Answers
<1> HIDE DEF f
<1> DEFINE F == [f EXCEPT !.answered = f.answered \cup {s}, !.err = a]
<1>4. F \in FanOut
  BY <1>2, <1>3 DEF FanOK, FanOut
<1>5. FanOK("set", F) /\ F.err = a
  BY <1>2, <1>4 DEF FanOK, FanOut
<1> HIDE DEF F
<1> QED
  BY <1>1, <1>3, <1>4, <1>5 DEF Hears, F

\* Its locked section.
LEMMA SetDoneFan ==
  ASSUME TypeInv, NEW c \in Call, NEW s \in DB, SetDone(c, s)
  PROVE  \E F \in FanOut : /\ FanOK("set", F) /\ fan' = [fan EXCEPT ![c]["set"] = F]
                           /\ F.err = fan[c]["set"].err
<1> DEFINE f == fan[c]["set"]
           done == f.done \cup {s}
           first == ~f.got /\ (IsOK(f.err) \/ done = f.to)
           F == [f EXCEPT !.done = done, !.got = f.got \/ first,
                          !.url = IF first THEN s ELSE f.url]
<1>1. fan' = [fan EXCEPT ![c]["set"] = F] /\ s \in f.answered
  BY DEF SetDone
<1>2. FanOK("set", f) /\ s \in Server
  BY FanType DEF Stage, Server
<1>3. first \in BOOLEAN /\ (done = f.to => f.got \/ first)
  OBVIOUS
<1> HIDE DEF f, first
<1>4. F \in FanOut /\ F.to = f.to /\ F.answered = f.answered /\ F.done = done
      /\ F.got = (f.got \/ first) /\ F.url = (IF first THEN s ELSE f.url) /\ F.err = f.err
  BY <1>1, <1>2, <1>3 DEF FanOK, FanOut
<1> HIDE DEF F
<1>5. FanOK("set", F)
  BY <1>1, <1>2, <1>3, <1>4 DEF FanOK, Of
<1> QED
  BY <1>1, <1>4, <1>5 DEF f

\* A goroutine of tryAllCaches; what it lets fastCache be set to is a cache.
LEMMA CacheDoneHears ==
  ASSUME TypeInv, NEW c \in Call, NEW s \in Server, CacheDone(c, s)
  PROVE  /\ Hears(c, "caches", s)
         /\ setCache' \in [Call -> Pending(Cache)]
<1> DEFINE f == fan[c]["caches"]
           done == f.done \cup {s}
           last == done = f.to
<1>1. PICK a \in CacheAnswer, d \in 1 .. requestTimeout :
        LET first == ~f.got /\ (Useful(a) \/ last)
            fastURL == IF d <= f.min THEN s ELSE f.url
        IN  /\ fan' = [fan EXCEPT ![c]["caches"] =
                         [f EXCEPT !.answered = f.answered \cup {s}, !.done = done,
                                   !.got = f.got \/ first,
                                   !.err = IF first THEN a ELSE f.err,
                                   !.min = IF d <= f.min THEN d ELSE f.min,
                                   !.url = fastURL]]
            /\ setCache' = IF last THEN [setCache EXCEPT ![c] = fastURL] ELSE setCache
            /\ Hear(c, s, a)
  <2>1. \A a \in CacheAnswer : Duration(a) \subseteq 1 .. requestTimeout
    BY DEF Duration, requestTimeout
  <2> QED
    BY <2>1 DEF CacheDone
<1> DEFINE first == ~f.got /\ (Useful(a) \/ last)
           fastURL == IF d <= f.min THEN s ELSE f.url
           min == IF d <= f.min THEN d ELSE f.min
           err == IF first THEN a ELSE f.err
           F == [f EXCEPT !.answered = f.answered \cup {s}, !.done = done,
                          !.got = f.got \/ first, !.err = err, !.min = min,
                          !.url = fastURL]
<1>2. FanOK("caches", f) /\ s \in f.to /\ s \in Cache
  BY FanType DEF CacheDone, Stage, FanOK, Of
<1>3. first \in BOOLEAN /\ (done = f.to => f.got \/ first)
  OBVIOUS
<1>4. a \in Answers
  BY DEF Answers, CacheAnswer, SetAnswer
<1>5. fastURL \in Cache \cup {Nil}
  BY <1>2 DEF FanOK, Of
<1>6. min \in 1 .. requestTimeout /\ err \in Answers \cup {"none"} /\ err \in {a, f.err}
  BY <1>2, <1>4 DEF FanOK, FanOut
<1>7. setCache' \in [Call -> Pending(Cache)]
  BY <1>1, <1>5 DEF TypeInv, TypeOK, Pending
<1>8. fan' = [fan EXCEPT ![c]["caches"] = F] /\ Hear(c, s, a)
  BY <1>1
<1> HIDE DEF f, first, fastURL, min, err
<1>9. F \in FanOut /\ F.to = f.to /\ F.answered = f.answered \cup {s} /\ F.done = done
      /\ F.got = (f.got \/ first) /\ F.url = fastURL /\ F.err = err
  BY <1>2, <1>3, <1>5, <1>6 DEF FanOK, FanOut, Server
<1> HIDE DEF F
<1>10. FanOK("caches", F)
  BY <1>2, <1>3, <1>5, <1>9 DEF FanOK, Of
<1> QED
  BY <1>4, <1>6, <1>7, <1>8, <1>9, <1>10 DEF Hears, f

\* A goroutine of tryAllDBFind.
LEMMA FindDoneHears ==
  ASSUME TypeInv, NEW c \in Call, NEW s \in Server, FindDone(c, s)
  PROVE  Hears(c, "find", s)
<1> DEFINE f == fan[c]["find"]
<1>1. PICK a \in FindAnswer :
        LET first == ~f.got /\ Useful(a)
        IN  /\ fan' = [fan EXCEPT ![c]["find"] =
                         [f EXCEPT !.answered = f.answered \cup {s},
                                   !.done = f.done \cup {s},
                                   !.got = f.got \/ first,
                                   !.err = IF first THEN a ELSE f.err,
                                   !.url = IF first THEN s ELSE f.url]]
            /\ Hear(c, s, a)
  BY DEF FindDone
<1> DEFINE first == ~f.got /\ Useful(a)
           url == IF first THEN s ELSE f.url
           err == IF first THEN a ELSE f.err
           F == [f EXCEPT !.answered = f.answered \cup {s}, !.done = f.done \cup {s},
                          !.got = f.got \/ first, !.err = err, !.url = url]
<1>2. FanOK("find", f) /\ s \in f.to /\ s \in DB
  BY FanType DEF FindDone, Stage, FanOK, Of
<1>3. first \in BOOLEAN
  OBVIOUS
<1>4. a \in Answers
  BY DEF Answers, FindAnswer, SetAnswer
<1>5. url \in DB \cup {Nil} /\ err \in Answers \cup {"none"} /\ err \in {a, f.err}
  BY <1>2, <1>4 DEF FanOK, FanOut, Of
<1>6. f.got \/ first => Useful(err)
  BY <1>2 DEF FanOK
<1>7. fan' = [fan EXCEPT ![c]["find"] = F] /\ Hear(c, s, a)
  BY <1>1
<1> HIDE DEF f, first, url, err
<1>8. F \in FanOut /\ F.to = f.to /\ F.answered = f.answered \cup {s} /\ F.done = f.done \cup {s}
      /\ F.got = (f.got \/ first) /\ F.url = url /\ F.err = err
  BY <1>2, <1>3, <1>5 DEF FanOK, FanOut, Server
<1> HIDE DEF F
<1>9. FanOK("find", F)
  BY <1>2, <1>5, <1>6, <1>8 DEF FanOK, Of
<1> QED
  BY <1>4, <1>5, <1>7, <1>8, <1>9 DEF Hears, f
-----------------------------------------------------------------------------
(***************************************************************************)
(* Every step keeps the types.                                             *)
(***************************************************************************)
\* The invariant holds initially.
LEMMA TypeInit == Init => TypeInv
<1> SUFFICES ASSUME Init PROVE TypeInv
  OBVIOUS
<1>1. \A g \in Stage : FanOK(g, AskAll({})) /\ AskAll({}) \in FanOut
  BY AskAllOK DEF FanOK
<1>2. TypeOK
  BY <1>1, ClientAssumption DEF Init, TypeOK, Pending, Result
<1> QED
  BY <1>1, <1>2 DEF Init, TypeInv, FansOK, AsksOK, AsksFast

\* A step that moves a call and leaves the rest well typed.
LEMMA TypeFrame ==
  ASSUME TypeInv, Moves, UNCHANGED <<lists, fastDB, fastCache>>,
         said' \in [Call -> SUBSET (Server \X Answers)],
         setDB' \in [Call -> Pending(DB)], setCache' \in [Call -> Pending(Cache)]
  PROVE  TypeInv'
BY DEF TypeInv, TypeOK, Moves, lists, PC

\* A step that moves no call.
LEMMA StillMoves ==
  ASSUME TypeInv, UNCHANGED <<pc, via, ret, fan>>
  PROVE  Moves
BY DEF TypeInv, TypeOK, FansOK, AsksOK, Moves, PC

\* A goroutine of a fan-out that was answered.
LEMMA HearsMoves ==
  ASSUME TypeInv, NEW c \in Call, NEW g \in Stage, NEW s \in Server, Hears(c, g, s),
         UNCHANGED <<pc, via, ret>>
  PROVE  Moves /\ said' \in [Call -> SUBSET (Server \X Answers)]
<1>1. PICK a \in Answers, F \in FanOut :
        FanOK(g, F) /\ fan' = [fan EXCEPT ![c][g] = F] /\ Hear(c, s, a)
  BY DEF Hears
<1>2. fan' \in [Call -> [Stage -> FanOut]] /\ FansOK'
  BY <1>1, FansSet
<1>3. said' \in [Call -> SUBSET (Server \X Answers)]
  BY <1>1, HearType DEF TypeInv
<1> QED
  BY <1>2, <1>3 DEF TypeInv, TypeOK, AsksOK, Moves, PC

\* go setFastDB
LEMMA GoType ==
  ASSUME TypeInv, NEW c \in Call, NEW s \in DB \cup {Nil}, GoSetFastDB(c, s)
  PROVE  setDB' \in [Call -> Pending(DB)]
BY DEF TypeInv, TypeOK, GoSetFastDB, Pending

\* The steps of Put keep the types.
LEMMA PutTypeStep ==
  ASSUME TypeInv, NEW c \in Call, PutStep(c)
  PROVE  TypeInv'
<1> USE DEF lists, closures
<1>s. "set" \in Stage /\ dbs \in SUBSET Of("set")
  BY DEF Stage, Of, TypeInv, TypeOK
<1>t. /\ said \in [Call -> SUBSET (Server \X Answers)]
      /\ setDB \in [Call -> Pending(DB)] /\ setCache \in [Call -> Pending(Cache)]
  BY DEF TypeInv, TypeOK
<1>r. {"nil", "fail", "timeout"} \subseteq Result
  BY DEF Result
<1>u. FanOK("set", fan[c]["set"])
  BY <1>s, FanType
<1>1. CASE Put(c)
  <2>1. fastDB # Nil => fastDB \in Server
    BY DEF TypeInv, TypeOK, Server
  <2>2. Moves
    BY <1>1, <1>s, <2>1, StartMoves, AskMoves DEF Put, PC
  <2> QED
    BY <1>1, <1>t, <2>2, TypeFrame DEF Put
<1>2. CASE FastSet(c)
  <2>1. via[c] \in Server
    BY <1>2 DEF FastSet, TypeInv, AsksOK, AsksFast
  <2>2. PICK a \in SetAnswer :
          /\ Hear(c, via[c], a)
          /\ \/ /\ Return(c, "nil") /\ UNCHANGED fan
                /\ GoSetFastDB(c, Nil) \/ UNCHANGED setDB
             \/ Start(c, "set", dbs) /\ UNCHANGED setDB
    BY <1>2 DEF FastSet
  <2>3. said' \in [Call -> SUBSET (Server \X Answers)]
    BY <2>1, <2>2, HearType DEF TypeInv, Answers
  <2>4. Moves
    BY <1>s, <1>r, <2>2, ReturnMoves, StartMoves
  <2>5. setDB' \in [Call -> Pending(DB)]
    BY <1>t, <2>2, GoType
  <2> QED
    BY <1>2, <1>t, <2>3, <2>4, <2>5, TypeFrame DEF FastSet
<1>3. CASE SetReturns(c)
  <2>1. fan[c]["set"].url \in DB \cup {Nil}
    BY <1>u DEF FanOK, Of
  <2>2. Moves
    BY <1>3, <1>r, ReturnMoves DEF SetReturns
  <2>3. setDB' \in [Call -> Pending(DB)]
    BY <1>3, <1>t, <2>1, GoType DEF SetReturns
  <2> QED
    BY <1>3, <1>t, <2>2, <2>3, TypeFrame DEF SetReturns
<1>4. CASE SetTimesOut(c)
  <2>1. Moves
    BY <1>4, <1>r, ReturnMoves DEF SetTimesOut
  <2>2. setDB' \in [Call -> Pending(DB)]
    BY <1>4, GoType DEF SetTimesOut
  <2> QED
    BY <1>4, <1>t, <2>1, <2>2, TypeFrame DEF SetTimesOut
<1>5. ASSUME NEW s \in DB, SetAnswers(c, s) PROVE TypeInv'
  <2>1. Hears(c, "set", s) /\ s \in Server
    BY <1>5, SetAnswersHears DEF Server
  <2>2. Moves /\ said' \in [Call -> SUBSET (Server \X Answers)]
    BY <1>5, <1>s, <2>1, HearsMoves DEF SetAnswers
  <2> QED
    BY <1>5, <1>t, <2>2, TypeFrame DEF SetAnswers
<1>6. ASSUME NEW s \in DB, SetDone(c, s) PROVE TypeInv'
  <2>1. fan' \in [Call -> [Stage -> FanOut]] /\ FansOK'
    BY <1>6, <1>s, SetDoneFan, FansSet
  <2>2. Moves
    BY <1>6, <2>1 DEF SetDone, Moves, TypeInv, TypeOK, AsksOK, PC
  <2> QED
    BY <1>6, <1>t, <2>2, TypeFrame DEF SetDone
<1> QED
  BY <1>1, <1>2, <1>3, <1>4, <1>5, <1>6 DEF PutStep

\* The steps of Get keep the types.
LEMMA GetTypeStep ==
  ASSUME TypeInv, NEW c \in Call, GetStep(c)
  PROVE  TypeInv'
<1> USE DEF lists, closures
<1>s. {"caches", "find"} \subseteq Stage /\ dbs \in SUBSET Of("find")
  BY DEF Stage, Of, TypeInv, TypeOK
<1>t. /\ said \in [Call -> SUBSET (Server \X Answers)]
      /\ setDB \in [Call -> Pending(DB)] /\ setCache \in [Call -> Pending(Cache)]
  BY DEF TypeInv, TypeOK
<1>r. "timeout" \in Result /\ \A a : Useful(a) => a \in Result
  BY DEF Result, Useful
<1>a. CacheAnswer \subseteq Answers /\ FindAnswer \subseteq Answers
  BY DEF Answers, CacheAnswer, FindAnswer, SetAnswer
<1>1. CASE Get(c)
  <2>1. fastCache # Nil => fastCache \in Server
    BY DEF TypeInv, TypeOK, Server
  <2>2. Moves
    BY <1>1, <2>1, TryCachesMoves, AskMoves DEF Get, PC
  <2> QED
    BY <1>1, <1>t, <2>2, TypeFrame DEF Get
<1>2. ASSUME NEW a \in CacheAnswer, FastCacheSays(c, a), via[c] \in Server,
             UNCHANGED <<lists, fastDB, fastCache, setDB, setCache>>
      PROVE  TypeInv'
  <2>1. said' \in [Call -> SUBSET (Server \X Answers)]
    BY <1>2, <1>a, HearType DEF TypeInv, FastCacheSays
  <2>2. Moves
    BY <1>2, <1>r, ReturnMoves, TryCachesMoves DEF FastCacheSays
  <2> QED
    BY <1>2, <1>t, <2>1, <2>2, TypeFrame
<1>10. CASE FastCache(c)
  <2>1. via[c] \in Server
    BY <1>10 DEF FastCache, TypeInv, AsksOK, AsksFast
  <2>2. CASE \E a \in {"notfound", "fail"} : FastCacheSays(c, a)
    BY <1>2, <1>10, <2>1, <2>2 DEF FastCache, CacheAnswer
  <2>3. CASE Ask(c, "fastBody", via[c]) /\ UNCHANGED said
    <3>1. Moves
      BY <2>1, <2>3, AskMoves DEF PC
    <3> QED
      BY <1>10, <1>t, <2>3, <3>1, TypeFrame DEF FastCache
  <2> QED
    BY <1>10, <2>2, <2>3 DEF FastCache
<1>11. CASE FastBody(c)
  <2>1. via[c] \in Server
    BY <1>11 DEF FastBody, TypeInv, AsksOK, AsksFast
  <2> QED
    BY <1>2, <1>11, <2>1 DEF FastBody, CacheAnswer
<1>3. CASE CachesReturn(c)
  <2>1. Moves
    BY <1>3, <1>r, ReturnMoves, GetDBMoves DEF CachesReturn
  <2> QED
    BY <1>3, <1>t, <2>1, TypeFrame DEF CachesReturn
<1>4. CASE CachesTimeOut(c)
  <2>1. Moves
    BY <1>4, GetDBMoves DEF CachesTimeOut
  <2> QED
    BY <1>4, <1>t, <2>1, TypeFrame DEF CachesTimeOut
<1>5. CASE FastFind(c)
  <2>1. via[c] \in Server
    BY <1>5 DEF FastFind, TypeInv, AsksOK, AsksFast
  <2>2. PICK a \in FindAnswer : /\ Hear(c, via[c], a)
                                /\ \/ Useful(a) /\ Return(c, a) /\ UNCHANGED fan
                                   \/ Start(c, "find", dbs)
    BY <1>5 DEF FastFind
  <2>3. said' \in [Call -> SUBSET (Server \X Answers)]
    BY <1>a, <2>1, <2>2, HearType DEF TypeInv
  <2>4. Moves
    BY <1>s, <1>r, <2>2, ReturnMoves, StartMoves
  <2> QED
    BY <1>5, <1>t, <2>3, <2>4, TypeFrame DEF FastFind
<1>6. CASE FindReturns(c)
  <2>1. FanOK("find", fan[c]["find"])
    BY <1>s, FanType
  <2>2. fan[c]["find"].url \in DB \cup {Nil} /\ fan[c]["find"].err \in Result
    BY <1>6, <1>r, <2>1 DEF FindReturns, FanOK, Of
  <2>3. Moves
    BY <1>6, <2>2, ReturnMoves DEF FindReturns
  <2>4. setDB' \in [Call -> Pending(DB)]
    BY <1>6, <2>2, GoType DEF FindReturns
  <2> QED
    BY <1>6, <1>t, <2>3, <2>4, TypeFrame DEF FindReturns
<1>7. CASE FindTimesOut(c)
  <2>1. Moves
    BY <1>7, <1>r, ReturnMoves DEF FindTimesOut
  <2>2. setDB' \in [Call -> Pending(DB)]
    BY <1>7, GoType DEF FindTimesOut
  <2> QED
    BY <1>7, <1>t, <2>1, <2>2, TypeFrame DEF FindTimesOut
<1>8. ASSUME NEW s \in Server, CacheDone(c, s) PROVE TypeInv'
  <2>1. Hears(c, "caches", s) /\ setCache' \in [Call -> Pending(Cache)]
    BY <1>8, CacheDoneHears
  <2>2. Moves /\ said' \in [Call -> SUBSET (Server \X Answers)]
    BY <1>8, <1>s, <2>1, HearsMoves DEF CacheDone
  <2> QED
    BY <1>8, <1>t, <2>1, <2>2, TypeFrame DEF CacheDone
<1>9. ASSUME NEW s \in Server, FindDone(c, s) PROVE TypeInv'
  <2>1. Hears(c, "find", s)
    BY <1>9, FindDoneHears
  <2>2. Moves /\ said' \in [Call -> SUBSET (Server \X Answers)]
    BY <1>9, <1>s, <2>1, HearsMoves DEF FindDone
  <2> QED
    BY <1>9, <1>t, <2>2, TypeFrame DEF FindDone
<1> QED
  BY <1>1, <1>10, <1>11, <1>3, <1>4, <1>5, <1>6, <1>7, <1>8, <1>9 DEF GetStep

\* Every step keeps the types.
LEMMA TypeStep == TypeInv /\ [Next]_vars => TypeInv'
<1> SUFFICES ASSUME TypeInv, [Next]_vars PROVE TypeInv'
  OBVIOUS
<1> USE DEF lists, closures
<1>1. ASSUME NEW c \in Call, PutStep(c) PROVE TypeInv'
  BY <1>1, PutTypeStep
<1>2. ASSUME NEW c \in Call, GetStep(c) PROVE TypeInv'
  BY <1>2, GetTypeStep
<1>3. ASSUME NEW c \in Call, setFastDB(c) PROVE TypeInv'
  <2>1. setDB' \in [Call -> Pending(DB)] /\ fastDB' \in DB \cup {Nil}
    BY <1>3 DEF setFastDB, TypeInv, TypeOK, Pending
  <2>2. FansOK' /\ AsksOK'
    BY <1>3 DEF setFastDB, TypeInv, FansOK, AsksOK
  <2> QED
    BY <1>3, <2>1, <2>2 DEF setFastDB, TypeInv, TypeOK
<1>4. ASSUME NEW c \in Call, setFastCache(c) PROVE TypeInv'
  <2>1. setCache' \in [Call -> Pending(Cache)] /\ fastCache' \in Cache \cup {Nil}
    BY <1>4 DEF setFastCache, TypeInv, TypeOK, Pending
  <2>2. FansOK' /\ AsksOK'
    BY <1>4 DEF setFastCache, TypeInv, FansOK, AsksOK
  <2> QED
    BY <1>4, <2>1, <2>2 DEF setFastCache, TypeInv, TypeOK
<1>5. ASSUME NEW l \in Listing, update(l[1], l[2]) PROVE TypeInv'
  <2>1. l[1] \subseteq DB /\ l[2] \subseteq Cache
    BY ClientAssumption
  <2>2. FansOK' /\ AsksOK'
    BY <1>5 DEF update, TypeInv, FansOK, AsksOK
  <2> QED
    BY <1>5, <2>1, <2>2 DEF update, TypeInv, TypeOK
<1>6. CASE UNCHANGED vars
  BY <1>6 DEF vars, TypeInv, TypeOK, FansOK, AsksOK
<1> QED
  BY <1>1, <1>2, <1>3, <1>4, <1>5, <1>6 DEF Next, Quiescent

\* The lists, the fast servers, the calls and their closures have their types.
THEOREM TypeCorrect == Spec => []TypeOK
<1>1. TypeInv => TypeOK
  BY DEF TypeInv
<1> QED
  BY <1>1, TypeInit, TypeStep, PTL DEF Spec

\* When every goroutine of tryAllDBSet or of tryAllCaches is through its locked
\* section, one of them has sent a result, whatever order they come in and
\* whosever err they read.
THEOREM FailFast == Spec => []SetAndCachesFailFast
<1>1. TypeInv => SetAndCachesFailFast
  BY DEF TypeInv, FansOK, FanOK, SetAndCachesFailFast, Stage
<1> QED
  BY <1>1, TypeInit, TypeStep, PTL DEF Spec
-----------------------------------------------------------------------------
(***************************************************************************)
(* Every result was said.  The err of a fan-out is on its way to the       *)
(* caller, so the invariant speaks of it too: whichever goroutine assigned *)
(* it, a server said it to this very call.                                 *)
(***************************************************************************)
Said(A, a) == \E s \in Server : <<s, a>> \in A

ErrIsSaid ==
  \A c \in Call, g \in Stage : fan[c][g].err = "none" \/ Said(said[c], fan[c][g].err)

RetOK(A, r) ==
  /\ Useful(r) => Said(A, r)
  /\ r = "nil" => \E a \in SetAnswer : IsOK(a) /\ Said(A, a)

RetIsSaid == \A c \in Call : RetOK(said[c], ret[c])

AnswerInv == TypeInv /\ ErrIsSaid /\ RetIsSaid

\* Nothing that was said is forgotten.
SaidStays == \A k \in Call : said[k] \subseteq said'[k]

\* What a step without goroutines leaves of the errs and the results: an err
\* stays or is cleared.
ErrsStay == \A k \in Call, h \in Stage : fan'[k][h].err \in {fan[k][h].err, "none"}
RetsStay == \A k \in Call : ret'[k] \in {ret[k], "fail"}

\* The invariant holds initially.
LEMMA AnswerInit == Init => AnswerInv
<1> SUFFICES ASSUME Init PROVE AnswerInv
  OBVIOUS
<1>1. TypeInv
  BY TypeInit
<1>2. AskAll({}).err = "none"
  BY DEF AskAll
<1> QED
  BY <1>1, <1>2 DEF Init, AnswerInv, ErrIsSaid, RetIsSaid, RetOK, Useful

\* Steps that add to what was said, err and results aside.
LEMMA AnswerFrame ==
  ASSUME AnswerInv, TypeInv', SaidStays,
         \A k \in Call, h \in Stage :
            fan'[k][h].err \in {fan[k][h].err, "none"} \/ Said(said'[k], fan'[k][h].err),
         \A k \in Call : ret'[k] \in {ret[k], "fail", "timeout"} \/ RetOK(said'[k], ret'[k])
  PROVE  AnswerInv'
<1>1. \A k \in Call : \A a : Said(said[k], a) => Said(said'[k], a)
  BY DEF SaidStays, Said
<1>2. ErrIsSaid'
  BY <1>1 DEF AnswerInv, ErrIsSaid
<1>3. \A k \in Call : RetOK(said[k], ret[k]) => RetOK(said'[k], ret[k])
  BY <1>1 DEF RetOK
<1>4. \A A : RetOK(A, "fail") /\ RetOK(A, "timeout")
  BY DEF RetOK, Useful
<1>5. RetIsSaid'
  BY <1>3, <1>4 DEF AnswerInv, RetIsSaid
<1> QED
  BY <1>2, <1>5 DEF AnswerInv

\* Returning sets one result.
LEMMA ReturnEffect ==
  ASSUME TypeInv, NEW c \in Call, NEW r, Return(c, r)
  PROVE  ret'[c] = r /\ \A k \in Call : k # c => ret'[k] = ret[k]
BY DEF TypeInv, TypeOK, Return

\* Going on to a fan-out clears its err, or fails.
LEMMA StartEffect ==
  ASSUME TypeInv, NEW c \in Call, NEW g \in Stage, NEW S \in SUBSET Of(g), Start(c, g, S)
  PROVE  ErrsStay /\ RetsStay
<1>1. CASE Return(c, "fail") /\ UNCHANGED fan
  BY <1>1, ReturnEffect DEF ErrsStay, RetsStay
<1>2. CASE fan' = [fan EXCEPT ![c][g] = AskAll(S)] /\ UNCHANGED ret
  <2>1. AskAll(S) \in FanOut /\ AskAll(S).err = "none"
    BY AskAllOK DEF FanOK
  <2>2. \A k \in Call, h \in Stage :
          fan'[k][h] = IF k = c /\ h = g THEN AskAll(S) ELSE fan[k][h]
    BY <1>2, <2>1, FanSet DEF TypeInv
  <2> QED
    BY <1>2, <2>1, <2>2 DEF ErrsStay, RetsStay
<1> QED
  BY <1>1, <1>2 DEF Start

\* kv.get.
LEMMA GetDBEffect ==
  ASSUME TypeInv, NEW c \in Call, getDB(c)
  PROVE  ErrsStay /\ RetsStay
<1>1. dbs \subseteq Of("find") /\ "find" \in Stage
  BY DEF TypeInv, TypeOK, Of, Stage
<1> QED
  BY <1>1, StartEffect DEF getDB, Ask, ErrsStay, RetsStay

\* tryAllCaches.
LEMMA TryCachesEffect ==
  ASSUME TypeInv, NEW c \in Call, tryAllCaches(c)
  PROVE  ErrsStay /\ RetsStay
<1>1. caches \subseteq Of("caches") /\ "caches" \in Stage
  BY DEF TypeInv, TypeOK, Of, Stage
<1> QED
  BY <1>1, StartEffect, GetDBEffect DEF tryAllCaches

\* A step that goes on keeps the invariant, whatever it hears.
LEMMA AnswerOn ==
  ASSUME AnswerInv, TypeInv', SaidStays, ErrsStay, RetsStay
  PROVE  AnswerInv'
BY AnswerFrame DEF ErrsStay, RetsStay

\* A return of what was said keeps it.
LEMMA AnswerReturn ==
  ASSUME AnswerInv, TypeInv', SaidStays, UNCHANGED fan, NEW c \in Call, NEW r, Return(c, r),
         r \in {"fail", "timeout"} \/ RetOK(said'[c], r)
  PROVE  AnswerInv'
<1>1. ret'[c] = r /\ \A k \in Call : k # c => ret'[k] = ret[k]
  BY ReturnEffect DEF AnswerInv
<1>3. \A k \in Call : ret'[k] \in {ret[k], "fail", "timeout"} \/ RetOK(said'[k], ret'[k])
  BY <1>1
<1>4. \A k \in Call, h \in Stage : fan'[k][h].err \in {fan[k][h].err, "none"}
  OBVIOUS
<1> QED
  BY <1>3, <1>4, AnswerFrame

\* A goroutine that was answered keeps it.
LEMMA AnswerHears ==
  ASSUME AnswerInv, TypeInv', NEW c \in Call, NEW g \in Stage, NEW s \in Server,
         Hears(c, g, s), UNCHANGED ret
  PROVE  AnswerInv'
<1>1. PICK a \in Answers, F \in FanOut :
        /\ fan' = [fan EXCEPT ![c][g] = F]
        /\ Hear(c, s, a) /\ F.err \in {a, fan[c][g].err}
  BY DEF Hears
<1>2. SaidStays /\ Said(said'[c], a)
  BY <1>1, HearType DEF AnswerInv, TypeInv, SaidStays, Said
<1>3. \A k \in Call, h \in Stage : fan'[k][h] = IF k = c /\ h = g THEN F ELSE fan[k][h]
  BY <1>1, FanSet DEF AnswerInv, TypeInv
<1>4. \A k \in Call, h \in Stage :
         fan'[k][h].err \in {fan[k][h].err, "none"} \/ Said(said'[k], fan'[k][h].err)
  BY <1>1, <1>2, <1>3 DEF Said
<1>5. \A k \in Call : ret'[k] = ret[k]
  OBVIOUS
<1> QED
  BY <1>2, <1>4, <1>5, AnswerFrame
\* The steps of Put keep it.
LEMMA AnswerPutStep ==
  ASSUME AnswerInv, NEW c \in Call, PutStep(c)
  PROVE  AnswerInv'
<1> USE DEF lists, closures
<1>t. TypeInv /\ TypeInv'
  BY PutTypeStep DEF AnswerInv
<1>s. "set" \in Stage /\ dbs \in SUBSET Of("set")
  BY <1>t DEF Stage, Of, TypeInv, TypeOK
<1>k. UNCHANGED said => SaidStays
  BY DEF SaidStays
<1>1. CASE Put(c)
  <2>1. ErrsStay /\ RetsStay
    BY <1>1, <1>s, <1>t, StartEffect DEF Put, Ask, ErrsStay, RetsStay
  <2> QED
    BY <1>1, <1>t, <1>k, <2>1, AnswerOn DEF Put
<1>2. CASE FastSet(c)
  <2>1. via[c] \in Server
    BY <1>2, <1>t DEF FastSet, TypeInv, AsksOK, AsksFast
  <2>2. PICK a \in SetAnswer :
          /\ Hear(c, via[c], a)
          /\ \/ IsOK(a) /\ Return(c, "nil") /\ UNCHANGED fan
             \/ Start(c, "set", dbs)
    BY <1>2 DEF FastSet
  <2>3. SaidStays /\ Said(said'[c], a)
    BY <1>t, <2>1, <2>2, HearType DEF TypeInv, Answers, SaidStays, Said
  <2>4. CASE IsOK(a) /\ Return(c, "nil") /\ UNCHANGED fan
    <3>1. RetOK(said'[c], "nil")
      BY <2>3, <2>4 DEF RetOK, Useful
    <3> QED
      BY <1>t, <2>3, <2>4, <3>1, AnswerReturn
  <2>5. CASE Start(c, "set", dbs)
    BY <1>s, <1>t, <2>3, <2>5, StartEffect, AnswerOn
  <2> QED
    BY <2>2, <2>4, <2>5
<1>3. CASE SetReturns(c)
  <2>1. CASE IsOK(fan[c]["set"].err) /\ Return(c, "nil")
    <3>1. fan[c]["set"].err \in SetAnswer /\ fan[c]["set"].err # "none"
      BY <2>1 DEF IsOK, SetAnswer
    <3>2. Said(said[c], fan[c]["set"].err)
      BY <1>s, <3>1 DEF AnswerInv, ErrIsSaid
    <3>3. UNCHANGED <<fan, said>>
      BY <1>3 DEF SetReturns
    <3>4. RetOK(said'[c], "nil")
      BY <2>1, <3>1, <3>2, <3>3 DEF RetOK, Useful
    <3> QED
      BY <1>t, <1>k, <2>1, <3>3, <3>4, AnswerReturn
  <2>2. CASE Return(c, "fail")
    BY <1>3, <1>t, <1>k, <2>2, AnswerReturn DEF SetReturns
  <2> QED
    BY <1>3, <2>1, <2>2 DEF SetReturns
<1>4. CASE SetTimesOut(c)
  BY <1>4, <1>t, <1>k, AnswerReturn DEF SetTimesOut
<1>5. ASSUME NEW s \in DB, SetAnswers(c, s) PROVE AnswerInv'
  <2>1. Hears(c, "set", s) /\ s \in Server
    BY <1>5, <1>t, SetAnswersHears DEF Server
  <2> QED
    BY <1>5, <1>s, <1>t, <2>1, AnswerHears DEF SetAnswers
<1>6. ASSUME NEW s \in DB, SetDone(c, s) PROVE AnswerInv'
  <2>1. PICK F \in FanOut : /\ fan' = [fan EXCEPT ![c]["set"] = F]
                            /\ F.err = fan[c]["set"].err
    BY <1>6, <1>t, SetDoneFan
  <2>2. \A k \in Call, h \in Stage :
          fan'[k][h] = IF k = c /\ h = "set" THEN F ELSE fan[k][h]
    BY <1>s, <1>t, <2>1, FanSet DEF TypeInv
  <2>3. ErrsStay
    BY <2>1, <2>2 DEF ErrsStay
  <2>4. RetsStay
    BY <1>6 DEF SetDone, RetsStay
  <2> QED
    BY <1>6, <1>t, <1>k, <2>3, <2>4, AnswerOn DEF SetDone
<1> QED
  BY <1>1, <1>2, <1>3, <1>4, <1>5, <1>6 DEF PutStep

\* The steps of Get keep it.
LEMMA AnswerGetStep ==
  ASSUME AnswerInv, NEW c \in Call, GetStep(c)
  PROVE  AnswerInv'
<1> USE DEF lists, closures
<1>t. TypeInv /\ TypeInv'
  BY GetTypeStep DEF AnswerInv
<1>s. {"caches", "find"} \subseteq Stage /\ dbs \in SUBSET Of("find")
  BY <1>t DEF Stage, Of, TypeInv, TypeOK
<1>a. CacheAnswer \subseteq Answers /\ FindAnswer \subseteq Answers
  BY DEF Answers, CacheAnswer, FindAnswer, SetAnswer
<1>k. UNCHANGED said => SaidStays
  BY DEF SaidStays
<1>r. \A A, a : Useful(a) /\ Said(A, a) => RetOK(A, a)
  BY DEF RetOK, Useful
<1>e. ASSUME NEW g \in Stage, Useful(fan[c][g].err), UNCHANGED said
      PROVE  RetOK(said'[c], fan[c][g].err)
  <2>1. Said(said[c], fan[c][g].err)
    BY <1>e DEF AnswerInv, ErrIsSaid, Useful
  <2> QED
    BY <1>e, <1>r, <2>1
<1>1. CASE Get(c)
  <2>1. ErrsStay /\ RetsStay
    BY <1>1, <1>t, TryCachesEffect DEF Get, Ask, ErrsStay, RetsStay
  <2> QED
    BY <1>1, <1>t, <1>k, <2>1, AnswerOn DEF Get
<1>2. ASSUME NEW a \in CacheAnswer, FastCacheSays(c, a), via[c] \in Server
      PROVE  AnswerInv'
  <2>1. SaidStays /\ Said(said'[c], a)
    BY <1>2, <1>a, <1>t, HearType DEF TypeInv, SaidStays, Said, FastCacheSays
  <2>2. CASE Useful(a) /\ Return(c, a) /\ UNCHANGED fan
    BY <1>r, <1>t, <2>1, <2>2, AnswerReturn
  <2>3. CASE tryAllCaches(c)
    BY <1>t, <2>1, <2>3, TryCachesEffect, AnswerOn
  <2> QED
    BY <1>2, <2>2, <2>3 DEF FastCacheSays
<1>10. CASE FastCache(c)
  <2>1. via[c] \in Server
    BY <1>10, <1>t DEF FastCache, TypeInv, AsksOK, AsksFast
  <2>2. CASE \E a \in {"notfound", "fail"} : FastCacheSays(c, a)
    BY <1>2, <2>1, <2>2 DEF CacheAnswer
  <2>3. CASE Ask(c, "fastBody", via[c]) /\ UNCHANGED said
    <3>1. ErrsStay /\ RetsStay
      BY <2>3 DEF Ask, ErrsStay, RetsStay
    <3> QED
      BY <1>t, <1>k, <2>3, <3>1, AnswerOn
  <2> QED
    BY <1>10, <2>2, <2>3 DEF FastCache
<1>11. CASE FastBody(c)
  <2>1. via[c] \in Server
    BY <1>11, <1>t DEF FastBody, TypeInv, AsksOK, AsksFast
  <2> QED
    BY <1>2, <1>11, <2>1 DEF FastBody, CacheAnswer
<1>3. CASE CachesReturn(c)
  <2>1. CASE Useful(fan[c]["caches"].err) /\ Return(c, fan[c]["caches"].err) /\ UNCHANGED fan
    <3>1. UNCHANGED said
      BY <1>3 DEF CachesReturn
    <3> QED
      BY <1>s, <1>t, <1>k, <1>e, <2>1, <3>1, AnswerReturn
  <2>2. CASE getDB(c)
    BY <1>3, <1>t, <1>k, <2>2, GetDBEffect, AnswerOn DEF CachesReturn
  <2> QED
    BY <1>3, <2>1, <2>2 DEF CachesReturn
<1>4. CASE CachesTimeOut(c)
  BY <1>4, <1>t, <1>k, GetDBEffect, AnswerOn DEF CachesTimeOut
<1>5. CASE FastFind(c)
  <2>1. via[c] \in Server
    BY <1>5, <1>t DEF FastFind, TypeInv, AsksOK, AsksFast
  <2>2. PICK a \in FindAnswer : /\ Hear(c, via[c], a)
                                /\ \/ Useful(a) /\ Return(c, a) /\ UNCHANGED fan
                                   \/ Start(c, "find", dbs)
    BY <1>5 DEF FastFind
  <2>3. SaidStays /\ Said(said'[c], a)
    BY <1>a, <1>t, <2>1, <2>2, HearType DEF TypeInv, SaidStays, Said
  <2>4. CASE Useful(a) /\ Return(c, a) /\ UNCHANGED fan
    BY <1>r, <1>t, <2>3, <2>4, AnswerReturn
  <2>5. CASE Start(c, "find", dbs)
    BY <1>s, <1>t, <2>3, <2>5, StartEffect, AnswerOn
  <2> QED
    BY <2>2, <2>4, <2>5
<1>6. CASE FindReturns(c)
  <2>1. UNCHANGED <<fan, said>> /\ Return(c, fan[c]["find"].err) /\ fan[c]["find"].got
    BY <1>6 DEF FindReturns
  <2>2. Useful(fan[c]["find"].err)
    BY <1>s, <1>t, <2>1, FanType DEF FanOK
  <2> QED
    BY <1>s, <1>t, <1>k, <1>e, <2>1, <2>2, AnswerReturn
<1>7. CASE FindTimesOut(c)
  BY <1>7, <1>t, <1>k, AnswerReturn DEF FindTimesOut
<1>8. ASSUME NEW s \in Server, CacheDone(c, s) PROVE AnswerInv'
  BY <1>8, <1>s, <1>t, CacheDoneHears, AnswerHears DEF CacheDone
<1>9. ASSUME NEW s \in Server, FindDone(c, s) PROVE AnswerInv'
  BY <1>9, <1>s, <1>t, FindDoneHears, AnswerHears DEF FindDone
<1> QED
  BY <1>1, <1>10, <1>11, <1>3, <1>4, <1>5, <1>6, <1>7, <1>8, <1>9 DEF GetStep

\* Every step keeps it.
LEMMA AnswerStep == AnswerInv /\ [Next]_vars => AnswerInv'
<1> SUFFICES ASSUME AnswerInv, [Next]_vars PROVE AnswerInv'
  OBVIOUS
<1> USE DEF lists, closures
<1>1. ASSUME NEW c \in Call, PutStep(c) PROVE AnswerInv'
  BY <1>1, AnswerPutStep
<1>2. ASSUME NEW c \in Call, GetStep(c) PROVE AnswerInv'
  BY <1>2, AnswerGetStep
<1>3. ASSUME UNCHANGED <<fan, said, ret>> PROVE AnswerInv'
  <2>1. TypeInv'
    BY TypeStep DEF AnswerInv
  <2> QED
    BY <1>3, <2>1 DEF AnswerInv, ErrIsSaid, RetIsSaid
<1> QED
  BY <1>1, <1>2, <1>3 DEF Next, Quiescent, vars, setFastDB, setFastCache, update

\* A Put that returned nil was answered 200 by a database, although the
\* goroutines of tryAllDBSet overwrite each other's err without the lock.
THEOREM PutsAreAnswered == Spec => []PutIsAnswered
<1>1. AnswerInv => PutIsAnswered
  BY DEF AnswerInv, RetIsSaid, RetOK, Said, PutIsAnswered, SaidBy, Call
<1> QED
  BY <1>1, AnswerInit, AnswerStep, PTL DEF Spec

\* What Get returned, a value or "not found", a server said to it: neither a
\* fan-out that fails nor a late goroutine nor a timer makes it up.
THEOREM GetsAreBacked == Spec => []GetIsBacked
<1>1. AnswerInv => GetIsBacked
  BY DEF AnswerInv, RetIsSaid, RetOK, Said, GetIsBacked, SaidBy, Call
<1> QED
  BY <1>1, AnswerInit, AnswerStep, PTL DEF Spec
=============================================================================
