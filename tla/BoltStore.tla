----------------------------- MODULE BoltStore -----------------------------
(***************************************************************************)
(* raftboltdb/bolt_store.go, the log of raft on disk, and raft as its      *)
(* caller.                                                                 *)
(*                                                                         *)
(* An operation that writes is one transaction of bolt: there is one at a  *)
(* time, nobody else sees it before Commit, and a crash before that undoes *)
(* it.  Keys are the indices as big-endian bytes, and a cursor goes        *)
(* through them in the order of the bytes.  (It goes through the pages as  *)
(* they were when the transaction began: what it deletes behind itself     *)
(* makes it skip nothing.)                                                 *)
(*                                                                         *)
(* Two goroutines write: the main loop of raft, and the one of snapshots,  *)
(* which looks for the range to compact before it has the database.        *)
(***************************************************************************)
EXTENDS Codec, FiniteSetsExt, Functions

CONSTANTS MaxIndex,      \* bound on indices
          MaxEntries,    \* bound on the entries of one call
          Trailing,      \* TrailingLogs
          Entry,
          Key, Number,   \* keys of the StableStore, and the numbers stored there
          Nil,
          MaxSnaps,      \* bound on snapshots
          MaxFaults      \* bound on crashes and failing Commits

Index == 0 .. MaxIndex

ASSUME BoltStoreAssumption ==
  /\ MaxIndex \in Nat /\ MaxEntries \in Nat /\ Trailing \in Nat
  /\ MaxSnaps \in Nat /\ MaxFaults \in Nat
  /\ Index \subseteq Uint /\ Number \subseteq Uint
  /\ Nil \notin Entry \cup Bytes

VARIABLES
  file,                      \* what is on disk: the two buckets, once they are made
  tx,                        \* the transaction that writes: its goroutine, call and buckets
  ret,                       \* ret[w]: what the call of goroutine w has returned
  main,                      \* where the main loop of raft is
  lastLog,                   \* raft's last log index, in memory
  snapIdx,                   \* the index of the last snapshot, which is on disk
  comp,                      \* where the compaction is
  failed,                    \* history: a Commit has failed
  snaps, faults

raft == <<main, lastLog>>
snapshot == <<snapIdx, comp, snaps>>
env == <<faults, failed>>
store == <<file, tx, ret>>
vars == <<store, raft, snapshot, env>>

-----------------------------------------------------------------------------
\* A value of the bucket "conf": a number, or no bytes at all.
Value == {uint64ToBytes(u) : u \in Number} \cup {<<>>}

\* The keys of the bucket "logs".
LogKey == {uint64ToBytes(i) : i \in Index}

File == [made : BOOLEAN, logs : UNION {[S -> Entry] : S \in SUBSET LogKey},
         conf : [Key -> Value \cup {Nil}]]

Writer == {"raft", "snapshot"}

Entries == UNION {[0 .. k - 1 -> Entry] : k \in 1 .. MaxEntries}
Call == [at : Index, es : Entries]

\* The arguments of a call, by its operation.
IsCall(c) ==
  \/ c.op = "New"
  \/ c.op = "StoreLogs" /\ c.at \in Index /\ c.es \in Entries
                        /\ \A i \in DOMAIN c.es : c.at + i \in Index
  \/ c.op = "DeleteRange" /\ c.min \in Index /\ c.max \in Index
  \/ c.op \in {"Set", "Add"} /\ c.k \in Key /\ c.v \in Value

TypeOK ==
  /\ file \in File
  /\ tx.by \in Writer \cup {"none"}
  /\ tx.by # "none" => IsCall(tx.call) /\ tx.file \in File
  /\ ret \in [Writer -> {"none", "busy", "ok", "err"}]
  /\ main \in [pc : {"down", "init", "idle", "delete", "store", "conf", "install"},
               call : Call \cup {Nil}]
  /\ lastLog \in Index /\ snapIdx \in Index
  /\ comp \in [pc : {"idle", "compact", "range", "delete"}, min : Index, max : Index]
  /\ failed \in BOOLEAN /\ snaps \in Nat /\ faults \in Nat

NoTx == [by |-> "none"]
Idle == [pc |-> "idle", call |-> Nil]
NoComp == [pc |-> "idle", min |-> 0, max |-> 0]

Init ==
  /\ file = [made |-> FALSE, logs |-> [k \in {} |-> Nil], conf |-> [k \in Key |-> Nil]]
  /\ tx = NoTx /\ ret = [w \in Writer |-> "none"]
  /\ main = [Idle EXCEPT !.pc = "down"] /\ lastLog = 0
  /\ snapIdx = 0 /\ comp = NoComp
  /\ failed = FALSE /\ snaps = 0 /\ faults = 0

(***************************************************************************)
(* Reading: a transaction of its own, of what is committed.                *)
(***************************************************************************)
keys == DOMAIN file.logs

\* The mutated form of LastIndex that returns the number of entries.
LastIndexCount == Cardinality(keys)

FirstIndex ==
  IF keys = {} THEN 0
  ELSE bytesToUint64(CHOOSE k \in keys : \A j \in keys \ {k} : Less(k, j))

LastIndex ==
  IF keys = {} THEN 0
  ELSE bytesToUint64(CHOOSE k \in keys : \A j \in keys \ {k} : Less(j, k))

\* ErrLogNotFound is Nil.
GetLog(idx) == IF uint64ToBytes(idx) \in keys THEN file.logs[uint64ToBytes(idx)] ELSE Nil

\* ErrKeyNotFound is Nil.
Get(k) == file.conf[k]

GetUint64(k) == IF Get(k) = Nil THEN Nil ELSE bytesToUint64(Get(k))

(***************************************************************************)
(* Writing: what the operations make of the buckets.                       *)
(***************************************************************************)
\* Store the entries es from index s on.
StoreLogs(s, es) ==
  LET new == {uint64ToBytes(s + i) : i \in DOMAIN es}
  IN  [file EXCEPT !.logs = [k \in keys \cup new |->
         IF k \in new THEN es[bytesToUint64(k) - s] ELSE file.logs[k]]]

\* DeleteRange (mutated) that stops at the last index of the range.
DeleteRangeExclusive(min, max) ==
  [file EXCEPT !.logs =
    Restrict(@, {k \in keys : Less(k, uint64ToBytes(min)) \/ bytesToUint64(k) >= max})]

\* From the first key that is not less than min, delete up to the first that is
\* more than max.
DeleteRange(min, max) ==
  LET from == {k \in keys : ~Less(k, uint64ToBytes(min))}
      deleted == {k \in from : \A j \in from : ~Less(k, j) => bytesToUint64(j) <= max}
  IN  [file EXCEPT !.logs = Restrict(@, keys \ deleted)]

Set(k, v) == [file EXCEPT !.conf[k] = v]

\* Add of a key that has a value, and not an empty one: ErrKeyDuplicated.
Duplicated(call) == call.op = "Add" /\ Get(call.k) \notin {Nil, <<>>}

\* initialize: make the buckets if they are not there.
initialize == [file EXCEPT !.made = TRUE]

\* The buckets as the call leaves them.
Written(call) ==
  CASE call.op = "New"         -> initialize
    [] Duplicated(call)        -> file
    [] call.op = "StoreLogs"   -> StoreLogs(call.at, call.es)
    [] call.op = "DeleteRange" -> DeleteRange(call.min, call.max)
    [] OTHER                   -> Set(call.k, call.v)

\* Begin(true), in a call of w, and what it does to the buckets.
Begin(w, call) ==
  /\ tx.by = "none"
  /\ tx' = [by |-> w, call |-> call, file |-> Written(call)]
  /\ ret' = [ret EXCEPT ![w] = "busy"]
  /\ UNCHANGED file

Commit ==
  /\ tx.by # "none" /\ ~Duplicated(tx.call)
  /\ file' = tx.file
  /\ tx' = NoTx
  /\ ret' = [ret EXCEPT ![tx.by] = "ok"]
  /\ UNCHANGED <<raft, snapshot, env>>

\* Add returns ErrKeyDuplicated.
Rollback ==
  /\ tx.by # "none" /\ Duplicated(tx.call)
  /\ tx' = NoTx
  /\ ret' = [ret EXCEPT ![tx.by] = "err"]
  /\ UNCHANGED <<file, raft, snapshot, env>>

\* What a Commit that fails has written may be there or not.
CommitFails ==
  /\ tx.by # "none" /\ ~Duplicated(tx.call) /\ faults < MaxFaults /\ faults' = faults + 1
  /\ file' \in {file, tx.file}
  /\ tx' = NoTx
  /\ ret' = [ret EXCEPT ![tx.by] = "err"]
  /\ failed' = TRUE
  /\ UNCHANGED <<raft, snapshot>>

\* w goes on after its call.
Returned(w) == ret[w] \in {"ok", "err"} /\ ret' = [ret EXCEPT ![w] = "none"]

-----------------------------------------------------------------------------
(***************************************************************************)
(* The main loop of raft.                                                  *)
(***************************************************************************)
\* getLastIndex.
lastIdx == Max({lastLog, snapIdx})

\* New.
Open ==
  /\ main.pc = "down"
  /\ Begin("raft", [op |-> "New"])
  /\ main' = [main EXCEPT !.pc = "init"]
  /\ UNCHANGED <<lastLog, snapshot, env>>

\* NewRaft takes the last index over.
NewRaft ==
  /\ main.pc = "init" /\ Returned("raft")
  /\ \/ /\ ret["raft"] = "ok"
        /\ main' = Idle /\ lastLog' = LastIndex
     \/ /\ ret["raft"] = "err"
        /\ main' = [main EXCEPT !.pc = "down"] /\ UNCHANGED lastLog
  /\ UNCHANGED <<file, tx, snapshot, env>>

Crash ==
  /\ main.pc # "down" /\ faults < MaxFaults /\ faults' = faults + 1
  /\ tx' = NoTx /\ ret' = [w \in Writer |-> "none"]
  /\ main' = [Idle EXCEPT !.pc = "down"] /\ lastLog' = 0
  /\ comp' = NoComp
  /\ UNCHANGED <<file, snapIdx, snaps, failed>>

\* appendEntries (and dispatchLogs, which appends after the last index): entries
\* whose predecessor is there.  Those from s on are cleared first, different or
\* not, in a transaction of its own.
appendEntries(c) ==
  /\ main.pc = "idle" /\ c.at > 0
  /\ c.at - 1 \in {0, lastIdx} \/ GetLog(c.at - 1) # Nil
  /\ \A i \in DOMAIN c.es : c.at + i <= MaxIndex
  /\ \/ /\ c.at <= lastLog
        /\ Begin("raft", [op |-> "DeleteRange", min |-> c.at, max |-> lastLog])
        /\ main' = [pc |-> "delete", call |-> c]
     \/ /\ c.at > lastLog
        /\ Begin("raft", [op |-> "StoreLogs", at |-> c.at, es |-> c.es])
        /\ main' = [pc |-> "store", call |-> c]
  /\ UNCHANGED <<lastLog, snapshot, env>>

cleared ==
  LET c == main.call IN
  /\ main.pc = "delete"
  /\ \/ /\ ret["raft"] = "ok"
        /\ Begin("raft", [op |-> "StoreLogs", at |-> c.at, es |-> c.es])
        /\ main' = [main EXCEPT !.pc = "store"]
     \/ /\ ret["raft"] = "err" /\ Returned("raft")
        /\ main' = Idle
        /\ UNCHANGED <<file, tx>>
  /\ UNCHANGED <<lastLog, snapshot, env>>

\* appendEntries (mutated) that sets the last log to the end of the call.
appendedPast ==
  /\ main.pc = "store" /\ Returned("raft")
  /\ lastLog' = main.call.at + Cardinality(DOMAIN main.call.es)
  /\ main' = Idle
  /\ UNCHANGED <<file, tx, snapshot, env>>

\* setLastLog, if the entries are stored.
appended ==
  /\ main.pc = "store" /\ Returned("raft")
  /\ lastLog' = IF ret["raft"] = "ok"
                THEN main.call.at + Max(DOMAIN main.call.es) ELSE lastLog
  /\ main' = Idle
  /\ UNCHANGED <<file, tx, snapshot, env>>

\* SetUint64, as for the term, or Add.
SetConf(op, k, v) ==
  /\ main.pc = "idle"
  /\ Begin("raft", [op |-> op, k |-> k, v |-> v])
  /\ main' = [main EXCEPT !.pc = "conf"]
  /\ UNCHANGED <<lastLog, snapshot, env>>

SetUint64(k, u) == SetConf("Set", k, uint64ToBytes(u))

confSet ==
  /\ main.pc = "conf" /\ Returned("raft")
  /\ main' = Idle
  /\ UNCHANGED <<file, tx, lastLog, snapshot, env>>

(***************************************************************************)
(* Snapshots.                                                              *)
(***************************************************************************)
\* takeSnapshot: the snapshot of what is applied is on disk.
takeSnapshot(i) ==
  /\ main.pc \notin {"down", "init"} /\ comp.pc = "idle" /\ snaps < MaxSnaps
  /\ i \in snapIdx + 1 .. lastLog
  /\ snapIdx' = i /\ snaps' = snaps + 1
  /\ comp' = [comp EXCEPT !.pc = "compact"]
  /\ UNCHANGED <<store, raft, env>>

\* installSnapshot, of the leader: the main loop waits for the compaction.
installSnapshot(i) ==
  /\ main.pc = "idle" /\ comp.pc = "idle" /\ snaps < MaxSnaps
  /\ i \in snapIdx + 1 .. MaxIndex
  /\ snapIdx' = i /\ snaps' = snaps + 1
  /\ comp' = [comp EXCEPT !.pc = "compact"]
  /\ main' = [main EXCEPT !.pc = "install"]
  /\ UNCHANGED <<store, lastLog, env>>

installed ==
  /\ main.pc = "install" /\ comp.pc = "idle"
  /\ main' = Idle
  /\ UNCHANGED <<store, lastLog, snapshot, env>>

\* compactLogs (mutated) that keeps the trailing entries only.
compactLogsAll ==
  /\ comp.pc = "compact"
  /\ comp' = IF lastLog <= Trailing THEN NoComp
             ELSE [pc |-> "range", min |-> FirstIndex, max |-> lastLog - Trailing]
  /\ UNCHANGED <<store, raft, snapIdx, snaps, env>>

\* compactLogs: the range, ...
compactLogs ==
  /\ comp.pc = "compact"
  /\ comp' = IF lastLog <= Trailing THEN NoComp
             ELSE [pc |-> "range", min |-> FirstIndex, max |-> Min({snapIdx, lastLog - Trailing})]
  /\ UNCHANGED <<store, raft, snapIdx, snaps, env>>

\* ... and its deletion.
compact ==
  /\ comp.pc = "range"
  /\ Begin("snapshot", [op |-> "DeleteRange", min |-> comp.min, max |-> comp.max])
  /\ comp' = [comp EXCEPT !.pc = "delete"]
  /\ UNCHANGED <<raft, snapIdx, snaps, env>>

compacted ==
  /\ comp.pc = "delete" /\ Returned("snapshot")
  /\ comp' = NoComp
  /\ UNCHANGED <<file, tx, raft, snapIdx, snaps, env>>

Next ==
  \/ Open \/ NewRaft \/ Crash \/ Commit \/ Rollback \/ CommitFails
  \/ (\E c \in Call : appendEntries(c)) \/ cleared \/ appended
  \/ \E k \in Key : \/ \E u \in Number : SetUint64(k, u)
                    \/ \E v \in Value : SetConf("Add", k, v)
  \/ confSet
  \/ \E i \in Index : takeSnapshot(i) \/ installSnapshot(i)
  \/ installed \/ compactLogs \/ compact \/ compacted

Spec == Init /\ [][Next]_vars

-----------------------------------------------------------------------------
\* What is committed, by index.
LogOf(f) == [i \in {bytesToUint64(k) : k \in DOMAIN f.logs} |-> f.logs[uint64ToBytes(i)]]

Abstract == INSTANCE LogStore WITH log <- LogOf(file), conf <- file.conf, Blank <- {<<>>}

\* A call has the effect it has in LogStore, on indices as numbers, or none: the
\* order of the bytes is that of the numbers, a range is deleted as a whole and
\* nothing else, another goroutine's calls do not get lost, and a crash or a
\* failing Commit leaves no call half done.
ImplementsLogStore == Abstract!Spec

\* What is read while others write is what the committed log says: the ends of
\* the cursor are the smallest and the largest index, and a number is read back.
ReadsAreRight ==
  /\ main.pc \notin {"down", "init"} => file.made
  /\ FirstIndex = Abstract!FirstIndex /\ LastIndex = Abstract!LastIndex
  /\ \A i \in Index : GetLog(i) = Abstract!GetLog(i)
  /\ \A k \in Key, u \in Number : Get(k) = uint64ToBytes(u) => GetUint64(k) = u

\* As long as no Commit fails: the log on disk has every entry from the snapshot
\* to its end, so that a restart can replay it, whatever was cleared, compacted
\* with an old range and cut short by crashes; and raft, between its calls, knows
\* that end, or the snapshot covers it.
LogIsWhole ==
  ~failed =>
    /\ \A i \in snapIdx + 1 .. LastIndex : GetLog(i) # Nil
    /\ main.pc = "idle" => lastLog = LastIndex \/ {lastLog, LastIndex} \subseteq 0 .. snapIdx
=============================================================================
