------------------------------ MODULE LogStore ------------------------------
(***************************************************************************)
(* What raft expects of its LogStore and StableStore: a map from indices   *)
(* to entries and one from keys to values.  A call that succeeds has its   *)
(* whole effect at one moment before it returns; one that fails, or is cut *)
(* short, has that effect or none.  Indices are ordered as numbers.        *)
(***************************************************************************)
EXTENDS Integers, FiniteSetsExt, Functions

CONSTANTS Writer, Key,
          Nil,     \* no entry, no value
          Blank    \* the values that count as none for Add

VARIABLES log, conf,
          tx,      \* the call under way, tx.call of tx.by, or "none" has one
          ret      \* ret[w]: "busy", the result of w's last call, or "none"

Init ==
  /\ log = [i \in {} |-> Nil] /\ conf = [k \in Key |-> Nil]
  /\ tx.by = "none" /\ ret = [w \in Writer |-> "none"]

Called ==
  /\ tx.by = "none" /\ tx'.by \in Writer
  /\ ret' = [ret EXCEPT ![tx'.by] = "busy"]
  /\ UNCHANGED <<log, conf>>

StoreLogs(at, es) ==
  log' = [i \in DOMAIN log \cup {at + j : j \in DOMAIN es} |->
            IF i - at \in DOMAIN es THEN es[i - at] ELSE log[i]]

DeleteRange(min, max) ==
  log' = Restrict(log, {i \in DOMAIN log : i < min \/ max < i})

\* The call c.
Effect(c) ==
  \/ c.op = "New" /\ UNCHANGED <<log, conf>>
  \/ c.op = "StoreLogs" /\ StoreLogs(c.at, c.es) /\ UNCHANGED conf
  \/ c.op = "DeleteRange" /\ DeleteRange(c.min, c.max) /\ UNCHANGED conf
  \/ /\ c.op = "Set" \/ (c.op = "Add" /\ conf[c.k] \in Blank \cup {Nil})
     /\ conf' = [conf EXCEPT ![c.k] = c.v]
     /\ UNCHANGED log

Succeeds ==
  /\ tx.by # "none" /\ tx'.by = "none"
  /\ Effect(tx.call)
  /\ ret' = [ret EXCEPT ![tx.by] = "ok"]

Fails ==
  /\ tx.by # "none" /\ tx'.by = "none"
  /\ Effect(tx.call) \/ UNCHANGED <<log, conf>>
  /\ ret' = [ret EXCEPT ![tx.by] = "err"]

\* The caller goes on.
Returned ==
  /\ \E w \in Writer : ret[w] # "busy" /\ ret' = [ret EXCEPT ![w] = "none"]
  /\ UNCHANGED <<log, conf, tx>>

Crash ==
  /\ tx'.by = "none" /\ ret' = [w \in Writer |-> "none"]
  /\ UNCHANGED <<log, conf>>

FirstIndex == IF DOMAIN log = {} THEN 0 ELSE Min(DOMAIN log)
LastIndex == IF DOMAIN log = {} THEN 0 ELSE Max(DOMAIN log)
GetLog(i) == IF i \in DOMAIN log THEN log[i] ELSE Nil

Next == Called \/ Succeeds \/ Fails \/ Returned \/ Crash

Spec == Init /\ [][Next]_<<log, conf, tx, ret>>
=============================================================================
