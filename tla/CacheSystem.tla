---------------------------- MODULE CacheSystem ----------------------------
(***************************************************************************)
(* Cache master and cache nodes together: the lists that the master posts  *)
(* (CacheMaster) are the ones by which the nodes look for the owner of the *)
(* key (CacheNode).                                                        *)
(***************************************************************************)
EXTENDS CacheMaster

CONSTANTS Call, To, Dist   \* as in CacheNode

VARIABLES main, hot, fastDB, setDB, ld, rq, at, ret, stored, settled, late, told, crashes

env == <<stored, settled, told, crashes>>
reads == <<main, hot, fastDB, setDB, ld, rq, at, ret, late, env>>

\* handleMeta and Crash are those of CacheMaster.
R == INSTANCE CacheNode WITH Meta <- [n \in Node |-> {}], MaxMeta <- 0, MaxCrashes <- 0

SystemInit == Init /\ R!ReadInit /\ told = 0

\* What is not the crash of a node leaves the reads alone.
MasterStep ==
  /\ Next
  /\ \A n \in Node : pc[n] \in {"joined", "up"} => pc'[n] # "down"
  /\ UNCHANGED reads

\* A node that crashes loses its caches and loads.
NodeCrash(n) ==
  /\ Crash(n)
  /\ R!Reset(n)
  /\ UNCHANGED env

\* A request, of a client or of a peer, is made of a node that listens.
ReadStep ==
  /\ R!ReadNext
  /\ \A c \in Call : rq[c] # rq'[c] => pc[To[c]] = "up"
  /\ \A n \in Node : rq'[n] = "get" => pc[at'[n]] = "up"
  /\ UNCHANGED <<master, etcd, dbList, pc, bounds>>

Written ==
  /\ R!Store \/ R!Settle
  /\ UNCHANGED <<master, etcd, dbList, pc, bounds>>

SystemNext == MasterStep \/ ReadStep \/ Written \/ \E n \in Node : NodeCrash(n)

SystemSpec == SystemInit /\ [][SystemNext]_<<vars, reads>>

-----------------------------------------------------------------------------
\* Loads of nodes do not wait for each other in a circle: a node without a
\* cached value gets it from the databases, cache/README.md says.  A load that
\* waits for its own end, through a peer, never gets there.
SystemNoWaitCycle == R!NoWaitCycle
=============================================================================
