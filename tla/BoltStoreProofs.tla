-------------------------- MODULE BoltStoreProofs --------------------------
(***************************************************************************)
(* Proofs about BoltStore, for every width of the keys, every number of    *)
(* indices, entries of a call, snapshots, crashes and failing commits.     *)
(* With the facts about the conversions in CodecProofs the bytes go away:  *)
(* the rest is about LogOf(file), the log by index.                        *)
(***************************************************************************)
EXTENDS BoltStore, CodecProofs, TLAPS

-----------------------------------------------------------------------------
(***************************************************************************)
(* The log by index.                                                       *)
(***************************************************************************)
\* The indices that have an entry in the buckets f.
Stored(f) == DOMAIN LogOf(f)

\* An index is encoded as a key of the bucket, and no two as the same one.
LEMMA IndexKey ==
  ASSUME NEW i \in Index
  PROVE  /\ i \in Nat /\ i \in Uint
         /\ uint64ToBytes(i) \in LogKey /\ bytesToUint64(uint64ToBytes(i)) = i
<1>1. i \in Uint
  BY BoltStoreAssumption
<1>2. i \in Nat
  BY DEF Index
<1> QED
  BY <1>1, <1>2, DecodeEncode DEF LogKey

\* A key of the bucket is the encoding of the index it is decoded to.
LEMMA KeyIndex ==
  ASSUME NEW k \in LogKey
  PROVE  bytesToUint64(k) \in Index /\ uint64ToBytes(bytesToUint64(k)) = k
<1>1. PICK i \in Index : k = uint64ToBytes(i)
  BY DEF LogKey
<1> QED
  BY <1>1, IndexKey

\* The order of the keys.
LEMMA IndexOrder ==
  ASSUME NEW i \in Index, NEW j \in Index
  PROVE  Less(uint64ToBytes(i), uint64ToBytes(j)) <=> i < j
BY IndexKey, OrderOfBytes

\* The buckets of a file.
LEMMA FileShape ==
  ASSUME NEW f \in File
  PROVE  /\ DOMAIN f.logs \subseteq LogKey
         /\ f.logs \in [DOMAIN f.logs -> Entry]
         /\ f.conf \in [Key -> Value \cup {Nil}] /\ f.made \in BOOLEAN
BY DEF File

\* An index has an entry if its key has one, and it is that one.
LEMMA LogByIndex ==
  ASSUME NEW f \in File
  PROVE  /\ Stored(f) \subseteq Index
         /\ \A i \in Index : i \in Stored(f) <=> uint64ToBytes(i) \in DOMAIN f.logs
         /\ \A i \in Stored(f) : LogOf(f)[i] = f.logs[uint64ToBytes(i)]
         /\ LogOf(f) \in [Stored(f) -> Entry]
<1>1. DOMAIN f.logs \subseteq LogKey
  BY FileShape
<1>2. Stored(f) = {bytesToUint64(k) : k \in DOMAIN f.logs}
  BY DEF Stored, LogOf
<1>3. Stored(f) \subseteq Index
  BY <1>1, <1>2, KeyIndex
<1>4. ASSUME NEW i \in Index PROVE i \in Stored(f) <=> uint64ToBytes(i) \in DOMAIN f.logs
  <2>1. ASSUME i \in Stored(f) PROVE uint64ToBytes(i) \in DOMAIN f.logs
    <3>1. PICK k \in DOMAIN f.logs : i = bytesToUint64(k)
      BY <1>2, <2>1
    <3> QED
      BY <1>1, <3>1, KeyIndex
  <2>2. ASSUME uint64ToBytes(i) \in DOMAIN f.logs PROVE i \in Stored(f)
    BY <1>2, <2>2, IndexKey
  <2> QED
    BY <2>1, <2>2
<1>5. ASSUME NEW i \in Stored(f) PROVE LogOf(f)[i] = f.logs[uint64ToBytes(i)]
  BY <1>2 DEF LogOf
<1>6. LogOf(f) \in [Stored(f) -> Entry]
  <2>1. \A i \in Stored(f) : f.logs[uint64ToBytes(i)] \in Entry
    BY <1>3, <1>4, FileShape
  <2>2. LogOf(f) = [i \in Stored(f) |-> f.logs[uint64ToBytes(i)]]
    BY <1>2 DEF LogOf
  <2> QED
    BY <2>1, <2>2
<1> QED
  BY <1>3, <1>4, <1>5, <1>6

\* Two logs are the same if they have the same entries.
LEMMA SameLog ==
  ASSUME NEW S, NEW T, NEW f \in [S -> Entry], NEW g \in [T -> Entry], S = T,
         \A i \in S : f[i] = g[i]
  PROVE  f = g
OBVIOUS

-----------------------------------------------------------------------------
(***************************************************************************)
(* What the operations write.                                              *)
(***************************************************************************)
\* The entries of a call go from 0 to its last one.
LEMMA EntriesShape ==
  ASSUME NEW es \in Entries
  PROVE  /\ \E n \in Nat : DOMAIN es = 0 .. n /\ Max(DOMAIN es) = n
         /\ DOMAIN es \subseteq Nat /\ es \in [DOMAIN es -> Entry]
<1>1. PICK k \in 1 .. MaxEntries : es \in [0 .. k - 1 -> Entry]
  BY DEF Entries
<1>2. k \in Nat /\ k >= 1
  BY BoltStoreAssumption
<1>3. DOMAIN es = 0 .. k - 1 /\ k - 1 \in Nat /\ k - 1 \in 0 .. k - 1
  BY <1>1, <1>2
<1>4. Max(0 .. k - 1) = k - 1
  <2>1. \A y \in 0 .. k - 1 : k - 1 >= y
    BY <1>2
  <2>2. ASSUME NEW x \in 0 .. k - 1, \A y \in 0 .. k - 1 : x >= y PROVE x = k - 1
    BY <1>2, <1>3, <2>2
  <2> QED
    BY <1>3, <2>1, <2>2 DEF Max
<1> QED
  BY <1>1, <1>3, <1>4

\* StoreLogs adds the entries at their indices.
LEMMA StoreLogsLog ==
  ASSUME file \in File, NEW s \in Index, NEW es \in Entries, \A j \in DOMAIN es : s + j \in Index
  PROVE  /\ StoreLogs(s, es) \in File
         /\ StoreLogs(s, es).conf = file.conf /\ StoreLogs(s, es).made = file.made
         /\ LogOf(StoreLogs(s, es)) =
              [i \in Stored(file) \cup {s + j : j \in DOMAIN es} |->
                IF i - s \in DOMAIN es THEN es[i - s] ELSE LogOf(file)[i]]
<1> DEFINE new == {uint64ToBytes(s + j) : j \in DOMAIN es}
           L == [k \in keys \cup new |-> IF k \in new THEN es[bytesToUint64(k) - s] ELSE file.logs[k]]
           W == StoreLogs(s, es)
           N == Stored(file) \cup {s + j : j \in DOMAIN es}
           R == [i \in N |-> IF i - s \in DOMAIN es THEN es[i - s] ELSE LogOf(file)[i]]
<1>1. DOMAIN es \subseteq Nat /\ es \in [DOMAIN es -> Entry] /\ s \in Nat
  BY EntriesShape, IndexKey
<1>2. keys \subseteq LogKey /\ file.logs \in [keys -> Entry]
  BY FileShape DEF keys
<1>3. ASSUME NEW i \in Index PROVE uint64ToBytes(i) \in new <=> i - s \in DOMAIN es
  <2>1. i \in Nat /\ bytesToUint64(uint64ToBytes(i)) = i
    BY IndexKey
  <2>2. ASSUME uint64ToBytes(i) \in new PROVE i - s \in DOMAIN es
    <3>1. PICK j \in DOMAIN es : uint64ToBytes(i) = uint64ToBytes(s + j)
      BY <2>2
    <3>2. bytesToUint64(uint64ToBytes(s + j)) = s + j
      BY IndexKey
    <3>3. i = s + j /\ j \in Nat
      BY <1>1, <2>1, <3>1, <3>2
    <3>4. i - s = j
      BY <1>1, <3>3
    <3> QED
      BY <3>4
  <2>3. ASSUME i - s \in DOMAIN es PROVE uint64ToBytes(i) \in new
    <3>1. s + (i - s) = i
      BY <1>1, <2>1
    <3> QED
      BY <2>3, <3>1
  <2> QED
    BY <2>2, <2>3
<1>4. new \subseteq LogKey
  BY IndexKey
<1>5. ASSUME NEW k \in keys \cup new PROVE L[k] \in Entry
  <2>1. CASE k \in new
    <3>1. k \in LogKey
      BY <1>4, <2>1
    <3>2. bytesToUint64(k) \in Index /\ uint64ToBytes(bytesToUint64(k)) = k
      BY <3>1, KeyIndex
    <3>3. bytesToUint64(k) - s \in DOMAIN es
      BY <1>3, <2>1, <3>2
    <3> QED
      BY <1>1, <2>1, <3>3
  <2>2. CASE k \notin new
    BY <1>2, <2>2
  <2> QED
    BY <2>1, <2>2
<1>6. W.logs = L /\ W.conf = file.conf /\ W.made = file.made
  BY DEF StoreLogs, File
<1>7. L \in [keys \cup new -> Entry] /\ keys \cup new \in SUBSET LogKey
  <2> HIDE DEF new
  <2> QED
    BY <1>2, <1>4, <1>5
<1>8. W \in File
  <2> HIDE DEF new, L
  <2>1. W = [file EXCEPT !.logs = L]
    BY DEF StoreLogs, L, new
  <2>2. L \in UNION {[S -> Entry] : S \in SUBSET LogKey}
    BY <1>7
  <2> HIDE DEF W
  <2> QED
    BY <2>1, <2>2 DEF File
<1> HIDE DEF W
<1>9. DOMAIN W.logs = keys \cup new
  BY <1>6
<1>10. N \subseteq Index
  BY LogByIndex
<1>11. ASSUME NEW i \in Index PROVE i \in N <=> i \in Stored(W)
  <2>1. i \in Stored(W) <=> uint64ToBytes(i) \in keys \cup new
    BY <1>8, <1>9, LogByIndex
  <2>2. i \in Stored(file) <=> uint64ToBytes(i) \in keys
    BY LogByIndex DEF keys
  <2>3. (\E j \in DOMAIN es : i = s + j) <=> i - s \in DOMAIN es
    <3>1. i \in Nat
      BY IndexKey
    <3>2. s + (i - s) = i
      BY <1>1, <3>1
    <3>3. \A j \in DOMAIN es : i = s + j => i - s = j
      BY <1>1, <3>1
    <3> QED
      BY <3>2, <3>3
  <2> QED
    BY <1>3, <2>1, <2>2, <2>3
<1>12. N = Stored(W)
  <2> HIDE DEF N
  <2>1. Stored(W) \subseteq Index
    BY <1>8, LogByIndex
  <2> QED
    BY <1>10, <1>11, <2>1
<1>13. ASSUME NEW i \in N PROVE LogOf(W)[i] = R[i]
  <2>1. i \in Index /\ uint64ToBytes(i) \in keys \cup new
    <3>1. i \in Index /\ i \in Stored(W)
      BY <1>10, <1>12
    <3> QED
      BY <1>8, <1>9, <3>1, LogByIndex
  <2>2. LogOf(W)[i] = L[uint64ToBytes(i)]
    BY <1>6, <1>8, <1>12, LogByIndex
  <2>3. bytesToUint64(uint64ToBytes(i)) = i
    BY <2>1, IndexKey
  <2>4. CASE uint64ToBytes(i) \in new
    <3>1. L[uint64ToBytes(i)] = es[i - s]
      BY <2>1, <2>3, <2>4
    <3>2. R[i] = es[i - s]
      BY <1>3, <2>1, <2>4
    <3> QED
      BY <2>2, <3>1, <3>2
  <2>5. CASE uint64ToBytes(i) \notin new
    <3>1. L[uint64ToBytes(i)] = file.logs[uint64ToBytes(i)] /\ uint64ToBytes(i) \in keys
      BY <2>1, <2>5
    <3>2. R[i] = LogOf(file)[i]
      BY <1>3, <2>1, <2>5
    <3>3. i \in Stored(file)
      BY <2>1, <3>1, LogByIndex DEF keys
    <3>4. LogOf(file)[i] = file.logs[uint64ToBytes(i)]
      BY <3>3, LogByIndex
    <3> QED
      BY <2>2, <3>1, <3>2, <3>4
  <2> QED
    BY <2>4, <2>5
<1>14. LogOf(W) = [i \in N |-> LogOf(W)[i]]
  <2>1. LogOf(W) \in [Stored(W) -> Entry]
    BY <1>8, LogByIndex
  <2> HIDE DEF N
  <2> QED
    BY <1>12, <2>1
<1>15. R = [i \in N |-> R[i]]
  <2> HIDE DEF N
  <2> QED
    OBVIOUS
<1>16. LogOf(W) = R
  <2> HIDE DEF R, N
  <2> QED
    BY <1>13, <1>14, <1>15
<1> QED
  BY <1>6, <1>8, <1>16 DEF W

\* DeleteRange deletes the entries with an index in its range, and no other.
LEMMA DeleteRangeLog ==
  ASSUME file \in File, NEW min \in Index, NEW max \in Index
  PROVE  /\ DeleteRange(min, max) \in File
         /\ DeleteRange(min, max).conf = file.conf /\ DeleteRange(min, max).made = file.made
         /\ LogOf(DeleteRange(min, max)) =
              Restrict(LogOf(file), {i \in Stored(file) : i < min \/ max < i})
<1> DEFINE from == {k \in keys : ~Less(k, uint64ToBytes(min))}
           deleted == {k \in from : \A j \in from : ~Less(k, j) => bytesToUint64(j) <= max}
           K == keys \ deleted
           W == DeleteRange(min, max)
           N == {i \in Stored(file) : i < min \/ max < i}
<1>1. keys \subseteq LogKey /\ file.logs \in [keys -> Entry]
  BY FileShape DEF keys
<1>2. min \in Nat /\ max \in Nat
  BY IndexKey
<1>3. ASSUME NEW k \in keys PROVE k \in from <=> bytesToUint64(k) >= min
  <2>1. bytesToUint64(k) \in Index /\ uint64ToBytes(bytesToUint64(k)) = k
    BY <1>1, KeyIndex
  <2>2. Less(k, uint64ToBytes(min)) <=> bytesToUint64(k) < min
    BY <2>1, IndexOrder
  <2>3. bytesToUint64(k) \in Nat
    BY <2>1, IndexKey
  <2> QED
    BY <1>2, <2>2, <2>3
<1>4. ASSUME NEW k \in keys
      PROVE  k \in deleted <=> min <= bytesToUint64(k) /\ bytesToUint64(k) <= max
  <2>1. bytesToUint64(k) \in Index /\ uint64ToBytes(bytesToUint64(k)) = k
    BY <1>1, KeyIndex
  <2>2. bytesToUint64(k) \in Nat
    BY <2>1, IndexKey
  <2>3. ASSUME NEW j \in keys
        PROVE  bytesToUint64(j) \in Nat /\ (Less(k, j) <=> bytesToUint64(k) < bytesToUint64(j))
    <3>1. bytesToUint64(j) \in Index /\ uint64ToBytes(bytesToUint64(j)) = j
      BY <1>1, KeyIndex
    <3> QED
      BY <2>1, <3>1, IndexKey, IndexOrder
  <2>4. ASSUME k \in deleted PROVE min <= bytesToUint64(k) /\ bytesToUint64(k) <= max
    <3>1. ~Less(k, k)
      BY <2>2, <2>3
    <3> QED
      BY <1>2, <1>3, <2>2, <2>4, <3>1
  <2>5. ASSUME min <= bytesToUint64(k), bytesToUint64(k) <= max PROVE k \in deleted
    <3>1. k \in from
      BY <1>2, <1>3, <2>2, <2>5
    <3>2. ASSUME NEW j \in from, ~Less(k, j) PROVE bytesToUint64(j) <= max
      <4>1. bytesToUint64(j) \in Nat /\ ~(bytesToUint64(k) < bytesToUint64(j))
        BY <2>3, <3>2
      <4> HIDE DEF from
      <4> QED
        BY <1>2, <2>2, <2>5, <4>1
    <3> QED
      BY <3>1, <3>2
  <2> QED
    BY <2>4, <2>5
<1>5. W.logs = Restrict(file.logs, K) /\ W.conf = file.conf /\ W.made = file.made
  BY DEF DeleteRange, File
<1>6. W \in File
  <2> HIDE DEF K
  <2>1. K \in SUBSET LogKey /\ K \subseteq keys
    BY <1>1 DEF K
  <2>2. Restrict(file.logs, K) \in [K -> Entry]
    BY <1>1, <2>1 DEF Restrict
  <2>3. W = [file EXCEPT !.logs = Restrict(file.logs, K)]
    BY DEF DeleteRange, K
  <2>4. Restrict(file.logs, K) \in UNION {[S -> Entry] : S \in SUBSET LogKey}
    BY <2>1, <2>2
  <2> HIDE DEF W
  <2> QED
    BY <2>3, <2>4 DEF File
<1> HIDE DEF W, from, deleted
<1>7. DOMAIN W.logs = K /\ \A k \in K : W.logs[k] = file.logs[k]
  BY <1>5 DEF Restrict
<1>8. ASSUME NEW i \in Index PROVE i \in N <=> i \in Stored(W)
  <2>1. i \in Stored(W) <=> uint64ToBytes(i) \in K
    BY <1>6, <1>7, LogByIndex
  <2>2. i \in Stored(file) <=> uint64ToBytes(i) \in keys
    BY LogByIndex DEF keys
  <2>3. i \in Nat /\ bytesToUint64(uint64ToBytes(i)) = i
    BY IndexKey
  <2>4. uint64ToBytes(i) \in keys => (uint64ToBytes(i) \in deleted <=> min <= i /\ i <= max)
    BY <1>4, <2>3
  <2> QED
    BY <1>2, <2>1, <2>2, <2>3, <2>4
<1>9. N \subseteq Index /\ Stored(W) \subseteq Index
  BY <1>6, LogByIndex
<1>10. N = Stored(W)
  <2> HIDE DEF N
  <2> QED
    BY <1>8, <1>9
<1>11. ASSUME NEW i \in N PROVE LogOf(W)[i] = LogOf(file)[i]
  <2>1. i \in Index /\ i \in Stored(W) /\ i \in Stored(file)
    BY <1>9, <1>10
  <2>2. uint64ToBytes(i) \in K
    BY <1>6, <1>7, <2>1, LogByIndex
  <2>3. LogOf(W)[i] = W.logs[uint64ToBytes(i)] /\ LogOf(file)[i] = file.logs[uint64ToBytes(i)]
    BY <1>6, <2>1, LogByIndex
  <2> QED
    BY <1>7, <2>2, <2>3
<1>12. LogOf(W) = [i \in N |-> LogOf(W)[i]]
  <2>1. LogOf(W) \in [Stored(W) -> Entry]
    BY <1>6, LogByIndex
  <2> HIDE DEF N
  <2> QED
    BY <1>10, <2>1
<1>13. LogOf(W) = Restrict(LogOf(file), N)
  <2> HIDE DEF N
  <2> QED
    BY <1>11, <1>12 DEF Restrict
<1> QED
  BY <1>5, <1>6, <1>13 DEF W

\* New, Set and Add leave the log alone.
LEMMA ConfLog ==
  ASSUME file \in File
  PROVE  /\ initialize \in File /\ initialize.made = TRUE
         /\ LogOf(initialize) = LogOf(file) /\ initialize.conf = file.conf
         /\ \A k \in Key, v \in Value :
              /\ Set(k, v) \in File /\ Set(k, v).made = file.made
              /\ LogOf(Set(k, v)) = LogOf(file)
              /\ Set(k, v).conf = [file.conf EXCEPT ![k] = v]
<1>1. initialize \in File /\ initialize.made = TRUE /\ initialize.logs = file.logs /\ initialize.conf = file.conf
  BY DEF initialize, File
<1>2. ASSUME NEW k \in Key, NEW v \in Value
      PROVE  /\ Set(k, v) \in File /\ Set(k, v).made = file.made
             /\ Set(k, v).logs = file.logs /\ Set(k, v).conf = [file.conf EXCEPT ![k] = v]
  <2>1. [file.conf EXCEPT ![k] = v] \in [Key -> Value \cup {Nil}]
    BY FileShape
  <2> QED
    BY <2>1 DEF Set, File
<1> QED
  BY <1>1, <1>2 DEF LogOf

-----------------------------------------------------------------------------
(***************************************************************************)
(* What is read.                                                           *)
(***************************************************************************)
\* A nonempty set of indices has a least and a greatest element.
LEMMA Ends ==
  ASSUME NEW S \in SUBSET Index, S # {}
  PROVE  /\ Min(S) \in S /\ \A i \in S : Min(S) <= i
         /\ Max(S) \in S /\ \A i \in S : i <= Max(S)
<1>1. S \subseteq Nat /\ MaxIndex \in Nat
  BY BoltStoreAssumption DEF Index
<1>2. \E m \in S : \A i \in S : m <= i
  BY <1>1, Least
<1>3. \E m \in S : \A i \in S : m >= i
  <2> DEFINE T == {MaxIndex - i : i \in S}
  <2>1. T \subseteq Nat /\ T # {}
    <3>1. \A i \in S : MaxIndex - i \in Nat
      BY <1>1 DEF Index
    <3>2. PICK i \in S : TRUE
      OBVIOUS
    <3> QED
      BY <3>1, <3>2
  <2> HIDE DEF T
  <2>2. PICK t \in T : \A j \in T : t <= j
    BY <2>1, Least
  <2>3. PICK m \in S : t = MaxIndex - m
    BY DEF T
  <2>4. ASSUME NEW i \in S PROVE m >= i
    <3>1. MaxIndex - i \in T
      BY DEF T
    <3>2. MaxIndex - m <= MaxIndex - i
      BY <2>2, <2>3, <3>1
    <3>3. m \in Nat /\ i \in Nat
      BY <1>1
    <3> QED
      BY <1>1, <3>2, <3>3
  <2> QED
    BY <2>4
<1>4. Min(S) \in S /\ \A i \in S : Min(S) <= i
  BY <1>2 DEF Min
<1>5. Max(S) \in S /\ \A i \in S : Max(S) >= i
  BY <1>3 DEF Max
<1>6. \A i \in S : i <= Max(S)
  BY <1>1, <1>5
<1> QED
  BY <1>4, <1>5, <1>6

\* The ends of the cursor are the least and the greatest index.
LEMMA CursorEnds ==
  ASSUME file \in File
  PROVE  /\ FirstIndex = IF Stored(file) = {} THEN 0 ELSE Min(Stored(file))
         /\ LastIndex = IF Stored(file) = {} THEN 0 ELSE Max(Stored(file))
         /\ FirstIndex \in Index /\ LastIndex \in Index
<1> DEFINE S == Stored(file)
           first == CHOOSE k \in keys : \A j \in keys \ {k} : Less(k, j)
           last == CHOOSE k \in keys : \A j \in keys \ {k} : Less(j, k)
<1>1. keys \subseteq LogKey
  BY FileShape DEF keys
<1>2. S \in SUBSET Index /\ \A i \in Index : i \in S <=> uint64ToBytes(i) \in keys
  BY LogByIndex DEF keys
<1>3. 0 \in Index
  BY BoltStoreAssumption DEF Index
<1>4. S = {} <=> keys = {}
  <2>1. ASSUME NEW k \in keys PROVE S # {}
    BY <1>1, <1>2, KeyIndex
  <2>2. ASSUME NEW i \in S PROVE keys # {}
    BY <1>2
  <2> QED
    BY <2>1, <2>2
<1>5. CASE S = {}
  BY <1>3, <1>4, <1>5 DEF FirstIndex, LastIndex
<1>6. CASE S # {}
  <2> HIDE DEF S
  <2>1. /\ Min(S) \in S /\ \A i \in S : Min(S) <= i
        /\ Max(S) \in S /\ \A i \in S : i <= Max(S)
    BY <1>2, <1>6, Ends
  <2>2. ASSUME NEW k \in keys
        PROVE  /\ bytesToUint64(k) \in S /\ bytesToUint64(k) \in Index
               /\ uint64ToBytes(bytesToUint64(k)) = k /\ bytesToUint64(k) \in Nat
    <3>1. bytesToUint64(k) \in Index /\ uint64ToBytes(bytesToUint64(k)) = k
      BY <1>1, KeyIndex
    <3> QED
      BY <1>2, <3>1, IndexKey
  <2>3. ASSUME NEW k \in keys, NEW j \in keys
        PROVE  Less(k, j) <=> bytesToUint64(k) < bytesToUint64(j)
    BY <2>2, IndexOrder
  <2> DEFINE a == uint64ToBytes(Min(S))
             z == uint64ToBytes(Max(S))
  <2>4. /\ a \in keys /\ bytesToUint64(a) = Min(S)
        /\ z \in keys /\ bytesToUint64(z) = Max(S)
    BY <1>2, <2>1, IndexKey
  <2> HIDE DEF a, z
  <2>5. ASSUME NEW j \in keys \ {a} PROVE Less(a, j)
    <3>1. bytesToUint64(a) <= bytesToUint64(j)
      BY <2>1, <2>2, <2>4
    <3>2. bytesToUint64(a) # bytesToUint64(j)
      BY <2>2, <2>4
    <3> QED
      BY <2>2, <2>3, <2>4, <3>1, <3>2
  <2>6. ASSUME NEW j \in keys \ {z} PROVE Less(j, z)
    <3>1. bytesToUint64(j) <= bytesToUint64(z)
      BY <2>1, <2>2, <2>4
    <3>2. bytesToUint64(z) # bytesToUint64(j)
      BY <2>2, <2>4
    <3> QED
      BY <2>2, <2>3, <2>4, <3>1, <3>2
  <2>7. first \in keys /\ \A j \in keys \ {first} : Less(first, j)
    BY <2>4, <2>5
  <2>8. last \in keys /\ \A j \in keys \ {last} : Less(j, last)
    BY <2>4, <2>6
  <2> HIDE DEF first, last
  <2>9. first = a
    <3> SUFFICES ASSUME first # a PROVE FALSE
      OBVIOUS
    <3>1. Less(first, a) /\ Less(a, first)
      BY <2>4, <2>5, <2>7
    <3> QED
      BY <2>2, <2>3, <2>4, <2>7, <3>1
  <2>10. last = z
    <3> SUFFICES ASSUME last # z PROVE FALSE
      OBVIOUS
    <3>1. Less(last, z) /\ Less(z, last)
      BY <2>4, <2>6, <2>8
    <3> QED
      BY <2>2, <2>3, <2>4, <2>8, <3>1
  <2>11. FirstIndex = bytesToUint64(first) /\ LastIndex = bytesToUint64(last)
    BY <1>4, <1>6 DEF FirstIndex, LastIndex, first, last
  <2> QED
    BY <1>2, <1>6, <2>1, <2>4, <2>9, <2>10, <2>11 DEF S
<1> QED
  BY <1>5, <1>6

\* GetLog finds what is stored, and says so of nothing else.
LEMMA GetLogIsStored ==
  ASSUME file \in File, NEW i \in Index
  PROVE  /\ GetLog(i) = IF i \in Stored(file) THEN LogOf(file)[i] ELSE Nil
         /\ GetLog(i) # Nil <=> i \in Stored(file)
<1>1. i \in Stored(file) <=> uint64ToBytes(i) \in keys
  BY LogByIndex DEF keys
<1>2. CASE i \in Stored(file)
  <2>1. GetLog(i) = LogOf(file)[i]
    BY <1>1, <1>2, LogByIndex DEF GetLog
  <2>2. LogOf(file)[i] \in Entry
    BY <1>2, LogByIndex
  <2>3. LogOf(file)[i] # Nil
    BY <2>2, BoltStoreAssumption
  <2> QED
    BY <1>2, <2>1, <2>3
<1>3. CASE i \notin Stored(file)
  BY <1>1, <1>3 DEF GetLog
<1> QED
  BY <1>2, <1>3

-----------------------------------------------------------------------------
(***************************************************************************)
(* Calls and transactions.                                                 *)
(***************************************************************************)
\* The buckets g are what the call c makes of the buckets f, by index.
Effected(f, g, c) ==
  /\ f.made => g.made
  /\ \/ c.op = "New" /\ g.made /\ LogOf(g) = LogOf(f) /\ g.conf = f.conf
     \/ /\ c.op = "StoreLogs" /\ g.conf = f.conf
        /\ LogOf(g) = [i \in Stored(f) \cup {c.at + j : j \in DOMAIN c.es} |->
                        IF i - c.at \in DOMAIN c.es THEN c.es[i - c.at] ELSE LogOf(f)[i]]
     \/ /\ c.op = "DeleteRange" /\ g.conf = f.conf
        /\ LogOf(g) = Restrict(LogOf(f), {i \in Stored(f) : i < c.min \/ c.max < i})
     \/ c.op = "Add" /\ f.conf[c.k] \notin {Nil, <<>>} /\ g = f
     \/ /\ c.op = "Set" \/ (c.op = "Add" /\ f.conf[c.k] \in {<<>>} \cup {Nil})
        /\ LogOf(g) = LogOf(f) /\ g.conf = [f.conf EXCEPT ![c.k] = c.v]

\* A transaction has the effect of its call.
LEMMA WrittenIsEffect ==
  ASSUME file \in File, NEW c, IsCall(c)
  PROVE  Written(c) \in File /\ Effected(file, Written(c), c)
<1>1. CASE c.op = "New"
  <2>1. Written(c) = initialize
    BY <1>1 DEF Written, Duplicated
  <2> QED
    BY <1>1, <2>1, ConfLog DEF Effected
<1>2. CASE c.op = "StoreLogs"
  <2>1. Written(c) = StoreLogs(c.at, c.es)
    BY <1>2 DEF Written, Duplicated
  <2>2. c.at \in Index /\ c.es \in Entries /\ \A i \in DOMAIN c.es : c.at + i \in Index
    BY <1>2 DEF IsCall
  <2> QED
    BY <1>2, <2>1, <2>2, StoreLogsLog DEF Effected
<1>3. CASE c.op = "DeleteRange"
  <2>1. Written(c) = DeleteRange(c.min, c.max)
    BY <1>3 DEF Written, Duplicated
  <2>2. c.min \in Index /\ c.max \in Index
    BY <1>3 DEF IsCall
  <2> QED
    BY <1>3, <2>1, <2>2, DeleteRangeLog DEF Effected
<1>4. CASE Duplicated(c)
  <2>1. Written(c) = file /\ c.op = "Add" /\ file.conf[c.k] \notin {Nil, <<>>}
    BY <1>4 DEF Written, Duplicated, Get
  <2> QED
    BY <2>1 DEF Effected
<1>5. CASE c.op \in {"Set", "Add"} /\ ~Duplicated(c)
  <2>1. Written(c) = Set(c.k, c.v)
    BY <1>5 DEF Written
  <2>2. c.k \in Key /\ c.v \in Value
    BY <1>5 DEF IsCall
  <2>3. c.op = "Set" \/ (c.op = "Add" /\ file.conf[c.k] \in {<<>>} \cup {Nil})
    BY <1>5 DEF Duplicated, Get
  <2> QED
    BY <2>1, <2>2, <2>3, ConfLog DEF Effected
<1> QED
  BY <1>1, <1>2, <1>3, <1>4, <1>5 DEF IsCall

\* The main loop waits for the call it has made.
RaftCall ==
  \/ main.pc = "init" /\ tx.call.op = "New"
  \/ main.pc = "delete" /\ tx.call = [op |-> "DeleteRange", min |-> main.call.at, max |-> lastLog]
  \/ main.pc = "store" /\ tx.call = [op |-> "StoreLogs", at |-> main.call.at, es |-> main.call.es]
  \/ main.pc = "conf" /\ tx.call.op \in {"Set", "Add"}

\* So does the snapshot goroutine.
SnapshotCall ==
  comp.pc = "delete" /\ tx.call = [op |-> "DeleteRange", min |-> comp.min, max |-> comp.max]

\* The transaction is that of the goroutine that waits, for its call, and will
\* leave in the buckets what the call makes of those on disk.
TxOK ==
  /\ \A w \in Writer : ret[w] = "busy" <=> tx.by = w
  /\ tx.by # "none" => Effected(file, tx.file, tx.call)
  /\ tx.by = "raft" => RaftCall
  /\ tx.by = "snapshot" => SnapshotCall

\* The entries that the main loop is about to append are entries of the log.
AppendOK ==
  main.pc \in {"delete", "store"} =>
    main.call \in Call /\ \A i \in DOMAIN main.call.es : main.call.at + i \in Index

\* The buckets are made before anything reads them.
BucketsMade ==
  main.pc \notin {"down", "init"} \/ (main.pc = "init" /\ ret["raft"] = "ok") => file.made

StoreInv == TypeOK /\ TxOK /\ AppendOK /\ BucketsMade

\* The invariant holds initially.
LEMMA StoreInit == Init => StoreInv
<1> SUFFICES ASSUME Init PROVE StoreInv
  OBVIOUS
<1>1. file \in File
  <2>1. [k \in {} |-> Nil] \in [{} -> Entry]
    OBVIOUS
  <2>2. [k \in {} |-> Nil] \in UNION {[S -> Entry] : S \in SUBSET LogKey}
    BY <2>1
  <2>3. [k \in Key |-> Nil] \in [Key -> Value \cup {Nil}]
    OBVIOUS
  <2> QED
    BY <2>2, <2>3 DEF Init, File
<1>2. 0 \in Index
  BY BoltStoreAssumption DEF Index
<1>3. TypeOK
  BY <1>1, <1>2 DEF Init, TypeOK, NoTx, Idle, NoComp
<1> QED
  BY <1>3 DEF Init, StoreInv, TxOK, AppendOK, BucketsMade, NoTx, Idle, Writer

\* A call begins: the transaction is that of the caller.
LEMMA Begins ==
  ASSUME StoreInv, NEW w \in Writer, NEW c, IsCall(c), Begin(w, c)
  PROVE  /\ file' = file /\ file \in File
         /\ tx'.by = w /\ tx'.call = c /\ tx'.file \in File
         /\ Effected(file', tx'.file, tx'.call)
         /\ ret' \in [Writer -> {"none", "busy", "ok", "err"}]
         /\ ret'[w] = "busy" /\ \A v \in Writer \ {w} : ret'[v] = ret[v] /\ ret[v] # "busy"
         /\ \A v \in Writer : ret'[v] = "busy" <=> tx'.by = v
<1>1. file \in File /\ ret \in [Writer -> {"none", "busy", "ok", "err"}]
  BY DEF StoreInv, TypeOK
<1>2. Written(c) \in File /\ Effected(file, Written(c), c)
  BY <1>1, WrittenIsEffect
<1>3. /\ tx.by = "none" /\ file' = file
      /\ tx' = [by |-> w, call |-> c, file |-> Written(c)]
      /\ ret' = [ret EXCEPT ![w] = "busy"]
  BY DEF Begin
<1>4. \A v \in Writer : ret[v] # "busy"
  BY <1>3 DEF StoreInv, TxOK, Writer
<1>5. tx'.by = w /\ tx'.call = c /\ tx'.file = Written(c)
  BY <1>3
<1>6. Effected(file', tx'.file, tx'.call)
  BY <1>2, <1>3, <1>5
<1> QED
  BY <1>1, <1>2, <1>3, <1>4, <1>5, <1>6

\* The caller goes on.
LEMMA Returns ==
  ASSUME StoreInv, NEW w \in Writer, Returned(w), UNCHANGED tx
  PROVE  /\ ret' \in [Writer -> {"none", "busy", "ok", "err"}]
         /\ ret'[w] = "none" /\ \A v \in Writer \ {w} : ret'[v] = ret[v]
         /\ \A v \in Writer : ret'[v] = "busy" <=> tx'.by = v
         /\ tx.by # w
BY DEF StoreInv, TypeOK, TxOK, Returned, Writer

\* The main loop is in Open.
LEMMA OpenStore == StoreInv /\ Open => StoreInv'
<1> SUFFICES ASSUME StoreInv, Open PROVE StoreInv'
  OBVIOUS
<1> DEFINE c == [op |-> "New"]
<1>1. IsCall(c) /\ "raft" \in Writer
  BY DEF IsCall, Writer
<1>2. Begin("raft", c) /\ c.op = "New"
  BY DEF Open
<1> HIDE DEF c
<1>3. /\ file' = file /\ tx'.by = "raft" /\ tx'.call = c /\ tx'.file \in File
      /\ Effected(file', tx'.file, tx'.call)
      /\ ret' \in [Writer -> {"none", "busy", "ok", "err"}] /\ ret'["raft"] = "busy"
      /\ \A v \in Writer : ret'[v] = "busy" <=> tx'.by = v
  BY <1>1, <1>2, Begins
<1>4. /\ main' = [main EXCEPT !.pc = "init"]
      /\ UNCHANGED <<lastLog, snapIdx, comp, snaps, failed, faults>>
  BY DEF Open, snapshot, env
<1>5. main'.pc = "init" /\ main'.call = main.call
  BY <1>4 DEF StoreInv, TypeOK
<1>6. TypeOK'
  BY <1>1, <1>3, <1>4 DEF StoreInv, TypeOK, Writer
<1>7. TxOK'
  BY <1>2, <1>3, <1>5 DEF TxOK, RaftCall
<1> QED
  BY <1>3, <1>5, <1>6, <1>7 DEF StoreInv, AppendOK, BucketsMade

\* NewRaft and a failing New.
LEMMA NewRaftStore == StoreInv /\ NewRaft => StoreInv'
<1> SUFFICES ASSUME StoreInv, NewRaft PROVE StoreInv'
  OBVIOUS
<1>1. "raft" \in Writer /\ Returned("raft") /\ UNCHANGED <<file, tx>>
  BY DEF NewRaft, Writer
<1>2. /\ ret' \in [Writer -> {"none", "busy", "ok", "err"}] /\ ret'["raft"] = "none"
      /\ \A v \in Writer : ret'[v] = "busy" <=> tx'.by = v
      /\ tx.by # "raft"
  BY <1>1, Returns
<1>3. main.pc = "init" /\ UNCHANGED <<snapIdx, comp, snaps, failed, faults>>
  BY DEF NewRaft, snapshot, env
<1>4. LastIndex \in Index
  BY CursorEnds DEF StoreInv, TypeOK
<1>5. \/ ret["raft"] = "ok" /\ main' = Idle /\ lastLog' = LastIndex
      \/ ret["raft"] = "err" /\ main' = [main EXCEPT !.pc = "down"] /\ lastLog' = lastLog
  BY DEF NewRaft
<1>6. TypeOK'
  BY <1>1, <1>2, <1>3, <1>4, <1>5 DEF StoreInv, TypeOK, Idle
<1>7. TxOK'
  BY <1>1, <1>2, <1>3 DEF StoreInv, TxOK, SnapshotCall
<1>8. BucketsMade' /\ AppendOK'
  BY <1>1, <1>2, <1>3, <1>5 DEF StoreInv, TypeOK, BucketsMade, AppendOK, Idle
<1> QED
  BY <1>6, <1>7, <1>8 DEF StoreInv

\* A crash undoes the transaction.
LEMMA CrashStore == StoreInv /\ Crash => StoreInv'
<1> SUFFICES ASSUME StoreInv, Crash PROVE StoreInv'
  OBVIOUS
<1>1. /\ tx' = NoTx /\ ret' = [w \in Writer |-> "none"]
      /\ main' = [Idle EXCEPT !.pc = "down"] /\ lastLog' = 0
      /\ comp' = NoComp /\ faults' = faults + 1
      /\ UNCHANGED <<file, snapIdx, snaps, failed>>
  BY DEF Crash
<1>2. 0 \in Index
  BY BoltStoreAssumption DEF Index
<1>3. tx'.by = "none" /\ main'.pc = "down"
  BY <1>1 DEF NoTx, Idle
<1>4. TypeOK'
  BY <1>1, <1>2, <1>3 DEF StoreInv, TypeOK, Idle, NoComp
<1>5. TxOK'
  BY <1>1, <1>3 DEF TxOK, Writer
<1> QED
  BY <1>3, <1>4, <1>5 DEF StoreInv, AppendOK, BucketsMade

\* A transaction is over.
LEMMA TxEnds ==
  ASSUME StoreInv, tx.by # "none", NEW r \in {"ok", "err"},
         tx' = NoTx, ret' = [ret EXCEPT ![tx.by] = r]
  PROVE  /\ tx.by \in Writer /\ tx'.by = "none" /\ IsCall(tx.call) /\ tx.file \in File
         /\ Effected(file, tx.file, tx.call) /\ ret[tx.by] = "busy"
         /\ ret' \in [Writer -> {"none", "busy", "ok", "err"}]
         /\ ret'[tx.by] = r /\ \A v \in Writer \ {tx.by} : ret'[v] = ret[v] /\ ret[v] # "busy"
         /\ \A v \in Writer : ret'[v] # "busy"
<1>1. tx.by \in Writer /\ tx'.by = "none"
  BY DEF StoreInv, TypeOK, NoTx
<1>2. ret \in [Writer -> {"none", "busy", "ok", "err"}] /\ IsCall(tx.call) /\ tx.file \in File
  BY DEF StoreInv, TypeOK
<1>3. /\ Effected(file, tx.file, tx.call)
      /\ \A v \in Writer : ret[v] = "busy" <=> tx.by = v
  BY DEF StoreInv, TxOK
<1> QED
  BY <1>1, <1>2, <1>3

\* What a transaction that is over leaves behind.
LEMMA TxOver ==
  ASSUME StoreInv, tx.by # "none", NEW r \in {"ok", "err"},
         tx' = NoTx, ret' = [ret EXCEPT ![tx.by] = r],
         file' \in {file, tx.file}, r = "ok" => file' = tx.file,
         UNCHANGED <<raft, snapshot>>, failed' \in BOOLEAN, faults' \in Nat
  PROVE  StoreInv'
<1>1. UNCHANGED <<main, lastLog, snapIdx, comp, snaps>>
  BY DEF raft, snapshot
<1>2. /\ tx.by \in Writer /\ tx'.by = "none" /\ tx.file \in File
      /\ Effected(file, tx.file, tx.call)
      /\ ret' \in [Writer -> {"none", "busy", "ok", "err"}]
      /\ ret'[tx.by] = r /\ \A v \in Writer \ {tx.by} : ret'[v] = ret[v]
      /\ \A v \in Writer : ret'[v] # "busy"
  BY TxEnds
<1>3. TypeOK'
  BY <1>1, <1>2 DEF StoreInv, TypeOK
<1>4. TxOK'
  BY <1>2 DEF TxOK, Writer
<1>5. AppendOK'
  BY <1>1 DEF StoreInv, AppendOK
<1>6. BucketsMade'
  <2>1. file.made => file'.made
    BY <1>2 DEF Effected
  <2>2. ASSUME main.pc = "init", ret'["raft"] = "ok" PROVE file'.made
    <3>1. CASE tx.by = "raft"
      <4>1. tx.call.op = "New" /\ file' = tx.file
        BY <1>2, <2>2, <3>1 DEF StoreInv, TxOK, RaftCall
      <4> QED
        BY <1>2, <4>1 DEF Effected
    <3>2. CASE tx.by # "raft"
      <4>1. ret["raft"] = "ok"
        BY <1>2, <2>2, <3>2 DEF Writer
      <4> QED
        BY <2>1, <2>2, <4>1 DEF StoreInv, BucketsMade
    <3> QED
      BY <3>1, <3>2
  <2> QED
    BY <1>1, <2>1, <2>2 DEF StoreInv, BucketsMade
<1> QED
  BY <1>3, <1>4, <1>5, <1>6 DEF StoreInv

\* Commit, Rollback and CommitFails.
LEMMA EndStore == StoreInv /\ (Commit \/ Rollback \/ CommitFails) => StoreInv'
<1> SUFFICES ASSUME StoreInv, Commit \/ Rollback \/ CommitFails PROVE StoreInv'
  OBVIOUS
<1>1. failed \in BOOLEAN /\ faults \in Nat
  BY DEF StoreInv, TypeOK
<1>2. CASE Commit
  BY <1>1, <1>2, TxOver DEF Commit, env
<1>3. CASE Rollback
  BY <1>1, <1>3, TxOver DEF Rollback, env
<1>4. CASE CommitFails
  BY <1>1, <1>4, TxOver DEF CommitFails
<1> QED
  BY <1>2, <1>3, <1>4

\* The entries of an append can be stored.
LEMMA AppendIsCall ==
  ASSUME NEW c \in Call, \A i \in DOMAIN c.es : c.at + i <= MaxIndex
  PROVE  /\ \A i \in DOMAIN c.es : c.at + i \in Index
         /\ IsCall([op |-> "StoreLogs", at |-> c.at, es |-> c.es])
<1>1. c.at \in Index /\ c.es \in Entries
  BY DEF Call
<1>2. ASSUME NEW i \in DOMAIN c.es PROVE c.at + i \in Index
  <2>1. i \in Nat
    BY <1>1, EntriesShape
  <2>2. c.at \in Nat /\ MaxIndex \in Nat
    BY <1>1, BoltStoreAssumption DEF Index
  <2> QED
    BY <2>1, <2>2 DEF Index
<1> QED
  BY <1>1, <1>2 DEF IsCall

\* The main loop appends, or clears first.
LEMMA AppendStore == ASSUME StoreInv, NEW c \in Call, appendEntries(c) PROVE StoreInv'
<1> DEFINE D == [op |-> "DeleteRange", min |-> c.at, max |-> lastLog]
           S == [op |-> "StoreLogs", at |-> c.at, es |-> c.es]
<1>1. \A i \in DOMAIN c.es : c.at + i \in Index
  BY AppendIsCall DEF appendEntries
<1>2. IsCall(D) /\ IsCall(S) /\ "raft" \in Writer
  <2>1. IsCall(S)
    BY AppendIsCall DEF appendEntries
  <2>2. IsCall(D)
    BY DEF IsCall, Call, StoreInv, TypeOK
  <2> QED
    BY <2>1, <2>2 DEF Writer
<1>3. UNCHANGED <<lastLog, snapIdx, comp, snaps, failed, faults>> /\ main.pc = "idle"
  BY DEF appendEntries, snapshot, env
<1>4. \/ Begin("raft", D) /\ main' = [pc |-> "delete", call |-> c]
      \/ Begin("raft", S) /\ main' = [pc |-> "store", call |-> c]
  BY DEF appendEntries
<1>5. PICK C \in {D, S} :
        /\ Begin("raft", C) /\ IsCall(C)
        /\ C = D => main' = [pc |-> "delete", call |-> c]
        /\ C = S => main' = [pc |-> "store", call |-> c]
  <2>1. D.op = "DeleteRange" /\ S.op = "StoreLogs"
    OBVIOUS
  <2>2. D # S
    BY <2>1
  <2> HIDE DEF D, S
  <2> QED
    BY <1>2, <1>4, <2>2
<1> HIDE DEF D, S
<1>6. /\ file' = file /\ file \in File /\ tx'.by = "raft" /\ tx'.call = C /\ tx'.file \in File
      /\ Effected(file', tx'.file, tx'.call)
      /\ ret' \in [Writer -> {"none", "busy", "ok", "err"}]
      /\ \A v \in Writer : ret'[v] = "busy" <=> tx'.by = v
  BY <1>2, <1>5, Begins
<1>7. (C = D /\ main' = [pc |-> "delete", call |-> c]) \/ (C = S /\ main' = [pc |-> "store", call |-> c])
  BY <1>5
<1>8. TypeOK'
  BY <1>2, <1>3, <1>5, <1>6, <1>7 DEF StoreInv, TypeOK
<1>9. TxOK'
  <2>1. RaftCall'
    BY <1>3, <1>6, <1>7 DEF RaftCall, D, S
  <2> QED
    BY <1>6, <2>1 DEF TxOK
<1>10. AppendOK'
  BY <1>1, <1>7 DEF AppendOK
<1>11. BucketsMade'
  BY <1>3, <1>6 DEF StoreInv, BucketsMade
<1> QED
  BY <1>8, <1>9, <1>10, <1>11 DEF StoreInv

\* The main loop has cleared, or failed to.
LEMMA ClearedStore == StoreInv /\ cleared => StoreInv'
<1> SUFFICES ASSUME StoreInv, cleared PROVE StoreInv'
  OBVIOUS
<1> DEFINE S == [op |-> "StoreLogs", at |-> main.call.at, es |-> main.call.es]
<1>1. /\ main.pc = "delete" /\ UNCHANGED <<lastLog, snapIdx, comp, snaps, failed, faults>>
      /\ main.call \in Call /\ \A i \in DOMAIN main.call.es : main.call.at + i \in Index
  BY DEF cleared, snapshot, env, StoreInv, AppendOK
<1>2. IsCall(S) /\ "raft" \in Writer
  BY <1>1 DEF IsCall, Call, Writer
<1>3. CASE Begin("raft", S) /\ main' = [main EXCEPT !.pc = "store"]
  <2> HIDE DEF S
  <2>1. /\ file' = file /\ file \in File /\ tx'.by = "raft" /\ tx'.call = S /\ tx'.file \in File
        /\ Effected(file', tx'.file, tx'.call)
        /\ ret' \in [Writer -> {"none", "busy", "ok", "err"}]
        /\ \A v \in Writer : ret'[v] = "busy" <=> tx'.by = v
    BY <1>2, <1>3, Begins
  <2>2. main'.pc = "store" /\ main'.call = main.call
    BY <1>3 DEF StoreInv, TypeOK
  <2>3. TypeOK'
    BY <1>1, <1>2, <1>3, <2>1 DEF StoreInv, TypeOK
  <2>4. RaftCall'
    BY <2>1, <2>2 DEF RaftCall, S
  <2>5. TxOK'
    BY <2>1, <2>4 DEF TxOK
  <2> QED
    BY <1>1, <2>1, <2>2, <2>3, <2>5 DEF StoreInv, AppendOK, BucketsMade
<1>4. CASE Returned("raft") /\ main' = Idle /\ UNCHANGED <<file, tx>>
  <2>1. /\ ret' \in [Writer -> {"none", "busy", "ok", "err"}]
        /\ \A v \in Writer : ret'[v] = "busy" <=> tx'.by = v
        /\ tx.by # "raft"
    BY <1>2, <1>4, Returns
  <2>2. TypeOK'
    BY <1>1, <1>4, <2>1 DEF StoreInv, TypeOK, Idle
  <2>3. TxOK'
    BY <1>1, <1>4, <2>1 DEF StoreInv, TxOK, SnapshotCall
  <2> QED
    BY <1>1, <1>4, <2>2, <2>3 DEF StoreInv, AppendOK, BucketsMade, Idle
<1> QED
  BY <1>3, <1>4 DEF cleared

\* The main loop has appended, or failed to.
LEMMA AppendedStore == StoreInv /\ appended => StoreInv'
<1> SUFFICES ASSUME StoreInv, appended PROVE StoreInv'
  OBVIOUS
<1>1. /\ main.pc = "store" /\ Returned("raft") /\ main' = Idle /\ "raft" \in Writer
      /\ UNCHANGED <<file, tx, snapIdx, comp, snaps, failed, faults>>
  BY DEF appended, snapshot, env, Writer
<1>2. /\ ret' \in [Writer -> {"none", "busy", "ok", "err"}]
      /\ \A v \in Writer : ret'[v] = "busy" <=> tx'.by = v
      /\ tx.by # "raft"
  BY <1>1, Returns
<1>3. lastLog' \in Index
  <2>1. main.call \in Call /\ \A i \in DOMAIN main.call.es : main.call.at + i \in Index
    BY <1>1 DEF StoreInv, AppendOK
  <2>2. main.call.es \in Entries
    BY <2>1 DEF Call
  <2>3. PICK n \in Nat : DOMAIN main.call.es = 0 .. n /\ Max(DOMAIN main.call.es) = n
    BY <2>2, EntriesShape
  <2>4. Max(DOMAIN main.call.es) \in DOMAIN main.call.es
    BY <2>3
  <2> QED
    BY <2>1, <2>4 DEF appended, StoreInv, TypeOK
<1>4. TypeOK'
  BY <1>1, <1>2, <1>3 DEF StoreInv, TypeOK, Idle
<1>5. TxOK'
  BY <1>1, <1>2 DEF StoreInv, TxOK, SnapshotCall
<1> QED
  BY <1>1, <1>4, <1>5 DEF StoreInv, AppendOK, BucketsMade, Idle

\* The main loop sets a number, or adds a value.
LEMMA SetConfStore ==
  ASSUME StoreInv, NEW op \in {"Set", "Add"}, NEW k \in Key, NEW v \in Value, SetConf(op, k, v)
  PROVE  StoreInv'
<1> DEFINE C == [op |-> op, k |-> k, v |-> v]
<1>1. /\ main.pc = "idle" /\ Begin("raft", C) /\ main' = [main EXCEPT !.pc = "conf"]
      /\ UNCHANGED <<lastLog, snapIdx, comp, snaps, failed, faults>>
  BY DEF SetConf, snapshot, env
<1>2. IsCall(C) /\ "raft" \in Writer /\ C.op \in {"Set", "Add"}
  BY DEF IsCall, Writer
<1> HIDE DEF C
<1>3. /\ file' = file /\ file \in File /\ tx'.by = "raft" /\ tx'.call = C /\ tx'.file \in File
      /\ Effected(file', tx'.file, tx'.call)
      /\ ret' \in [Writer -> {"none", "busy", "ok", "err"}]
      /\ \A w \in Writer : ret'[w] = "busy" <=> tx'.by = w
  BY <1>1, <1>2, Begins
<1>4. main'.pc = "conf"
  BY <1>1 DEF StoreInv, TypeOK
<1>5. TypeOK'
  BY <1>1, <1>2, <1>3 DEF StoreInv, TypeOK
<1>6. TxOK'
  BY <1>2, <1>3, <1>4 DEF TxOK, RaftCall
<1> QED
  BY <1>1, <1>3, <1>4, <1>5, <1>6 DEF StoreInv, AppendOK, BucketsMade

\* The main loop goes on after it.
LEMMA ConfSetStore == StoreInv /\ confSet => StoreInv'
<1> SUFFICES ASSUME StoreInv, confSet PROVE StoreInv'
  OBVIOUS
<1>1. /\ main.pc = "conf" /\ Returned("raft") /\ main' = Idle /\ "raft" \in Writer
      /\ UNCHANGED <<file, tx, lastLog, snapIdx, comp, snaps, failed, faults>>
  BY DEF confSet, snapshot, env, Writer
<1>2. /\ ret' \in [Writer -> {"none", "busy", "ok", "err"}]
      /\ \A v \in Writer : ret'[v] = "busy" <=> tx'.by = v
      /\ tx.by # "raft"
  BY <1>1, Returns
<1>3. TypeOK'
  BY <1>1, <1>2 DEF StoreInv, TypeOK, Idle
<1>4. TxOK'
  BY <1>1, <1>2 DEF StoreInv, TxOK, SnapshotCall
<1> QED
  BY <1>1, <1>3, <1>4 DEF StoreInv, AppendOK, BucketsMade, Idle

\* A snapshot is taken, or installed.
LEMMA SnapshotStore ==
  ASSUME StoreInv, NEW i \in Index, takeSnapshot(i) \/ installSnapshot(i)
  PROVE  StoreInv'
<1>1. /\ UNCHANGED <<file, tx, ret, lastLog, failed, faults>>
      /\ snapIdx' = i /\ snaps' = snaps + 1 /\ comp.pc = "idle"
      /\ comp' = [comp EXCEPT !.pc = "compact"]
      /\ main' = main \/ (main.pc = "idle" /\ main' = [main EXCEPT !.pc = "install"])
  BY DEF takeSnapshot, installSnapshot, store, raft, env
<1>2. TypeOK'
  BY <1>1 DEF StoreInv, TypeOK
<1>3. main' = main \/ (main.pc = "idle" /\ main'.pc = "install" /\ main'.call = main.call)
  BY <1>1 DEF StoreInv, TypeOK
<1>4. TxOK'
  <2>1. tx.by # "snapshot"
    BY <1>1 DEF StoreInv, TxOK, SnapshotCall
  <2>2. tx.by = "raft" => RaftCall'
    BY <1>1, <1>3 DEF StoreInv, TxOK, RaftCall
  <2> QED
    BY <1>1, <2>1, <2>2 DEF StoreInv, TxOK
<1> QED
  BY <1>1, <1>2, <1>3, <1>4 DEF StoreInv, AppendOK, BucketsMade

\* The main loop has installed a snapshot.
LEMMA InstalledStore == StoreInv /\ installed => StoreInv'
<1> SUFFICES ASSUME StoreInv, installed PROVE StoreInv'
  OBVIOUS
<1>1. /\ main.pc = "install" /\ main' = Idle
      /\ UNCHANGED <<file, tx, ret, lastLog, snapIdx, comp, snaps, failed, faults>>
  BY DEF installed, store, snapshot, env
<1>2. TypeOK'
  BY <1>1 DEF StoreInv, TypeOK, Idle
<1>3. TxOK'
  BY <1>1 DEF StoreInv, TxOK, RaftCall, SnapshotCall
<1> QED
  BY <1>1, <1>2, <1>3 DEF StoreInv, AppendOK, BucketsMade, Idle

\* The range to compact ends with the snapshot, if not before.
LEMMA CompactRange ==
  ASSUME TypeOK, ~(lastLog <= Trailing)
  PROVE  /\ Min({snapIdx, lastLog - Trailing}) \in Index
         /\ Min({snapIdx, lastLog - Trailing}) <= snapIdx
<1>1. {snapIdx, lastLog - Trailing} \in SUBSET Index
  BY BoltStoreAssumption DEF TypeOK, Index
<1> QED
  BY <1>1, Ends

\* The snapshot goroutine looks for the range.
LEMMA CompactLogsStore == StoreInv /\ compactLogs => StoreInv'
<1> SUFFICES ASSUME StoreInv, compactLogs PROVE StoreInv'
  OBVIOUS
<1>1. /\ UNCHANGED <<file, tx, ret, main, lastLog, snapIdx, snaps, failed, faults>>
      /\ comp.pc = "compact"
  BY DEF compactLogs, store, raft, env
<1>2. FirstIndex \in Index /\ 0 \in Index
  BY CursorEnds, BoltStoreAssumption DEF StoreInv, TypeOK, Index
<1>3. comp' \in [pc : {"idle", "compact", "range", "delete"}, min : Index, max : Index]
  BY <1>2, CompactRange DEF compactLogs, NoComp, StoreInv
<1>4. TypeOK'
  BY <1>1, <1>3 DEF StoreInv, TypeOK
<1>5. TxOK'
  BY <1>1 DEF StoreInv, TxOK, RaftCall, SnapshotCall
<1> QED
  BY <1>1, <1>4, <1>5 DEF StoreInv, AppendOK, BucketsMade

\* The snapshot goroutine deletes the range.
LEMMA CompactStore == StoreInv /\ compact => StoreInv'
<1> SUFFICES ASSUME StoreInv, compact PROVE StoreInv'
  OBVIOUS
<1> DEFINE D == [op |-> "DeleteRange", min |-> comp.min, max |-> comp.max]
<1>1. /\ Begin("snapshot", D) /\ comp' = [comp EXCEPT !.pc = "delete"]
      /\ UNCHANGED <<main, lastLog, snapIdx, snaps, failed, faults>>
  BY DEF compact, raft, env
<1>2. IsCall(D) /\ "snapshot" \in Writer
  BY DEF IsCall, Writer, StoreInv, TypeOK
<1> HIDE DEF D
<1>3. /\ file' = file /\ file \in File /\ tx'.by = "snapshot" /\ tx'.call = D /\ tx'.file \in File
      /\ Effected(file', tx'.file, tx'.call)
      /\ ret' \in [Writer -> {"none", "busy", "ok", "err"}]
      /\ \A v \in Writer \ {"snapshot"} : ret'[v] = ret[v]
      /\ \A v \in Writer : ret'[v] = "busy" <=> tx'.by = v
  BY <1>1, <1>2, Begins
<1>4. comp'.pc = "delete" /\ comp'.min = comp.min /\ comp'.max = comp.max
  BY <1>1 DEF StoreInv, TypeOK
<1>5. TypeOK'
  BY <1>1, <1>2, <1>3 DEF StoreInv, TypeOK
<1>6. TxOK'
  BY <1>3, <1>4 DEF TxOK, SnapshotCall, D
<1>7. ret'["raft"] = ret["raft"]
  BY <1>3 DEF Writer
<1> QED
  BY <1>1, <1>3, <1>5, <1>6, <1>7 DEF StoreInv, AppendOK, BucketsMade

\* The snapshot goroutine goes on after it.
LEMMA CompactedStore == StoreInv /\ compacted => StoreInv'
<1> SUFFICES ASSUME StoreInv, compacted PROVE StoreInv'
  OBVIOUS
<1>1. /\ Returned("snapshot") /\ comp' = NoComp /\ "snapshot" \in Writer /\ "raft" \in Writer
      /\ UNCHANGED <<file, tx, main, lastLog, snapIdx, snaps, failed, faults>>
  BY DEF compacted, raft, env, Writer
<1>2. /\ ret' \in [Writer -> {"none", "busy", "ok", "err"}] /\ ret'["raft"] = ret["raft"]
      /\ \A v \in Writer : ret'[v] = "busy" <=> tx'.by = v
      /\ tx.by # "snapshot"
  BY <1>1, Returns
<1>3. 0 \in Index
  BY BoltStoreAssumption DEF Index
<1>4. TypeOK'
  BY <1>1, <1>2, <1>3 DEF StoreInv, TypeOK, NoComp
<1>5. TxOK'
  BY <1>1, <1>2 DEF StoreInv, TxOK, RaftCall
<1> QED
  BY <1>1, <1>2, <1>4, <1>5 DEF StoreInv, AppendOK, BucketsMade

\* Every step keeps the invariant.
LEMMA StoreStep == StoreInv /\ [Next]_vars => StoreInv'
<1> SUFFICES ASSUME StoreInv, [Next]_vars PROVE StoreInv'
  OBVIOUS
<1>1. CASE UNCHANGED vars
  BY <1>1 DEF vars, store, raft, snapshot, env, StoreInv, TypeOK, TxOK, RaftCall,
              SnapshotCall, AppendOK, BucketsMade
<1>2. CASE \E k \in Key : \/ \E u \in Number : SetUint64(k, u)
                          \/ \E v \in Value : SetConf("Add", k, v)
  <2>1. PICK k \in Key : \/ \E u \in Number : SetUint64(k, u)
                         \/ \E v \in Value : SetConf("Add", k, v)
    BY <1>2
  <2>2. \A u \in Number : uint64ToBytes(u) \in Value
    BY DEF Value
  <2> QED
    BY <2>1, <2>2, SetConfStore DEF SetUint64
<1> QED
  BY <1>1, <1>2, OpenStore, NewRaftStore, CrashStore, EndStore, AppendStore, ClearedStore,
     AppendedStore, ConfSetStore, SnapshotStore, InstalledStore, CompactLogsStore,
     CompactStore, CompactedStore DEF Next

\* Whatever calls are made, cut short or fail: the keys on disk are indices in
\* their encoding, the values what was stored, and the range to compact and the
\* last index that raft keeps are indices.
THEOREM TypeCorrect == Spec => []TypeOK
<1>1. StoreInv => TypeOK
  BY DEF StoreInv
<1> QED
  BY <1>1, StoreInit, StoreStep, PTL DEF Spec

-----------------------------------------------------------------------------
(***************************************************************************)
(* Reading.                                                                *)
(***************************************************************************)
\* In every state of the invariant the reads are right.
LEMMA ReadsRight == StoreInv => ReadsAreRight
<1> SUFFICES ASSUME StoreInv PROVE ReadsAreRight
  OBVIOUS
<1>1. file \in File
  BY DEF StoreInv, TypeOK
<1>2. main.pc \notin {"down", "init"} => file.made
  BY DEF StoreInv, BucketsMade
<1>3. FirstIndex = Abstract!FirstIndex /\ LastIndex = Abstract!LastIndex
  BY <1>1, CursorEnds DEF Abstract!FirstIndex, Abstract!LastIndex, Abstract!Min, Abstract!Max,
                          Min, Max, Stored
<1>4. ASSUME NEW i \in Index PROVE GetLog(i) = Abstract!GetLog(i)
  BY <1>1, GetLogIsStored DEF Abstract!GetLog, Stored
<1>5. ASSUME NEW k \in Key, NEW u \in Number, Get(k) = uint64ToBytes(u) PROVE GetUint64(k) = u
  <2>1. u \in Uint
    BY BoltStoreAssumption
  <2>2. uint64ToBytes(u) \in Bytes /\ bytesToUint64(uint64ToBytes(u)) = u
    BY <2>1, DecodeEncode
  <2>3. uint64ToBytes(u) # Nil
    BY <2>2, BoltStoreAssumption
  <2> QED
    BY <1>5, <2>2, <2>3 DEF GetUint64
<1> QED
  BY <1>2, <1>3, <1>4, <1>5 DEF ReadsAreRight

\* What is read while others write is what the committed log says: the first and
\* the last key of the cursor are the least and the greatest index, an entry is
\* found at its index and at no other, and a number that was set is read back.
THEOREM ReadsRightAlways == Spec => []ReadsAreRight
BY ReadsRight, StoreInit, StoreStep, PTL DEF Spec

-----------------------------------------------------------------------------
(***************************************************************************)
(* The refinement of LogStore: a call begins and ends there when it does   *)
(* here, and has its effect when the transaction is committed.             *)
(***************************************************************************)
\* A transaction that begins is a call.
LEMMA BeginCalls ==
  ASSUME NEW w \in Writer, NEW c, Begin(w, c)
  PROVE  Abstract!Called
<1>1. tx.by = "none" /\ tx'.by = w /\ ret' = [ret EXCEPT ![w] = "busy"] /\ file' = file
  BY DEF Begin
<1> QED
  BY <1>1 DEF Abstract!Called

\* What is committed is the effect of the call.
LEMMA CommitEffect ==
  ASSUME Effected(file, tx.file, tx.call), file' = tx.file, ~Duplicated(tx.call)
  PROVE  Abstract!Effect(tx.call)
<1>1. CASE tx.call.op = "New"
  BY <1>1 DEF Effected, Abstract!Effect
<1>2. CASE tx.call.op = "StoreLogs"
  BY <1>2 DEF Effected, Abstract!Effect, Abstract!StoreLogs, Stored
<1>3. CASE tx.call.op = "DeleteRange"
  BY <1>3 DEF Effected, Abstract!Effect, Abstract!DeleteRange, Abstract!Restrict, Restrict, Stored
<1>4. CASE tx.call.op \in {"Set", "Add"}
  BY <1>4 DEF Effected, Abstract!Effect, Duplicated, Get
<1> QED
  BY <1>1, <1>2, <1>3, <1>4 DEF Effected

\* A transaction that ends is a call that succeeds or fails.
LEMMA EndCalls ==
  ASSUME StoreInv, Commit \/ Rollback \/ CommitFails
  PROVE  Abstract!Succeeds \/ Abstract!Fails
<1>1. tx.by # "none" /\ tx' = NoTx
  BY DEF Commit, Rollback, CommitFails
<1>2. tx'.by = "none" /\ Effected(file, tx.file, tx.call)
  BY <1>1 DEF NoTx, StoreInv, TxOK
<1>3. CASE Commit
  <2>1. Abstract!Effect(tx.call) /\ ret' = [ret EXCEPT ![tx.by] = "ok"]
    BY <1>2, <1>3, CommitEffect DEF Commit
  <2> QED
    BY <1>1, <1>2, <2>1 DEF Abstract!Succeeds
<1>4. CASE Rollback
  <2>1. file' = file /\ ret' = [ret EXCEPT ![tx.by] = "err"]
    BY <1>4 DEF Rollback
  <2> QED
    BY <1>1, <1>2, <2>1 DEF Abstract!Fails
<1>5. CASE CommitFails
  <2>1. ret' = [ret EXCEPT ![tx.by] = "err"] /\ file' \in {file, tx.file} /\ ~Duplicated(tx.call)
    BY <1>5 DEF CommitFails
  <2>2. CASE file' = file
    BY <1>1, <1>2, <2>1, <2>2 DEF Abstract!Fails
  <2>3. CASE file' = tx.file
    <3>1. Abstract!Effect(tx.call)
      BY <1>2, <2>1, <2>3, CommitEffect
    <3> QED
      BY <1>1, <1>2, <2>1, <3>1 DEF Abstract!Fails
  <2> QED
    BY <2>1, <2>2, <2>3
<1> QED
  BY <1>3, <1>4, <1>5

\* A caller that goes on.
LEMMA ReturnCalls ==
  ASSUME NEW w \in Writer, Returned(w), UNCHANGED <<file, tx>>
  PROVE  Abstract!Returned
BY DEF Returned, Abstract!Returned

\* The first state of BoltStore is one of LogStore.
LEMMA LogStoreInit == Init => Abstract!Init
<1> SUFFICES ASSUME Init PROVE Abstract!Init
  OBVIOUS
<1>1. file.logs = [k \in {} |-> Nil] /\ file.conf = [k \in Key |-> Nil]
  BY DEF Init
<1>2. LogOf(file) = [i \in {} |-> Nil]
  <2>1. DOMAIN file.logs = {}
    BY <1>1
  <2>2. {bytesToUint64(k) : k \in DOMAIN file.logs} = {}
    BY <2>1
  <2> QED
    BY <2>2 DEF LogOf
<1> QED
  BY <1>1, <1>2 DEF Init, Abstract!Init, NoTx

\* Every step of BoltStore is one of LogStore, or leaves its variables alone.
LEMMA LogStoreStep ==
  ASSUME StoreInv, [Next]_vars
  PROVE  [Abstract!Next]_<<LogOf(file), file.conf, tx, ret>>
<1>0. "raft" \in Writer /\ "snapshot" \in Writer
  BY DEF Writer
<1>1. ASSUME UNCHANGED <<file, tx, ret>> PROVE UNCHANGED <<LogOf(file), file.conf, tx, ret>>
  BY <1>1
<1>2. CASE Open \/ compact
  <2>1. Abstract!Called
    BY <1>0, <1>2, BeginCalls DEF Open, compact
  <2> QED
    BY <2>1 DEF Abstract!Next
<1>3. CASE Commit \/ Rollback \/ CommitFails
  BY <1>3, EndCalls DEF Abstract!Next
<1>4. CASE NewRaft \/ appended \/ confSet \/ compacted
  <2>1. Abstract!Returned
    BY <1>0, <1>4, ReturnCalls DEF NewRaft, appended, confSet, compacted
  <2> QED
    BY <2>1 DEF Abstract!Next
<1>5. CASE Crash
  <2>1. tx'.by = "none" /\ ret' = [w \in Writer |-> "none"] /\ file' = file
    BY <1>5 DEF Crash, NoTx
  <2> QED
    BY <2>1 DEF Abstract!Next, Abstract!Crash
<1>6. CASE \E c \in Call : appendEntries(c)
  <2>1. Abstract!Called
    BY <1>0, <1>6, BeginCalls DEF appendEntries
  <2> QED
    BY <2>1 DEF Abstract!Next
<1>7. CASE cleared
  <2>1. Abstract!Called \/ Abstract!Returned
    BY <1>0, <1>7, BeginCalls, ReturnCalls DEF cleared
  <2> QED
    BY <2>1 DEF Abstract!Next
<1>8. CASE \E k \in Key : \/ \E u \in Number : SetUint64(k, u)
                          \/ \E v \in Value : SetConf("Add", k, v)
  <2>1. \E op, k, v : SetConf(op, k, v)
    BY <1>8 DEF SetUint64
  <2>2. Abstract!Called
    BY <1>0, <2>1, BeginCalls DEF SetConf
  <2> QED
    BY <2>2 DEF Abstract!Next
<1>9. CASE \E i \in Index : takeSnapshot(i) \/ installSnapshot(i)
  BY <1>1, <1>9 DEF takeSnapshot, installSnapshot, store
<1>10. CASE installed \/ compactLogs \/ UNCHANGED vars
  BY <1>1, <1>10 DEF installed, compactLogs, vars, store
<1> QED
  BY <1>2, <1>3, <1>4, <1>5, <1>6, <1>7, <1>8, <1>9, <1>10 DEF Next

\* The store on disk implements the log store that raft expects: whatever the two
\* goroutines call and in whatever order, a call has the effect it has on a map
\* by number, as a whole, or none, crashes and failing commits included.
THEOREM LogStoreRefinement == Spec => ImplementsLogStore
<1>1. Spec => []StoreInv
  BY StoreInit, StoreStep, PTL DEF Spec
<1>2. StoreInv /\ [Next]_vars => [Abstract!Next]_<<LogOf(file), file.conf, tx, ret>>
  BY LogStoreStep
<1> QED
  BY <1>1, <1>2, LogStoreInit, PTL DEF Spec, ImplementsLogStore, Abstract!Spec

-----------------------------------------------------------------------------
(***************************************************************************)
(* The log is whole.  Between the deletion of conflicting entries and the  *)
(* storing of new ones the log ends before them; when raft knows its last  *)
(* index, the log ends there, unless the snapshot covers it all.  S is a   *)
(* set of indices that have an entry, s the index of the snapshot.         *)
(***************************************************************************)
NoHole(S, s) == \A j \in S : \A i \in s + 1 .. j : i \in S

\* S has everything the snapshot has not, up to n - 1.
Reaches(S, s, n) == \A i \in s + 1 .. n - 1 : i \in S

EndsBefore(S, n) == \A i \in S : i < n

\* S ends with n, or with an earlier index, and the snapshot covers n.
EndsAt(S, s, n) == (\A i \in S : i <= n) /\ (n \in S \/ n <= s)

\* What the snapshot covers may grow.
LEMMA SnapshotGrows ==
  ASSUME NEW S \in SUBSET Nat, NEW s \in Nat, NEW t \in Nat, s <= t
  PROVE  /\ NoHole(S, s) => NoHole(S, t)
         /\ \A n \in Nat : Reaches(S, s, n) => Reaches(S, t, n)
         /\ \A n \in Nat : EndsAt(S, s, n) => EndsAt(S, t, n)
<1>1. ASSUME NEW n \in Nat, NEW i \in t + 1 .. n PROVE i \in s + 1 .. n
  OBVIOUS
<1>2. NoHole(S, s) => NoHole(S, t)
  BY <1>1 DEF NoHole
<1>3. ASSUME NEW n \in Nat, Reaches(S, s, n) PROVE Reaches(S, t, n)
  <2>1. \A i \in t + 1 .. n - 1 : i \in s + 1 .. n - 1
    OBVIOUS
  <2> QED
    BY <1>3, <2>1 DEF Reaches
<1>4. ASSUME NEW n \in Nat, EndsAt(S, s, n) PROVE EndsAt(S, t, n)
  BY <1>4 DEF EndsAt
<1> QED
  BY <1>2, <1>3, <1>4

\* A compaction takes away only what the snapshot covers.
LEMMA Compacting ==
  ASSUME NEW S \in SUBSET Nat, NEW s \in Nat, NEW T \in SUBSET S, \A i \in S : s < i => i \in T
  PROVE  /\ NoHole(S, s) => NoHole(T, s)
         /\ \A n \in Nat : Reaches(S, s, n) => Reaches(T, s, n)
         /\ \A n \in Nat : EndsBefore(S, n) => EndsBefore(T, n)
         /\ \A n \in Nat : EndsAt(S, s, n) => EndsAt(T, s, n)
<1>1. T \subseteq S /\ \A i \in S : s < i => i \in T
  OBVIOUS
<1>2. ASSUME NoHole(S, s) PROVE NoHole(T, s)
  <2>1. ASSUME NEW j \in T, NEW i \in s + 1 .. j PROVE i \in T
    <3>1. i \in S
      BY <1>1, <1>2 DEF NoHole
    <3>2. s < i
      BY <1>1
    <3> QED
      BY <1>1, <3>1, <3>2
  <2> QED
    BY <2>1 DEF NoHole
<1>3. ASSUME NEW n \in Nat, Reaches(S, s, n) PROVE Reaches(T, s, n)
  <2>1. ASSUME NEW i \in s + 1 .. n - 1 PROVE i \in T
    <3>1. i \in S /\ s < i
      BY <1>3 DEF Reaches
    <3> QED
      BY <1>1, <3>1
  <2> QED
    BY <2>1 DEF Reaches
<1>4. ASSUME NEW n \in Nat, EndsBefore(S, n) PROVE EndsBefore(T, n)
  BY <1>1, <1>4 DEF EndsBefore
<1>5. ASSUME NEW n \in Nat, EndsAt(S, s, n) PROVE EndsAt(T, s, n)
  BY <1>1, <1>5 DEF EndsAt
<1> QED
  BY <1>2, <1>3, <1>4, <1>5

\* Conflicting entries are cleared, up to the end of the log.
LEMMA Clearing ==
  ASSUME NEW S \in SUBSET Nat, NEW s \in Nat, NEW a \in Nat, NEW z \in Nat,
         EndsAt(S, s, z), Reaches(S, s, a),
         NEW T, T = {i \in S : i < a \/ z < i}
  PROVE  NoHole(T, s) /\ Reaches(T, s, a) /\ EndsBefore(T, a)
<1>1. \A i \in S : i <= z
  BY DEF EndsAt
<1>2. ASSUME NEW i \in T PROVE i < a /\ i \in Nat
  BY <1>1
<1>3. ASSUME NEW i \in s + 1 .. a - 1 PROVE i \in T
  <2>1. i \in S /\ i < a
    BY DEF Reaches
  <2> QED
    BY <2>1
<1>4. ASSUME NEW j \in T, NEW i \in s + 1 .. j PROVE i \in T
  <2>1. j < a /\ j \in Nat
    BY <1>2
  <2>2. i \in s + 1 .. a - 1
    BY <2>1
  <2> QED
    BY <1>3, <2>2
<1> QED
  BY <1>2, <1>3, <1>4 DEF NoHole, Reaches, EndsBefore

\* Entries are stored after the end of the log.
LEMMA Storing ==
  ASSUME NEW S \in SUBSET Nat, NEW s \in Nat, NEW a \in Nat, NEW e \in Nat, a <= e,
         EndsBefore(S, a), Reaches(S, s, a),
         NEW T, T = S \cup (a .. e)
  PROVE  NoHole(T, s) /\ EndsAt(T, s, e)
<1>1. \A i \in S : i < a
  BY DEF EndsBefore
<1>2. ASSUME NEW j \in T, NEW i \in s + 1 .. j PROVE i \in T
  <2>1. j <= e /\ i \in Nat /\ s + 1 <= i /\ i <= j /\ j \in Nat
    BY <1>1
  <2>2. CASE i < a
    <3>1. i \in s + 1 .. a - 1
      BY <2>1, <2>2
    <3> QED
      BY <3>1 DEF Reaches
  <2>3. CASE ~(i < a)
    BY <2>1, <2>3
  <2> QED
    BY <2>2, <2>3
<1>3. \A i \in T : i <= e
  BY <1>1
<1> QED
  BY <1>2, <1>3 DEF NoHole, EndsAt

\* The predecessor of what raft appends is there, or is covered.
LEMMA Appending ==
  ASSUME NEW S \in SUBSET Nat, NEW s \in Nat, NEW l \in Nat, NEW a \in Nat,
         NoHole(S, s), EndsAt(S, s, l), a - 1 \in {0, l, s} \/ a - 1 \in S
  PROVE  Reaches(S, s, a)
<1> SUFFICES ASSUME NEW i \in s + 1 .. a - 1 PROVE i \in S
  BY DEF Reaches
<1>1. a - 1 # 0 /\ a - 1 # s /\ s < a - 1
  OBVIOUS
<1>2. a - 1 \in S
  BY <1>1 DEF EndsAt
<1> QED
  BY <1>2 DEF NoHole

-----------------------------------------------------------------------------
(***************************************************************************)
(* The invariant of the whole log, and the steps.                          *)
(***************************************************************************)
\* Raft knows the end of the log, or is clearing it.
RaftKnows ==
  /\ main.pc \in {"idle", "conf", "install"} => EndsAt(Stored(file), snapIdx, lastLog)
  /\ main.pc = "delete" =>
       /\ Reaches(Stored(file), snapIdx, main.call.at)
       /\ ret["raft"] = "busy" => EndsAt(Stored(file), snapIdx, lastLog)
       /\ ret["raft"] = "ok" => EndsBefore(Stored(file), main.call.at)
  /\ main.pc = "store" =>
       /\ ret["raft"] = "busy" =>
            /\ Reaches(Stored(file), snapIdx, main.call.at)
            /\ EndsBefore(Stored(file), main.call.at)
       /\ ret["raft"] = "ok" =>
            EndsAt(Stored(file), snapIdx, main.call.at + Max(DOMAIN main.call.es))

\* Only a Commit that fails makes a call for the log fail.
ErrIsFailure == ret["raft"] = "err" => failed \/ main.pc = "conf"

\* What the snapshot does not cover is not compacted.
CompactsCovered == comp.max <= snapIdx

WholeInv ==
  /\ StoreInv /\ CompactsCovered /\ ErrIsFailure
  /\ ~failed => NoHole(Stored(file), snapIdx) /\ RaftKnows

\* The invariant holds initially.
LEMMA WholeInit == Init => WholeInv
<1> SUFFICES ASSUME Init PROVE WholeInv
  OBVIOUS
<1>1. StoreInv
  BY StoreInit
<1>2. Stored(file) = {}
  <2>1. DOMAIN file.logs = {}
    BY DEF Init
  <2> QED
    BY <2>1 DEF Stored, LogOf
<1>3. NoHole(Stored(file), snapIdx)
  BY <1>2 DEF NoHole
<1> QED
  BY <1>1, <1>3 DEF Init, WholeInv, RaftKnows, ErrIsFailure, CompactsCovered, Idle, NoComp, Writer

\* The numbers the invariant is about.
LEMMA WholeTypes ==
  ASSUME StoreInv
  PROVE  /\ Stored(file) \in SUBSET Nat /\ Stored(file) \in SUBSET Index
         /\ snapIdx \in Nat /\ lastLog \in Nat
         /\ comp.min \in Nat /\ comp.max \in Nat
         /\ main.pc \in {"delete", "store"} =>
              /\ main.call.at \in Nat
              /\ \E n \in Nat : DOMAIN main.call.es = 0 .. n /\ Max(DOMAIN main.call.es) = n
              /\ main.call.at + Max(DOMAIN main.call.es) \in Nat
<1>1. file \in File
  BY DEF StoreInv, TypeOK
<1>2. Index \subseteq Nat
  BY DEF Index
<1>3. Stored(file) \subseteq Index
  BY <1>1, LogByIndex
<1>4. snapIdx \in Index /\ lastLog \in Index /\ comp.min \in Index /\ comp.max \in Index
  BY DEF StoreInv, TypeOK
<1>5. ASSUME main.pc \in {"delete", "store"}
      PROVE  /\ main.call.at \in Nat
             /\ \E n \in Nat : DOMAIN main.call.es = 0 .. n /\ Max(DOMAIN main.call.es) = n
             /\ main.call.at + Max(DOMAIN main.call.es) \in Nat
  <2>1. main.call.at \in Index /\ main.call.es \in Entries
    BY <1>5 DEF StoreInv, AppendOK, Call
  <2>2. \E n \in Nat : DOMAIN main.call.es = 0 .. n /\ Max(DOMAIN main.call.es) = n
    BY <2>1, EntriesShape
  <2>3. main.call.at \in Nat /\ Max(DOMAIN main.call.es) \in Nat
    BY <1>2, <2>1, <2>2
  <2> QED
    BY <2>2, <2>3
<1> QED
  BY <1>2, <1>3, <1>4, <1>5

\* A step of somebody else that takes nothing from the log but what the snapshot
\* covers leaves raft its knowledge.
LEMMA KnowsStays ==
  ASSUME StoreInv, RaftKnows, UNCHANGED <<main, lastLog>>, ret'["raft"] = ret["raft"],
         \A n \in Nat :
           /\ Reaches(Stored(file), snapIdx, n) => Reaches(Stored(file'), snapIdx', n)
           /\ EndsBefore(Stored(file), n) => EndsBefore(Stored(file'), n)
           /\ EndsAt(Stored(file), snapIdx, n) => EndsAt(Stored(file'), snapIdx', n)
  PROVE  RaftKnows'
<1>1. /\ lastLog \in Nat
      /\ main.pc \in {"delete", "store"} =>
           main.call.at \in Nat /\ main.call.at + Max(DOMAIN main.call.es) \in Nat
  BY WholeTypes
<1>2. main.pc \in {"idle", "conf", "install"} => EndsAt(Stored(file'), snapIdx', lastLog)
  BY <1>1 DEF RaftKnows
<1>3. main.pc = "delete" =>
        /\ Reaches(Stored(file'), snapIdx', main.call.at)
        /\ ret["raft"] = "busy" => EndsAt(Stored(file'), snapIdx', lastLog)
        /\ ret["raft"] = "ok" => EndsBefore(Stored(file'), main.call.at)
  BY <1>1 DEF RaftKnows
<1>4. main.pc = "store" =>
        /\ ret["raft"] = "busy" =>
             /\ Reaches(Stored(file'), snapIdx', main.call.at)
             /\ EndsBefore(Stored(file'), main.call.at)
        /\ ret["raft"] = "ok" =>
             EndsAt(Stored(file'), snapIdx', main.call.at + Max(DOMAIN main.call.es))
  BY <1>1 DEF RaftKnows
<1> QED
  BY <1>2, <1>3, <1>4 DEF RaftKnows

\* What a call makes of the set of indices.
LEMMA EffectedStored ==
  ASSUME NEW f, NEW g, NEW c, Effected(f, g, c)
  PROVE  /\ c.op = "StoreLogs" => Stored(g) = Stored(f) \cup {c.at + j : j \in DOMAIN c.es}
         /\ c.op = "DeleteRange" => Stored(g) = {i \in Stored(f) : i < c.min \/ c.max < i}
         /\ c.op \in {"New", "Set", "Add"} => Stored(g) = Stored(f)
<1>1. CASE c.op = "StoreLogs"
  <2>1. LogOf(g) = [i \in Stored(f) \cup {c.at + j : j \in DOMAIN c.es} |->
                     IF i - c.at \in DOMAIN c.es THEN c.es[i - c.at] ELSE LogOf(f)[i]]
    BY <1>1 DEF Effected
  <2>2. DOMAIN LogOf(g) = Stored(f) \cup {c.at + j : j \in DOMAIN c.es}
    BY <2>1
  <2>3. Stored(g) = DOMAIN LogOf(g)
    BY DEF Stored
  <2> QED
    BY <1>1, <2>2, <2>3
<1>2. CASE c.op = "DeleteRange"
  <2>1. LogOf(g) = Restrict(LogOf(f), {i \in Stored(f) : i < c.min \/ c.max < i})
    BY <1>2 DEF Effected
  <2>2. DOMAIN LogOf(g) = {i \in Stored(f) : i < c.min \/ c.max < i}
    BY <2>1 DEF Restrict
  <2>3. Stored(g) = DOMAIN LogOf(g)
    BY DEF Stored
  <2> QED
    BY <1>2, <2>2, <2>3
<1>3. CASE c.op \in {"New", "Set", "Add"}
  <2>1. LogOf(g) = LogOf(f)
    BY <1>3 DEF Effected
  <2> QED
    BY <1>3, <2>1 DEF Stored
<1> QED
  BY <1>1, <1>2, <1>3

\* A Commit.
LEMMA CommitWhole == WholeInv /\ Commit => WholeInv'
<1> SUFFICES ASSUME WholeInv, Commit PROVE WholeInv'
  OBVIOUS
<1> DEFINE S == Stored(file)
           T == Stored(file')
<1>1. StoreInv /\ StoreInv'
  BY EndStore DEF WholeInv
<1>2. /\ tx.by # "none" /\ tx' = NoTx /\ file' = tx.file
      /\ ret' = [ret EXCEPT ![tx.by] = "ok"]
      /\ UNCHANGED <<main, lastLog, snapIdx, comp, failed>>
  BY DEF Commit, raft, snapshot, env
<1>3. /\ tx.by \in Writer /\ Effected(file, tx.file, tx.call) /\ ret[tx.by] = "busy"
      /\ ret'[tx.by] = "ok" /\ \A v \in Writer \ {tx.by} : ret'[v] = ret[v]
  BY <1>1, <1>2, TxEnds
<1>4. /\ tx.call.op = "StoreLogs" => T = S \cup {tx.call.at + j : j \in DOMAIN tx.call.es}
      /\ tx.call.op = "DeleteRange" => T = {i \in S : i < tx.call.min \/ tx.call.max < i}
      /\ tx.call.op \in {"New", "Set", "Add"} => T = S
  BY <1>2, <1>3, EffectedStored
<1> HIDE DEF S, T
<1>5. CompactsCovered' /\ ErrIsFailure'
  BY <1>2, <1>3 DEF WholeInv, CompactsCovered, ErrIsFailure, Writer
<1>6. /\ S \in SUBSET Nat /\ snapIdx \in Nat /\ lastLog \in Nat
      /\ comp.min \in Nat /\ comp.max \in Nat
  BY <1>1, WholeTypes DEF S
<1>7. ASSUME ~failed PROVE NoHole(T, snapIdx) /\ RaftKnows'
  <2>1. NoHole(S, snapIdx) /\ RaftKnows
    BY <1>7 DEF WholeInv, S
  <2>2. CASE tx.by = "snapshot"
    <3>1. tx.call = [op |-> "DeleteRange", min |-> comp.min, max |-> comp.max]
      BY <1>1, <2>2 DEF StoreInv, TxOK, SnapshotCall
    <3>2. T \in SUBSET S /\ \A i \in S : snapIdx < i => i \in T
      <4>1. T = {i \in S : i < comp.min \/ comp.max < i} /\ comp.max <= snapIdx
        BY <1>4, <3>1 DEF WholeInv, CompactsCovered
      <4> QED
        BY <1>6, <4>1
    <3>3. /\ NoHole(S, snapIdx) => NoHole(T, snapIdx)
          /\ \A n \in Nat : Reaches(S, snapIdx, n) => Reaches(T, snapIdx, n)
          /\ \A n \in Nat : EndsBefore(S, n) => EndsBefore(T, n)
          /\ \A n \in Nat : EndsAt(S, snapIdx, n) => EndsAt(T, snapIdx, n)
      BY <1>6, <3>2, Compacting
    <3>4. \A n \in Nat :
            /\ Reaches(S, snapIdx, n) => Reaches(T, snapIdx', n)
            /\ EndsBefore(S, n) => EndsBefore(T, n)
            /\ EndsAt(S, snapIdx, n) => EndsAt(T, snapIdx', n)
      BY <1>2, <3>3
    <3>5. ret'["raft"] = ret["raft"]
      BY <1>3, <2>2 DEF Writer
    <3> QED
      BY <1>1, <1>2, <2>1, <3>3, <3>4, <3>5, KnowsStays DEF S, T
  <2>3. CASE tx.by = "raft" /\ main.pc = "init"
    <3>1. T = S
      BY <1>1, <1>4, <2>3 DEF StoreInv, TxOK, RaftCall
    <3> QED
      BY <1>2, <2>1, <2>3, <3>1 DEF RaftKnows
  <2>4. CASE tx.by = "raft" /\ main.pc = "conf"
    <3>1. T = S
      BY <1>1, <1>4, <2>4 DEF StoreInv, TxOK, RaftCall
    <3>2. EndsAt(T, snapIdx, lastLog)
      BY <2>1, <2>4, <3>1 DEF RaftKnows, S
    <3> QED
      BY <1>2, <2>1, <2>4, <3>1, <3>2 DEF RaftKnows, T
  <2>5. CASE tx.by = "raft" /\ main.pc = "delete"
    <3>1. tx.call = [op |-> "DeleteRange", min |-> main.call.at, max |-> lastLog]
      BY <1>1, <2>5 DEF StoreInv, TxOK, RaftCall
    <3>2. T = {i \in S : i < main.call.at \/ lastLog < i} /\ main.call.at \in Nat
      BY <1>1, <1>4, <2>5, <3>1, WholeTypes
    <3>3. Reaches(S, snapIdx, main.call.at) /\ EndsAt(S, snapIdx, lastLog)
      BY <1>3, <2>1, <2>5 DEF RaftKnows, S
    <3>4. NoHole(T, snapIdx) /\ Reaches(T, snapIdx, main.call.at) /\ EndsBefore(T, main.call.at)
      BY <1>6, <3>2, <3>3, Clearing
    <3>5. ret'["raft"] = "ok"
      BY <1>3, <2>5
    <3> QED
      BY <1>2, <2>5, <3>4, <3>5 DEF RaftKnows, T
  <2>6. CASE tx.by = "raft" /\ main.pc = "store"
    <3>1. tx.call = [op |-> "StoreLogs", at |-> main.call.at, es |-> main.call.es]
      BY <1>1, <2>6 DEF StoreInv, TxOK, RaftCall
    <3>2. PICK n \in Nat : DOMAIN main.call.es = 0 .. n /\ Max(DOMAIN main.call.es) = n
      BY <1>1, <2>6, WholeTypes
    <3> DEFINE a == main.call.at
    <3>3. a \in Nat
      BY <1>1, <2>6, WholeTypes
    <3>4. T = S \cup {a + j : j \in DOMAIN main.call.es}
      BY <1>4, <3>1
    <3>5. Reaches(S, snapIdx, a) /\ EndsBefore(S, a)
      BY <1>3, <2>1, <2>6 DEF RaftKnows, S
    <3> HIDE DEF a
    <3>6. {a + j : j \in 0 .. n} = a .. a + n
      <4>1. \A i \in a .. a + n : i - a \in 0 .. n /\ a + (i - a) = i
        BY <3>3
      <4>2. \A j \in 0 .. n : a + j \in a .. a + n
        BY <3>3
      <4> QED
        BY <4>1, <4>2
    <3>7. T = S \cup (a .. a + n) /\ a + n \in Nat /\ a <= a + n
      <4>1. T = S \cup {a + j : j \in 0 .. n}
        BY <3>2, <3>4
      <4>2. T = S \cup (a .. a + n)
        BY <3>6, <4>1, Zenon
      <4> QED
        BY <3>3, <4>2
    <3>8. NoHole(T, snapIdx) /\ EndsAt(T, snapIdx, a + n)
      BY <1>6, <3>3, <3>5, <3>7, Storing
    <3>9. ret'["raft"] = "ok"
      BY <1>3, <2>6
    <3> QED
      BY <1>2, <2>6, <3>2, <3>8, <3>9 DEF RaftKnows, T, a
  <2> QED
    BY <1>1, <1>3, <2>2, <2>3, <2>4, <2>5, <2>6 DEF StoreInv, TxOK, RaftCall, Writer
<1> QED
  BY <1>1, <1>2, <1>5, <1>7 DEF WholeInv, T

\* A transaction that is not committed.
LEMMA RollbackWhole == WholeInv /\ (Rollback \/ CommitFails) => WholeInv'
<1> SUFFICES ASSUME WholeInv, Rollback \/ CommitFails PROVE WholeInv'
  OBVIOUS
<1>1. StoreInv /\ StoreInv'
  BY EndStore DEF WholeInv
<1>2. /\ tx.by # "none" /\ tx' = NoTx /\ ret' = [ret EXCEPT ![tx.by] = "err"]
      /\ UNCHANGED <<main, lastLog, snapIdx, comp>>
  BY DEF Rollback, CommitFails, raft, snapshot
<1>3. CompactsCovered'
  BY <1>2 DEF WholeInv, CompactsCovered
<1>4. CASE CommitFails
  <2>1. failed' = TRUE
    BY <1>4 DEF CommitFails
  <2> QED
    BY <1>1, <1>3, <2>1 DEF WholeInv, ErrIsFailure
<1>5. CASE Rollback
  <2>1. tx.call.op = "Add" /\ UNCHANGED <<file, failed>>
    BY <1>5 DEF Rollback, Duplicated, env
  <2>2. main.pc = "conf"
    BY <1>1, <1>2, <2>1 DEF StoreInv, TypeOK, TxOK, RaftCall, SnapshotCall, Writer
  <2>3. ErrIsFailure'
    BY <1>2, <2>2 DEF ErrIsFailure
  <2>4. ~failed => NoHole(Stored(file), snapIdx) /\ EndsAt(Stored(file), snapIdx, lastLog)
    BY <2>2 DEF WholeInv, RaftKnows
  <2> QED
    BY <1>1, <1>2, <1>3, <2>1, <2>2, <2>3, <2>4 DEF WholeInv, RaftKnows
<1> QED
  BY <1>4, <1>5

\* Opening, the last index taken over, and crashes.
LEMMA RestartWhole == WholeInv /\ (Open \/ NewRaft \/ Crash) => WholeInv'
<1> SUFFICES ASSUME WholeInv, Open \/ NewRaft \/ Crash PROVE WholeInv'
  OBVIOUS
<1>1. StoreInv /\ StoreInv'
  BY OpenStore, NewRaftStore, CrashStore DEF WholeInv
<1>2. UNCHANGED <<file, snapIdx, failed>>
  BY DEF Open, Begin, NewRaft, Crash, snapshot, env
<1>3. snapIdx \in Nat
  BY <1>1, WholeTypes
<1>4. CompactsCovered'
  BY <1>2, <1>3 DEF WholeInv, CompactsCovered, Open, NewRaft, Crash, NoComp, snapshot
<1>5. CASE Open \/ Crash
  <2>1. main'.pc \in {"down", "init"} /\ ret'["raft"] # "err"
    <3>1. "raft" \in Writer /\ ret \in [Writer -> {"none", "busy", "ok", "err"}]
      BY <1>1 DEF StoreInv, TypeOK, Writer
    <3>2. main \in [pc : {"down", "init", "idle", "delete", "store", "conf", "install"}, call : Call \cup {Nil}]
      BY <1>1 DEF StoreInv, TypeOK
    <3> QED
      BY <1>5, <3>1, <3>2 DEF Open, Crash, Begin, Idle
  <2> QED
    BY <1>1, <1>2, <1>4, <2>1 DEF WholeInv, RaftKnows, ErrIsFailure
<1>6. CASE NewRaft
  <2>1. ret'["raft"] = "none"
    BY <1>1, <1>6, Returns DEF NewRaft, Writer
  <2>2. CASE main' = Idle /\ lastLog' = LastIndex
    <3>1. EndsAt(Stored(file), snapIdx, LastIndex)
      <4>1. /\ Stored(file) \in SUBSET Index
            /\ LastIndex = IF Stored(file) = {} THEN 0 ELSE Max(Stored(file))
        BY <1>1, CursorEnds, WholeTypes DEF StoreInv, TypeOK
      <4>2. CASE Stored(file) = {}
        BY <1>3, <4>1, <4>2 DEF EndsAt
      <4>3. CASE Stored(file) # {}
        BY <4>1, <4>3, Ends DEF EndsAt
      <4> QED
        BY <4>2, <4>3
    <3>2. main'.pc = "idle"
      BY <2>2 DEF Idle
    <3> QED
      BY <1>1, <1>2, <1>4, <2>1, <2>2, <3>1, <3>2 DEF WholeInv, RaftKnows, ErrIsFailure
  <2>3. CASE main' = [main EXCEPT !.pc = "down"]
    <3>1. main'.pc = "down"
      BY <1>1, <2>3 DEF StoreInv, TypeOK
    <3> QED
      BY <1>1, <1>2, <1>4, <2>1, <3>1 DEF WholeInv, RaftKnows, ErrIsFailure
  <2> QED
    BY <1>6, <2>2, <2>3 DEF NewRaft
<1> QED
  BY <1>5, <1>6

\* The main loop appends, or clears first.
LEMMA AppendWhole == ASSUME WholeInv, NEW c \in Call, appendEntries(c) PROVE WholeInv'
<1>1. StoreInv /\ StoreInv'
  BY AppendStore DEF WholeInv
<1>2. main.pc = "idle" /\ UNCHANGED <<file, lastLog, snapIdx, comp, failed>>
  BY DEF appendEntries, Begin, snapshot, env
<1>3. ret'["raft"] = "busy"
  BY <1>1 DEF appendEntries, Begin, StoreInv, TypeOK, Writer
<1>4. CompactsCovered' /\ ErrIsFailure'
  BY <1>2, <1>3 DEF WholeInv, CompactsCovered, ErrIsFailure
<1>5. ASSUME ~failed PROVE RaftKnows'
  <2> DEFINE S == Stored(file)
  <2>1. NoHole(S, snapIdx) /\ EndsAt(S, snapIdx, lastLog)
    BY <1>2, <1>5 DEF WholeInv, RaftKnows
  <2>2. /\ S \in SUBSET Nat /\ snapIdx \in Nat /\ lastLog \in Nat
        /\ snapIdx \in Index /\ lastLog \in Index /\ file \in File
    BY <1>1, WholeTypes DEF StoreInv, TypeOK
  <2>3. c.at \in Nat /\ c.at > 0 /\ c.at \in Index /\ c.at - 1 \in Index
    BY BoltStoreAssumption DEF appendEntries, Call, Index
  <2>4. lastIdx \in {lastLog, snapIdx}
    BY <2>2, Ends DEF lastIdx
  <2>5. c.at - 1 \in {0, lastLog, snapIdx} \/ c.at - 1 \in S
    BY <2>2, <2>3, <2>4, GetLogIsStored DEF appendEntries
  <2> HIDE DEF S
  <2>6. Reaches(S, snapIdx, c.at)
    BY <2>1, <2>2, <2>3, <2>5, Appending
  <2>7. CASE main' = [pc |-> "delete", call |-> c]
    <3>1. main'.pc = "delete" /\ main'.call = c
      BY <2>7
    <3> QED
      BY <1>2, <1>3, <2>1, <2>6, <3>1 DEF RaftKnows, S
  <2>8. CASE c.at > lastLog /\ main' = [pc |-> "store", call |-> c]
    <3>1. main'.pc = "store" /\ main'.call = c
      BY <2>8
    <3>2. EndsBefore(S, c.at)
      BY <2>1, <2>2, <2>3, <2>8 DEF EndsAt, EndsBefore
    <3> QED
      BY <1>2, <1>3, <2>6, <3>1, <3>2 DEF RaftKnows, S
  <2> QED
    BY <2>7, <2>8 DEF appendEntries
<1> QED
  BY <1>1, <1>2, <1>4, <1>5 DEF WholeInv

\* The main loop has cleared, and stores.
LEMMA ClearedWhole == WholeInv /\ cleared => WholeInv'
<1> SUFFICES ASSUME WholeInv, cleared PROVE WholeInv'
  OBVIOUS
<1>1. StoreInv /\ StoreInv'
  BY ClearedStore DEF WholeInv
<1>2. main.pc = "delete" /\ UNCHANGED <<file, lastLog, snapIdx, comp, failed>>
  BY DEF cleared, Begin, snapshot, env
<1>3. ret'["raft"] # "err"
  BY <1>1 DEF cleared, Begin, Returned, StoreInv, TypeOK, Writer
<1>4. CompactsCovered' /\ ErrIsFailure'
  BY <1>2, <1>3 DEF WholeInv, CompactsCovered, ErrIsFailure
<1>5. ASSUME ~failed PROVE RaftKnows'
  <2>1. ret["raft"] # "err"
    BY <1>2, <1>5 DEF WholeInv, ErrIsFailure
  <2>2. ret["raft"] = "ok" /\ main' = [main EXCEPT !.pc = "store"] /\ ret'["raft"] = "busy"
    BY <1>1, <2>1 DEF cleared, Begin, StoreInv, TypeOK, Writer
  <2>3. main'.pc = "store" /\ main'.call = main.call
    BY <1>1, <2>2 DEF StoreInv, TypeOK
  <2>4. Reaches(Stored(file), snapIdx, main.call.at) /\ EndsBefore(Stored(file), main.call.at)
    BY <1>2, <1>5, <2>2 DEF WholeInv, RaftKnows
  <2> QED
    BY <1>2, <2>2, <2>3, <2>4 DEF RaftKnows
<1> QED
  BY <1>1, <1>2, <1>4, <1>5 DEF WholeInv

\* The main loop goes on after a call.
LEMMA ReturnWhole == WholeInv /\ (appended \/ confSet) => WholeInv'
<1> SUFFICES ASSUME WholeInv, appended \/ confSet PROVE WholeInv'
  OBVIOUS
<1>1. StoreInv /\ StoreInv'
  BY AppendedStore, ConfSetStore DEF WholeInv
<1>2. /\ main.pc \in {"store", "conf"} /\ main' = Idle /\ Returned("raft")
      /\ UNCHANGED <<file, tx, snapIdx, comp, failed>>
  BY DEF appended, confSet, snapshot, env
<1>3. ret'["raft"] = "none" /\ main'.pc = "idle"
  BY <1>1, <1>2, Returns DEF Writer, Idle
<1>4. CompactsCovered' /\ ErrIsFailure'
  BY <1>2, <1>3 DEF WholeInv, CompactsCovered, ErrIsFailure
<1>5. ASSUME ~failed PROVE EndsAt(Stored(file), snapIdx, lastLog')
  <2>1. CASE confSet
    BY <1>5, <2>1 DEF WholeInv, RaftKnows, confSet
  <2>2. CASE appended
    <3>1. main.pc = "store" /\ ret["raft"] = "ok"
      BY <1>2, <1>5, <2>2 DEF WholeInv, ErrIsFailure, appended, Returned
    <3> QED
      BY <1>5, <2>2, <3>1 DEF WholeInv, RaftKnows, appended
  <2> QED
    BY <2>1, <2>2
<1> QED
  BY <1>1, <1>2, <1>3, <1>4, <1>5 DEF WholeInv, RaftKnows

\* The main loop sets a number, or adds a value.
LEMMA SetConfWhole ==
  ASSUME WholeInv, NEW op \in {"Set", "Add"}, NEW k \in Key, NEW v \in Value, SetConf(op, k, v)
  PROVE  WholeInv'
<1>1. StoreInv /\ StoreInv'
  BY SetConfStore DEF WholeInv
<1>2. /\ main.pc = "idle" /\ main' = [main EXCEPT !.pc = "conf"]
      /\ UNCHANGED <<file, lastLog, snapIdx, comp, failed>>
  BY DEF SetConf, Begin, snapshot, env
<1>3. main'.pc = "conf"
  BY <1>1, <1>2 DEF StoreInv, TypeOK
<1> QED
  BY <1>1, <1>2, <1>3 DEF WholeInv, RaftKnows, CompactsCovered, ErrIsFailure

\* A snapshot is taken, or installed.
LEMMA SnapshotWhole ==
  ASSUME WholeInv, NEW i \in Index, takeSnapshot(i) \/ installSnapshot(i)
  PROVE  WholeInv'
<1>1. StoreInv /\ StoreInv'
  BY SnapshotStore DEF WholeInv
<1>2. /\ UNCHANGED <<file, tx, ret, lastLog, failed>>
      /\ snapIdx' = i /\ comp' = [comp EXCEPT !.pc = "compact"]
      /\ main' = main \/ (main.pc = "idle" /\ main' = [main EXCEPT !.pc = "install"])
  BY DEF takeSnapshot, installSnapshot, store, raft, env
<1>3. /\ Stored(file) \in SUBSET Nat /\ snapIdx \in Nat /\ i \in Nat /\ snapIdx <= i
      /\ lastLog \in Nat /\ comp.max \in Nat
  <2>1. snapIdx \in Nat /\ lastLog \in Nat /\ comp.max \in Nat /\ Stored(file) \in SUBSET Nat
    BY <1>1, WholeTypes
  <2>2. i \in snapIdx + 1 .. lastLog \/ i \in snapIdx + 1 .. MaxIndex
    BY DEF takeSnapshot, installSnapshot
  <2> QED
    BY <2>1, <2>2, BoltStoreAssumption
<1>4. CompactsCovered' /\ ErrIsFailure'
  <2>1. comp'.max = comp.max
    BY <1>1, <1>2 DEF StoreInv, TypeOK
  <2>2. comp.max <= i
    BY <1>3 DEF WholeInv, CompactsCovered
  <2>3. ErrIsFailure'
    BY <1>1, <1>2 DEF WholeInv, ErrIsFailure, StoreInv, TypeOK
  <2> QED
    BY <1>2, <2>1, <2>2, <2>3 DEF CompactsCovered
<1>5. /\ NoHole(Stored(file), snapIdx) => NoHole(Stored(file), i)
      /\ \A n \in Nat : Reaches(Stored(file), snapIdx, n) => Reaches(Stored(file), i, n)
      /\ \A n \in Nat : EndsAt(Stored(file), snapIdx, n) => EndsAt(Stored(file), i, n)
  BY <1>3, SnapshotGrows
<1>6. ASSUME ~failed PROVE NoHole(Stored(file), i) /\ RaftKnows'
  <2>1. NoHole(Stored(file), snapIdx) /\ RaftKnows
    BY <1>6 DEF WholeInv
  <2>2. CASE main' = main
    <3>1. \A n \in Nat :
            /\ Reaches(Stored(file), snapIdx, n) => Reaches(Stored(file'), snapIdx', n)
            /\ EndsBefore(Stored(file), n) => EndsBefore(Stored(file'), n)
            /\ EndsAt(Stored(file), snapIdx, n) => EndsAt(Stored(file'), snapIdx', n)
      BY <1>2, <1>5
    <3> QED
      BY <1>1, <1>2, <1>5, <2>1, <2>2, <3>1, KnowsStays
  <2>3. CASE main.pc = "idle" /\ main' = [main EXCEPT !.pc = "install"]
    <3>1. main'.pc = "install"
      BY <1>1, <2>3 DEF StoreInv, TypeOK
    <3>2. EndsAt(Stored(file), i, lastLog)
      BY <1>3, <1>5, <2>1, <2>3 DEF RaftKnows
    <3> QED
      BY <1>2, <1>5, <2>1, <3>1, <3>2 DEF RaftKnows
  <2> QED
    BY <1>2, <2>2, <2>3
<1> QED
  BY <1>1, <1>2, <1>4, <1>6 DEF WholeInv

\* The rest of installing and compacting leaves the log and raft alone.
LEMMA CompactWhole ==
  WholeInv /\ (installed \/ compactLogs \/ compact \/ compacted) => WholeInv'
<1> SUFFICES ASSUME WholeInv, installed \/ compactLogs \/ compact \/ compacted PROVE WholeInv'
  OBVIOUS
<1>1. StoreInv /\ StoreInv'
  BY InstalledStore, CompactLogsStore, CompactStore, CompactedStore DEF WholeInv
<1>2. UNCHANGED <<file, lastLog, snapIdx, failed>>
  BY DEF installed, compactLogs, compact, compacted, Begin, store, raft, snapshot, env
<1>3. ret'["raft"] = ret["raft"]
  BY <1>1 DEF installed, compactLogs, compact, compacted, Begin, Returned, store,
              StoreInv, TypeOK, Writer
<1>4. CompactsCovered'
  <2>1. snapIdx \in Nat /\ comp.max <= snapIdx
    BY <1>1, WholeTypes DEF WholeInv, CompactsCovered
  <2>2. comp' = comp \/ comp'.max = comp.max \/ comp'.max <= snapIdx
    <3>1. CASE installed
      BY <3>1 DEF installed, snapshot
    <3>2. CASE compactLogs
      BY <1>1, <2>1, <3>2, CompactRange DEF compactLogs, NoComp, StoreInv
    <3>3. CASE compact
      BY <1>1, <3>3 DEF compact, StoreInv, TypeOK
    <3>4. CASE compacted
      BY <2>1, <3>4 DEF compacted, NoComp
    <3> QED
      BY <3>1, <3>2, <3>3, <3>4
  <2> QED
    BY <1>2, <2>1, <2>2 DEF CompactsCovered
<1>5. CASE main' = main
  BY <1>1, <1>2, <1>3, <1>4, <1>5 DEF WholeInv, RaftKnows, ErrIsFailure
<1>6. CASE installed
  <2>1. main.pc = "install" /\ main'.pc = "idle"
    BY <1>6 DEF installed, Idle
  <2> QED
    BY <1>1, <1>2, <1>3, <1>4, <2>1 DEF WholeInv, RaftKnows, ErrIsFailure
<1> QED
  BY <1>5, <1>6 DEF compactLogs, compact, compacted, raft

\* Every step keeps the invariant.
LEMMA WholeStep == WholeInv /\ [Next]_vars => WholeInv'
<1> SUFFICES ASSUME WholeInv, [Next]_vars PROVE WholeInv'
  OBVIOUS
<1>1. CASE UNCHANGED vars
  <2>1. StoreInv'
    BY StoreStep DEF WholeInv
  <2> QED
    BY <1>1, <2>1 DEF vars, store, raft, snapshot, env, WholeInv, RaftKnows, ErrIsFailure, CompactsCovered
<1>2. CASE \E k \in Key : \/ \E u \in Number : SetUint64(k, u)
                          \/ \E v \in Value : SetConf("Add", k, v)
  <2>1. PICK k \in Key : \/ \E u \in Number : SetUint64(k, u)
                         \/ \E v \in Value : SetConf("Add", k, v)
    BY <1>2
  <2>2. \A u \in Number : uint64ToBytes(u) \in Value
    BY DEF Value
  <2> QED
    BY <2>1, <2>2, SetConfWhole DEF SetUint64
<1> QED
  BY <1>1, <1>2, RestartWhole, CommitWhole, RollbackWhole, AppendWhole, ClearedWhole,
     ReturnWhole, SnapshotWhole, CompactWhole DEF Next

\* As long as no Commit fails, the log on disk has no hole between the snapshot and
\* its end, whatever was cleared, compacted by a range computed earlier or cut
\* short by crashes, and raft, between its calls, knows that end or the snapshot
\* covers it.
THEOREM LogStaysWhole == Spec => []LogIsWhole
<1>1. WholeInv => LogIsWhole
  <2> SUFFICES ASSUME WholeInv, ~failed PROVE LogIsWhole
    BY DEF LogIsWhole
  <2> DEFINE S == Stored(file)
  <2>1. StoreInv /\ NoHole(S, snapIdx) /\ RaftKnows /\ file \in File
    BY DEF WholeInv, StoreInv, TypeOK
  <2>2. S \in SUBSET Index /\ S \in SUBSET Nat /\ snapIdx \in Nat /\ lastLog \in Nat
    BY <2>1, WholeTypes
  <2>3. LastIndex \in Index /\ LastIndex = IF S = {} THEN 0 ELSE Max(S)
    BY <2>1, CursorEnds
  <2>4. LastIndex \in S \/ (S = {} /\ LastIndex = 0)
    BY <2>2, <2>3, Ends
  <2>5. \A i \in S : i <= LastIndex
    BY <2>2, <2>3, Ends
  <2>6. LastIndex \in Nat
    BY <2>3 DEF Index
  <2>7. ASSUME NEW i \in snapIdx + 1 .. LastIndex PROVE GetLog(i) # Nil
    <3>1. LastIndex \in S
      BY <2>2, <2>4
    <3>2. i \in S
      BY <2>1, <3>1 DEF NoHole
    <3>3. i \in Index
      BY <2>2, <3>2
    <3> QED
      BY <2>1, <3>2, <3>3, GetLogIsStored
  <2>8. ASSUME main.pc = "idle"
        PROVE  lastLog = LastIndex \/ {lastLog, LastIndex} \subseteq 0 .. snapIdx
    <3>1. EndsAt(S, snapIdx, lastLog)
      BY <2>1, <2>8 DEF RaftKnows
    <3>2. CASE lastLog \in S
      <4>1. LastIndex \in S /\ LastIndex <= lastLog /\ lastLog <= LastIndex
        BY <2>4, <2>5, <3>1, <3>2 DEF EndsAt
      <4> QED
        BY <2>2, <2>6, <4>1
    <3>3. CASE lastLog <= snapIdx
      <4>1. LastIndex <= lastLog
        BY <2>2, <2>4, <3>1 DEF EndsAt
      <4> QED
        BY <2>2, <2>6, <3>3, <4>1
    <3> QED
      BY <3>1, <3>2, <3>3 DEF EndsAt
  <2> QED
    BY <2>7, <2>8 DEF LogIsWhole
<1> QED
  BY <1>1, WholeInit, WholeStep, PTL DEF Spec
=============================================================================
