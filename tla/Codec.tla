------------------------------- MODULE Codec -------------------------------
(***************************************************************************)
(* raftboltdb/util.go: numbers as big-endian bytes, and the order in which *)
(* bolt goes through such keys.                                            *)
(***************************************************************************)
EXTENDS Integers

CONSTANTS Base, Width    \* a key has Width bytes of Base values each (256, 8)

ASSUME CodecAssumption == Base \in Nat \ {0} /\ Width \in Nat

\* The powers of Base.
pow[i \in 0 .. Width] == IF i = 0 THEN 1 ELSE Base * pow[i - 1]

\* The numbers that have a key.
Uint == 0 .. pow[Width] - 1

uint64ToBytes(u) == [i \in 1 .. Width |-> (u \div pow[Width - i]) % Base]

bytesToUint64(b) ==
  LET val[i \in 0 .. Width] == IF i = 0 THEN 0 ELSE Base * val[i - 1] + b[i]
  IN  val[Width]

\* bytes.Compare(a, b) = -1.
Less(a, b) == \E i \in 1 .. Width : a[i] < b[i] /\ \A j \in 1 .. i - 1 : a[j] = b[j]

Bytes == [1 .. Width -> 0 .. Base - 1]
=============================================================================
