----------------------------- MODULE PrefixRange -----------------------------
(***************************************************************************)
(* EtcdKVStore.get_prefix of coordinator.py: records are found by asking   *)
(* etcd for a range of keys that starts at the prefix and ends at          *)
(* _prefix_end(prefix).  Checked against the other implementation of the   *)
(* same interface, InMemoryKVStore, which tests startswith.                *)
(***************************************************************************)
EXTENDS Integers, Sequences

CONSTANTS MaxByte, MaxLen \* 0xFF, and a bound on the length of a key

RangeAssumption == {MaxByte, MaxLen} \subseteq Nat \ {0}

VARIABLES prefix, keys \* the argument, and the keys of the store
vars == <<prefix, keys>>

Bytes == 0..MaxByte
Strings == UNION {[1..n -> Bytes] : n \in 0..MaxLen}

\* Byte-wise order.
Below(s, t) ==
  \/ Len(s) < Len(t) /\ SubSeq(t, 1, Len(s)) = s
  \/ \E i \in 1..Len(s) : i <= Len(t) /\ SubSeq(s, 1, i - 1) = SubSeq(t, 1, i - 1) /\ s[i] < t[i]

startswith(key, p) == Len(p) <= Len(key) /\ SubSeq(key, 1, Len(p)) = p

NotFull(p) == {i \in 1..Len(p) : p[i] < MaxByte}
prefix_end_LastByte(p) == IF p = <<>> THEN <<0>> ELSE [p EXCEPT ![Len(p)] = (@ + 1) % (MaxByte + 1)]
\* The last byte below 0xFF is incremented and what follows it cut off.
prefix_end(p) ==
  IF NotFull(p) = {} THEN <<0>>
  ELSE LET index == CHOOSE i \in NotFull(p) : \A j \in NotFull(p) : j <= i IN
       [SubSeq(p, 1, index) EXCEPT ![index] = @ + 1]

\* etcd's range: from key up to, not including, range_end; "\0" stands for no end.
Range(stored, key, range_end) ==
  {k \in stored : ~Below(k, key) /\ (range_end = <<0>> \/ Below(k, range_end))}

get_prefix(p) == Range(keys, p, prefix_end(p))

Init == prefix \in Strings \ {<<>>} /\ keys = {}
Put(k) == keys' = {k} /\ UNCHANGED prefix
Next == \E k \in Strings \ {<<>>} : Put(k)
Spec == Init /\ [][Next]_vars

\* The range holds exactly the keys that start with the prefix, also when its last bytes
\* or all of them are 0xFF.
RangeIsPrefix == get_prefix(prefix) = {k \in keys : startswith(k, prefix)}
=============================================================================
