------------------------------- MODULE StdMap -------------------------------
(***************************************************************************)
(* The C++ standard containers the service manager keeps its tables in.    *)
(* A std::map is a function whose DOMAIN is the set of keys present; a     *)
(* std::vector is a sequence.  None of this is code of the repository.     *)
(***************************************************************************)
LOCAL INSTANCE Naturals
LOCAL INSTANCE Sequences

EmptyMap == [k \in {} |-> k]

\* m[k] = v, inserting or overwriting.
MapPut(m, k, v) == [x \in DOMAIN m \cup {k} |-> IF x = k THEN v ELSE m[x]]

\* m.erase(k) for every k of K.
MapErase(m, K) == [x \in DOMAIN m \ K |-> m[x]]

\* The value at k, or d where the key is absent.
MapGet(m, k, d) == IF k \in DOMAIN m THEN m[k] ELSE d

\* Inserts one element into the set stored at k (a map of sets).
MapAdd(m, k, x) == MapPut(m, k, MapGet(m, k, {}) \cup {x})

\* Erases one element from the set stored at k, and the key with the last one.
MapDrop(m, k, x) ==
  IF k \notin DOMAIN m THEN m
  ELSE IF m[k] \ {x} = {} THEN MapErase(m, {k}) ELSE [m EXCEPT ![k] = @ \ {x}]

\* The elements of a vector.
Elems(s) == {s[i] : i \in 1 .. Len(s)}

\* Every element occurs once.
Distinct(s) == \A i, j \in 1 .. Len(s) : s[i] = s[j] => i = j

\* vector::erase of the first element equal to x, if there is one.
VecErase(s, x) ==
  IF x \notin Elems(s) THEN s
  ELSE LET i == CHOOSE k \in 1 .. Len(s) :
                  s[k] = x /\ \A j \in 1 .. (k - 1) : s[j] # x
       IN  SubSeq(s, 1, i - 1) \o SubSeq(s, i + 1, Len(s))
=============================================================================
