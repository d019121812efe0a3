------------------------ MODULE ServiceRegistry_proofs ------------------------
(***************************************************************************)
(* Theorems about the service registry, for all constants that satisfy     *)
(* RegistryAssumption.  The argument looks at the fd index through the set *)
(* of identities it lists for each fd, and shows that every method keeps    *)
(* that set equal to the set of entries whose control fd it is.            *)
(***************************************************************************)
EXTENDS ServiceRegistry, SequenceTheorems, TLAPS

\* The index by itself is well formed: non-empty vectors without repetition.
IndexWF(idx) ==
  /\ DOMAIN idx \subseteq Fds
  /\ \A fd \in DOMAIN idx : idx[fd] \in Seq(Ids) /\ idx[fd] # <<>> /\ Distinct(idx[fd])

\* What the index lists for an fd.
Listed(idx, fd) == Elems(MapGet(idx, fd, <<>>))

\* What the entries say of it.
Controlled(svc, fd) == {id \in DOMAIN svc : svc[id].fd = fd}

SvcTyped(svc) == DOMAIN svc \subseteq Ids /\ \A id \in DOMAIN svc : svc[id] \in Entry

\* The inductive invariant.
RegistryInv(r) ==
  /\ r = [svc |-> r.svc, idx |-> r.idx, next |-> r.next]
  /\ SvcTyped(r.svc)
  /\ IndexWF(r.idx)
  /\ \A fd \in Fds : Listed(r.idx, fd) = Controlled(r.svc, fd)
  /\ r.next \in 0 .. HandleMod - 1
  /\ HandlesValid(r)

-------------------------------------------------------------------------------
(* Vectors *)

\* Erasing an element of a vector without repetition leaves the others, once
\* each (removeFromFdIndex).
LEMMA VecEraseFacts ==
  ASSUME NEW S, NEW s \in Seq(S), NEW x, Distinct(s)
  PROVE  /\ VecErase(s, x) \in Seq(S)
         /\ Elems(VecErase(s, x)) = Elems(s) \ {x}
         /\ Distinct(VecErase(s, x))
<1>1. CASE x \notin Elems(s)
  BY <1>1 DEF VecErase
<1>2. CASE x \in Elems(s)
  <2> DEFINE P(k) == s[k] = x /\ \A j \in 1 .. (k - 1) : s[j] # x
             i == CHOOSE k \in 1 .. Len(s) : P(k)
             a == SubSeq(s, 1, i - 1)
             b == SubSeq(s, i + 1, Len(s))
             t == a \o b
  <2>0. Len(s) \in Nat /\ \A k \in 1 .. Len(s) : s[k] \in S
    BY LenProperties
  <2>1. \E k \in 1 .. Len(s) : P(k)
    <3>1. PICK k \in 1 .. Len(s) : s[k] = x
      BY <1>2 DEF Elems
    <3>2. \A j \in 1 .. (k - 1) : s[j] # x
      BY <2>0, <3>1 DEF Distinct
    <3> QED BY <3>1, <3>2
  <2>2. i \in 1 .. Len(s) /\ s[i] = x
    BY <2>1
  <2>3. VecErase(s, x) = t
    BY <1>2 DEF VecErase
  <2> HIDE DEF i
  <2>4. /\ a \in Seq(S) /\ Len(a) = i - 1
        /\ \A k \in 1 .. i - 1 : a[k] = s[k]
    <3>1. \A k \in 1 .. i - 1 : s[k] \in S
      BY <2>0, <2>2
    <3>2. 1 \in Int /\ i - 1 \in Int
      BY <2>2
    <3> QED BY <2>0, <2>2, <3>1, <3>2, SubSeqProperties, Z3
  <2>5. /\ b \in Seq(S) /\ Len(b) = Len(s) - i
        /\ \A k \in 1 .. Len(s) - i : b[k] = s[i + k]
    <3>1. \A k \in i + 1 .. Len(s) : s[k] \in S
      BY <2>0, <2>2
    <3>2. i + 1 \in Int /\ Len(s) \in Int
      BY <2>0, <2>2
    <3> QED BY <2>0, <2>2, <3>1, <3>2, SubSeqProperties, Z3
  <2> HIDE DEF a, b
  <2>6. /\ t \in Seq(S) /\ Len(t) = Len(s) - 1
        /\ \A k \in 1 .. Len(s) - 1 : t[k] = IF k < i THEN s[k] ELSE s[k + 1]
    <3>1. /\ t \in Seq(S) /\ Len(t) = Len(a) + Len(b)
          /\ \A k \in 1 .. Len(a) + Len(b) :
               t[k] = IF k <= Len(a) THEN a[k] ELSE b[k - Len(a)]
      BY <2>4, <2>5, ConcatProperties
    <3> HIDE DEF t
    <3>2. ASSUME NEW k \in 1 .. Len(s) - 1
          PROVE  t[k] = IF k < i THEN s[k] ELSE s[k + 1]
      <4>0. t[k] = IF k <= Len(a) THEN a[k] ELSE b[k - Len(a)]
        <5>1. k \in 1 .. Len(a) + Len(b)
          BY <2>0, <2>2, <2>4, <2>5
        <5> QED BY <5>1, <3>1
      <4>1. CASE k < i
        <5>1. k <= Len(a) /\ k \in 1 .. i - 1
          BY <4>1, <2>0, <2>2, <2>4
        <5> QED BY <4>0, <4>1, <5>1, <2>4
      <4>2. CASE ~(k < i)
        <5>1. k - Len(a) \in 1 .. Len(s) - i /\ i + (k - Len(a)) = k + 1
          BY <4>2, <2>0, <2>2, <2>4
        <5>2. t[k] = b[k - Len(a)]
          BY <4>0, <4>2, <2>0, <2>2, <2>4
        <5> QED BY <4>2, <5>1, <5>2, <2>5
      <4> QED BY <4>1, <4>2
    <3> QED BY <3>1, <3>2, <2>0, <2>2, <2>4, <2>5
  <2> HIDE DEF t
  <2>7. Distinct(t)
    BY <2>0, <2>2, <2>6 DEF Distinct
  <2>8. Elems(t) = Elems(s) \ {x}
    <3>1. ASSUME NEW y \in Elems(t) PROVE y \in Elems(s) \ {x}
      <4>1. PICK k \in 1 .. Len(s) - 1 : y = t[k]
        BY <2>6 DEF Elems
      <4>2. PICK m \in 1 .. Len(s) : y = s[m] /\ m # i
        BY <4>1, <2>0, <2>2, <2>6
      <4> QED BY <4>2, <2>2 DEF Elems, Distinct
    <3>2. ASSUME NEW y \in Elems(s) \ {x} PROVE y \in Elems(t)
      <4>1. PICK m \in 1 .. Len(s) : y = s[m]
        BY DEF Elems
      <4>2. m # i
        BY <4>1, <2>2
      <4>3. CASE m < i
        <5>1. m \in 1 .. Len(s) - 1 /\ t[m] = y
          BY <4>1, <4>3, <2>0, <2>2, <2>6
        <5> QED BY <5>1, <2>6 DEF Elems
      <4>4. CASE m > i
        <5>1. m - 1 \in 1 .. Len(s) - 1 /\ t[m - 1] = y
          BY <4>1, <4>4, <2>0, <2>2, <2>6
        <5> QED BY <5>1, <2>6 DEF Elems
      <4> QED BY <4>2, <4>3, <4>4, <2>2
    <3> QED BY <3>1, <3>2
  <2> QED BY <2>3, <2>6, <2>7, <2>8
<1> QED BY <1>1, <1>2

\* push_back of an element that is not there yet.
LEMMA AppendFacts ==
  ASSUME NEW S, NEW s \in Seq(S), NEW x \in S, Distinct(s), x \notin Elems(s)
  PROVE  /\ Append(s, x) \in Seq(S)
         /\ Append(s, x) # <<>>
         /\ Elems(Append(s, x)) = Elems(s) \cup {x}
         /\ Distinct(Append(s, x))
<1> DEFINE t == Append(s, x)
<1>1. /\ t \in Seq(S) /\ Len(s) \in Nat /\ Len(t) = Len(s) + 1
      /\ \A k \in 1 .. Len(s) : t[k] = s[k]
      /\ t[Len(s) + 1] = x
  BY LenProperties
<1>2. t # <<>>
  BY <1>1, EmptySeq
<1> HIDE DEF t
<1>3. Elems(t) = Elems(s) \cup {x}
  <2>1. ASSUME NEW y \in Elems(t) PROVE y \in Elems(s) \cup {x}
    BY <1>1 DEF Elems
  <2>2. ASSUME NEW y \in Elems(s) PROVE y \in Elems(t)
    BY <1>1 DEF Elems
  <2>3. x \in Elems(t)
    BY <1>1 DEF Elems
  <2> QED BY <2>1, <2>2, <2>3
<1>4. Distinct(t)
  BY <1>1 DEF Distinct, Elems
<1> QED BY <1>1, <1>2, <1>3, <1>4 DEF t

\* A vector with no elements is the empty one.
LEMMA ElemsEmpty ==
  ASSUME NEW S, NEW s \in Seq(S)
  PROVE  Elems(s) = {} <=> s = <<>>
<1>1. ASSUME s # <<>> PROVE s[1] \in Elems(s)
  BY <1>1, EmptySeq, LenProperties DEF Elems
<1>2. ASSUME s = <<>> PROVE Elems(s) = {}
  BY <1>2, EmptySeq DEF Elems
<1> QED BY <1>1, <1>2

-------------------------------------------------------------------------------
(* The fd index *)

\* A vector of a well-formed index, and the empty one in its place.
LEMMA ListedVector ==
  ASSUME NEW idx, IndexWF(idx), NEW fd
  PROVE  MapGet(idx, fd, <<>>) \in Seq(Ids) /\ Distinct(MapGet(idx, fd, <<>>))
<1>1. CASE fd \in DOMAIN idx
  BY <1>1 DEF IndexWF, MapGet
<1>2. CASE fd \notin DOMAIN idx
  <2>1. MapGet(idx, fd, <<>>) = <<>>
    BY <1>2 DEF MapGet
  <2>2. Distinct(<<>>)
    BY EmptySeq DEF Distinct
  <2> QED BY <2>1, <2>2, EmptySeq
<1> QED BY <1>1, <1>2

\* removeFromFdIndex takes one identity from one fd's list.
LEMMA RemoveFromIndex ==
  ASSUME NEW idx, IndexWF(idx), NEW fd, NEW id
  PROVE  LET new == removeFromFdIndex(idx, fd, id)
         IN  /\ IndexWF(new)
             /\ \A f : Listed(new, f) = IF f = fd THEN Listed(idx, f) \ {id} ELSE Listed(idx, f)
<1> DEFINE new == removeFromFdIndex(idx, fd, id)
           refs == VecErase(idx[fd], id)
<1>1. CASE fd \notin DOMAIN idx
  <2>1. new = idx
    BY <1>1 DEF removeFromFdIndex
  <2>2. Listed(idx, fd) = {}
    BY <1>1, EmptySeq, ElemsEmpty DEF Listed, MapGet
  <2> QED BY <2>1, <2>2
<1>2. CASE fd \in DOMAIN idx
  <2>1. /\ refs \in Seq(Ids) /\ Distinct(refs)
        /\ Elems(refs) = Elems(idx[fd]) \ {id}
    BY <1>2, VecEraseFacts DEF IndexWF
  <2>2. Listed(idx, fd) = Elems(idx[fd])
    BY <1>2 DEF Listed, MapGet
  <2> HIDE DEF refs
  <2>3. CASE refs = <<>>
    <3>1. new = MapErase(idx, {fd})
      BY <1>2, <2>3 DEF removeFromFdIndex, refs
    <3>2. DOMAIN new = DOMAIN idx \ {fd} /\ \A f \in DOMAIN new : new[f] = idx[f]
      BY <3>1 DEF MapErase
    <3> HIDE DEF new
    <3>3. IndexWF(new)
      BY <3>2 DEF IndexWF
    <3>4. Listed(new, fd) = {}
      BY <3>2, EmptySeq, ElemsEmpty DEF Listed, MapGet
    <3>5. Elems(refs) = {}
      BY <2>1, <2>3, ElemsEmpty
    <3>6. \A f : f # fd => Listed(new, f) = Listed(idx, f)
      BY <3>2 DEF Listed, MapGet
    <3> QED BY <3>3, <3>4, <3>5, <3>6, <2>1, <2>2 DEF new
  <2>4. CASE refs # <<>>
    <3>1. new = [idx EXCEPT ![fd] = refs]
      BY <1>2, <2>4 DEF removeFromFdIndex, refs
    <3>2. /\ DOMAIN new = DOMAIN idx /\ new[fd] = refs
          /\ \A f \in DOMAIN new : f # fd => new[f] = idx[f]
      BY <1>2, <3>1
    <3> HIDE DEF new
    <3>3. IndexWF(new)
      BY <3>2, <2>1, <2>4 DEF IndexWF
    <3>4. Listed(new, fd) = Elems(refs)
      BY <1>2, <3>2 DEF Listed, MapGet
    <3>5. \A f : f # fd => Listed(new, f) = Listed(idx, f)
      BY <3>2 DEF Listed, MapGet
    <3> QED BY <3>3, <3>4, <3>5, <2>1, <2>2 DEF new
  <2> QED BY <2>3, <2>4
<1> QED BY <1>1, <1>2

\* pushFdIndex adds one identity to one fd's list.
LEMMA PushToIndex ==
  ASSUME NEW idx, IndexWF(idx), NEW fd \in Fds, NEW id \in Ids, id \notin Listed(idx, fd)
  PROVE  LET new == pushFdIndex(idx, fd, id)
         IN  /\ IndexWF(new)
             /\ \A f : Listed(new, f) = IF f = fd THEN Listed(idx, f) \cup {id} ELSE Listed(idx, f)
<1> DEFINE new == pushFdIndex(idx, fd, id)
           old == MapGet(idx, fd, <<>>)
           refs == Append(old, id)
<1>1. /\ refs \in Seq(Ids) /\ refs # <<>> /\ Distinct(refs)
      /\ Elems(refs) = Elems(old) \cup {id}
  BY ListedVector, AppendFacts DEF Listed
<1>2. /\ DOMAIN new = DOMAIN idx \cup {fd} /\ new[fd] = refs
      /\ \A f \in DOMAIN new : f # fd => new[f] = idx[f]
  BY DEF pushFdIndex, MapPut
<1> HIDE DEF new, refs
<1>3. IndexWF(new)
  BY <1>1, <1>2 DEF IndexWF
<1>4. Listed(new, fd) = Listed(idx, fd) \cup {id}
  BY <1>1, <1>2 DEF Listed, MapGet
<1>5. \A f : f # fd => Listed(new, f) = Listed(idx, f)
  BY <1>2 DEF Listed, MapGet
<1> QED BY <1>3, <1>4, <1>5 DEF new

-------------------------------------------------------------------------------
(* The methods keep the invariant *)

\* generateHandle never returns INVALID_HANDLE, across the wrap of the counter.
LEMMA HandleFacts ==
  ASSUME NEW n \in 0 .. HandleMod - 1
  PROVE  /\ generateHandle(n).handle \in 1 .. HandleMod - 1
         /\ generateHandle(n).next \in 0 .. HandleMod - 1
<1>1. HandleMod \in Nat /\ HandleMod > 1
  BY RegistryAssumption
<1>2. (n + 1) % HandleMod \in 0 .. HandleMod - 1
  BY <1>1
<1>3. (((n + 1) % HandleMod) + 1) % HandleMod \in 0 .. HandleMod - 1
  BY <1>1, <1>2
<1>4. ASSUME n = 0 PROVE (n + 1) % HandleMod = 1
  BY <1>1, <1>4
<1>5. CASE n = 0
  BY <1>1, <1>2, <1>3, <1>4, <1>5 DEF generateHandle, INVALID_HANDLE
<1>6. CASE n # 0
  BY <1>1, <1>2, <1>6 DEF generateHandle, INVALID_HANDLE
<1> QED BY <1>5, <1>6

LEMMA InvEmpty == RegistryInv(EmptyRegistry)
<1> DEFINE r == EmptyRegistry
<1>1. /\ r = [svc |-> r.svc, idx |-> r.idx, next |-> r.next]
      /\ DOMAIN r.svc = {} /\ DOMAIN r.idx = {} /\ r.next = 1
  BY DEF EmptyRegistry, EmptyMap
<1> HIDE DEF r
<1>2. SvcTyped(r.svc) /\ IndexWF(r.idx) /\ HandlesValid(r)
  BY <1>1 DEF SvcTyped, IndexWF, HandlesValid
<1>3. \A fd \in Fds : Listed(r.idx, fd) = {} /\ Controlled(r.svc, fd) = {}
  BY <1>1, EmptySeq, ElemsEmpty DEF Listed, MapGet, Controlled
<1>4. r.next \in 0 .. HandleMod - 1
  BY <1>1, RegistryAssumption
<1> QED BY <1>1, <1>2, <1>3, <1>4 DEF RegistryInv, r

\* addService, in its four cases: refused, refreshed by its owner, taken over
\* by another connection, new.
LEMMA InvAdd ==
  ASSUME NEW r, RegistryInv(r), NEW info \in Infos, NEW fd \in Fds
  PROVE  RegistryInv(addService(r, info, fd).reg)
<1> DEFINE id == <<info.name, info.inst>>
           new == addService(r, info, fd).reg
           g == generateHandle(r.next)
<1>0. /\ SvcTyped(r.svc) /\ IndexWF(r.idx) /\ HandlesValid(r)
      /\ \A f \in Fds : Listed(r.idx, f) = Controlled(r.svc, f)
      /\ r.next \in 0 .. HandleMod - 1
      /\ r = [svc |-> r.svc, idx |-> r.idx, next |-> r.next]
  BY DEF RegistryInv
<1>1. CASE info.name = BadName
  BY <1>1 DEF addService
<1>2. CASE info.name # BadName /\ id \in DOMAIN r.svc
  <2> DEFINE old == r.svc[id]
             e == [ep |-> info.ep, handle |-> old.handle, fd |-> fd]
             svc == [r.svc EXCEPT ![id] = e]
  <2>1. /\ old \in Entry /\ old.handle # INVALID_HANDLE
        /\ e \in Entry /\ e.handle # INVALID_HANDLE /\ e.fd = fd
    BY <1>0, <1>2 DEF SvcTyped, HandlesValid, Entry, Infos
  <2>2. /\ DOMAIN svc = DOMAIN r.svc /\ svc[id] = e
        /\ \A o \in DOMAIN svc : o # id => svc[o] = r.svc[o]
    BY <1>2
  <2> HIDE DEF svc, e
  <2>3. /\ SvcTyped(svc)
        /\ \A o \in DOMAIN svc : svc[o].handle # INVALID_HANDLE
    BY <1>0, <2>1, <2>2 DEF SvcTyped, HandlesValid
  <2>4. \A f : Controlled(svc, f) = IF f = fd THEN Controlled(r.svc, f) \cup {id}
                                    ELSE Controlled(r.svc, f) \ {id}
    BY <1>2, <2>1, <2>2 DEF Controlled
  <2>5. CASE old.fd = fd
    <3>1. new = [r EXCEPT !.svc = svc]
      BY <1>2, <2>5 DEF addService, svc, e
    <3>2. /\ new = [svc |-> svc, idx |-> r.idx, next |-> r.next]
      BY <3>1, <1>0
    <3>3. \A f \in Fds : Controlled(svc, f) = Controlled(r.svc, f)
      BY <1>2, <2>4, <2>5 DEF Controlled
    <3> HIDE DEF new
    <3> QED BY <3>2, <3>3, <2>3, <1>0 DEF RegistryInv, HandlesValid, new
  <2>6. CASE old.fd # fd
    <3> DEFINE mid == removeFromFdIndex(r.idx, old.fd, id)
               idx == pushFdIndex(mid, fd, id)
    <3>1. /\ IndexWF(mid)
          /\ \A f : Listed(mid, f) = IF f = old.fd THEN Listed(r.idx, f) \ {id}
                                      ELSE Listed(r.idx, f)
      <4> HIDE DEF id, old
      <4> QED BY <1>0, RemoveFromIndex
    <3>2. id \in Ids /\ id \notin Listed(mid, fd)
      BY <1>0, <1>2, <2>6, <3>1 DEF SvcTyped, Controlled
    <3> HIDE DEF mid
    <3>3. /\ IndexWF(idx)
          /\ \A f : Listed(idx, f) = IF f = fd THEN Listed(mid, f) \cup {id}
                                      ELSE Listed(mid, f)
      BY <3>1, <3>2, PushToIndex
    <3>4. new = [r EXCEPT !.svc = svc, !.idx = idx]
      BY <1>2, <2>6 DEF addService, svc, e, mid
    <3> HIDE DEF idx
    <3>5. new = [svc |-> svc, idx |-> idx, next |-> r.next]
      BY <3>4, <1>0
    <3>6. ASSUME NEW f \in Fds PROVE Listed(idx, f) = Controlled(svc, f)
      <4>1. f # old.fd => id \notin Controlled(r.svc, f)
        BY DEF Controlled
      <4>2. Listed(r.idx, f) = Controlled(r.svc, f)
        BY <1>0
      <4> HIDE DEF id, old
      <4>3. CASE f = fd
        <5>1. Listed(idx, f) = Controlled(r.svc, f) \cup {id}
          BY <4>2, <4>3, <3>1, <3>3, <2>6
        <5> QED BY <5>1, <4>3, <2>4
      <4>4. CASE f # fd
        <5>1. Listed(idx, f) = Controlled(r.svc, f) \ {id}
          BY <4>1, <4>2, <4>4, <3>1, <3>3
        <5> QED BY <5>1, <4>4, <2>4
      <4> QED BY <4>3, <4>4
    <3> HIDE DEF new
    <3> QED BY <3>3, <3>5, <3>6, <2>3, <1>0 DEF RegistryInv, HandlesValid, new
  <2> QED BY <2>5, <2>6
<1>3. CASE info.name # BadName /\ id \notin DOMAIN r.svc
  <2> DEFINE e == [ep |-> info.ep, handle |-> g.handle, fd |-> fd]
             svc == MapPut(r.svc, id, e)
             idx == pushFdIndex(r.idx, fd, id)
  <2>1. g.handle \in 1 .. HandleMod - 1 /\ g.next \in 0 .. HandleMod - 1
    BY <1>0, HandleFacts
  <2>2. new = [svc |-> svc, idx |-> idx, next |-> g.next]
    BY <1>3 DEF addService
  <2> HIDE DEF g
  <2>3. e \in Entry /\ e.handle # INVALID_HANDLE /\ e.fd = fd /\ id \in Ids
    BY <1>3, <2>1, RegistryAssumption DEF Entry, Infos, Ids, INVALID_HANDLE
  <2>4. /\ DOMAIN svc = DOMAIN r.svc \cup {id} /\ svc[id] = e
        /\ \A o \in DOMAIN r.svc : svc[o] = r.svc[o]
    BY <1>3 DEF MapPut
  <2> HIDE DEF svc, e
  <2>5. SvcTyped(svc) /\ \A o \in DOMAIN svc : svc[o].handle # INVALID_HANDLE
    BY <1>0, <2>3, <2>4 DEF SvcTyped, HandlesValid
  <2>6. id \notin Listed(r.idx, fd)
    BY <1>0, <1>3 DEF Controlled
  <2>7. /\ IndexWF(idx)
        /\ \A f : Listed(idx, f) = IF f = fd THEN Listed(r.idx, f) \cup {id}
                                    ELSE Listed(r.idx, f)
    BY <1>0, <2>3, <2>6, PushToIndex
  <2> HIDE DEF idx
  <2>8. ASSUME NEW f \in Fds PROVE Listed(idx, f) = Controlled(svc, f)
    <3>1. Controlled(svc, f) = IF f = fd THEN Controlled(r.svc, f) \cup {id}
                               ELSE Controlled(r.svc, f)
      BY <1>3, <2>3, <2>4 DEF Controlled
    <3> QED BY <3>1, <2>7, <1>0
  <2> HIDE DEF new
  <2> QED BY <2>1, <2>2, <2>5, <2>7, <2>8 DEF RegistryInv, HandlesValid, new
<1> QED BY <1>1, <1>2, <1>3

\* removeEntryByName takes one entry and its reference.
LEMMA InvRemove ==
  ASSUME NEW r, RegistryInv(r), NEW id
  PROVE  RegistryInv(removeEntryByName(r, id))
<1> DEFINE new == removeEntryByName(r, id)
           svc == MapErase(r.svc, {id})
           idx == removeFromFdIndex(r.idx, r.svc[id].fd, id)
<1>0. /\ SvcTyped(r.svc) /\ IndexWF(r.idx) /\ HandlesValid(r)
      /\ \A f \in Fds : Listed(r.idx, f) = Controlled(r.svc, f)
      /\ r.next \in 0 .. HandleMod - 1
      /\ r = [svc |-> r.svc, idx |-> r.idx, next |-> r.next]
  BY DEF RegistryInv
<1>1. CASE id \notin DOMAIN r.svc
  BY <1>1 DEF removeEntryByName
<1>2. CASE id \in DOMAIN r.svc
  <2>1. new = [r EXCEPT !.svc = svc, !.idx = idx]
    BY <1>2 DEF removeEntryByName
  <2>2. new = [svc |-> svc, idx |-> idx, next |-> r.next]
    BY <2>1, <1>0
  <2>3. DOMAIN svc = DOMAIN r.svc \ {id} /\ \A o \in DOMAIN svc : svc[o] = r.svc[o]
    BY DEF MapErase
  <2>4. /\ IndexWF(idx)
        /\ \A f : Listed(idx, f) = IF f = r.svc[id].fd THEN Listed(r.idx, f) \ {id}
                                    ELSE Listed(r.idx, f)
    BY <1>0, RemoveFromIndex
  <2> HIDE DEF svc, idx, new
  <2>5. \A f \in Fds : Listed(idx, f) = Controlled(svc, f)
    BY <1>0, <2>3, <2>4 DEF Controlled
  <2>6. SvcTyped(svc) /\ \A o \in DOMAIN svc : svc[o].handle # INVALID_HANDLE
    BY <1>0, <2>3 DEF SvcTyped, HandlesValid
  <2> QED BY <2>2, <2>4, <2>5, <2>6, <1>0 DEF RegistryInv, HandlesValid, new
<1> QED BY <1>1, <1>2

\* removeByFd takes the entries the index lists for the fd: those it controls.
LEMMA InvRemoveByFd ==
  ASSUME NEW r, RegistryInv(r), NEW fd \in Fds
  PROVE  RegistryInv(removeByFd(r, fd).reg)
<1> DEFINE new == removeByFd(r, fd).reg
           idx == MapErase(r.idx, {fd})
           svc == MapErase(r.svc, Elems(r.idx[fd]))
<1>0. /\ SvcTyped(r.svc) /\ IndexWF(r.idx) /\ HandlesValid(r)
      /\ \A f \in Fds : Listed(r.idx, f) = Controlled(r.svc, f)
      /\ r.next \in 0 .. HandleMod - 1
      /\ r = [svc |-> r.svc, idx |-> r.idx, next |-> r.next]
  BY DEF RegistryInv
<1>1. CASE fd \notin DOMAIN r.idx
  BY <1>1 DEF removeByFd
<1>2. CASE fd \in DOMAIN r.idx
  <2>1. new = [r EXCEPT !.idx = idx, !.svc = svc]
    BY <1>2 DEF removeByFd
  <2>2. new = [svc |-> svc, idx |-> idx, next |-> r.next]
    BY <2>1, <1>0
  <2>3. Elems(r.idx[fd]) = Controlled(r.svc, fd)
    BY <1>0, <1>2 DEF Listed, MapGet
  <2>4. /\ DOMAIN svc = DOMAIN r.svc \ Controlled(r.svc, fd)
        /\ \A o \in DOMAIN svc : svc[o] = r.svc[o]
    BY <2>3 DEF MapErase
  <2>5. DOMAIN idx = DOMAIN r.idx \ {fd} /\ \A f \in DOMAIN idx : idx[f] = r.idx[f]
    BY DEF MapErase
  <2> HIDE DEF svc, idx, new
  <2>6. IndexWF(idx)
    BY <1>0, <2>5 DEF IndexWF
  <2>7. /\ Listed(idx, fd) = {}
        /\ \A f : f # fd => Listed(idx, f) = Listed(r.idx, f)
    BY <2>5, EmptySeq, ElemsEmpty DEF Listed, MapGet
  <2>8. \A f \in Fds : Listed(idx, f) = Controlled(svc, f)
    BY <1>0, <2>4, <2>7 DEF Controlled
  <2>9. SvcTyped(svc) /\ \A o \in DOMAIN svc : svc[o].handle # INVALID_HANDLE
    BY <1>0, <2>4 DEF SvcTyped, HandlesValid
  <2> QED BY <2>2, <2>6, <2>8, <2>9, <1>0 DEF RegistryInv, HandlesValid, new
<1> QED BY <1>1, <1>2

-------------------------------------------------------------------------------
(* Theorems *)

\* The invariant, looked at as RegistryTyped, IndexExact and HandlesValid.
LEMMA InvImplies ==
  ASSUME NEW r, RegistryInv(r)
  PROVE  RegistryTyped(r) /\ IndexExact(r) /\ HandlesValid(r)
<1>1. RegistryTyped(r)
  BY DEF RegistryInv, RegistryTyped, SvcTyped, IndexWF
<1>2. \A fd \in DOMAIN r.idx : fd \in Fds /\ Elems(r.idx[fd]) = Controlled(r.svc, fd)
  BY DEF RegistryInv, IndexWF, Listed, MapGet
<1>3. ASSUME NEW id \in DOMAIN r.svc
      PROVE  r.svc[id].fd \in DOMAIN r.idx /\ id \in Elems(r.idx[r.svc[id].fd])
  <2>1. r.svc[id].fd \in Fds
    BY <1>3 DEF RegistryInv, SvcTyped, Entry
  <2>2. id \in Listed(r.idx, r.svc[id].fd)
    BY <2>1 DEF RegistryInv, Controlled
  <2>3. r.svc[id].fd \in DOMAIN r.idx
    BY <2>2, EmptySeq, ElemsEmpty DEF Listed, MapGet
  <2> QED BY <2>2, <2>3 DEF Listed, MapGet
<1>4. IndexExact(r)
  BY <1>2, <1>3 DEF IndexExact, RegistryInv, IndexWF, Controlled
<1> QED BY <1>1, <1>4 DEF RegistryInv

\* The registry is well typed, its fd index is the exact inverse of the entries'
\* control fds, and no entry carries the invalid handle, after any sequence of
\* the methods' calls.
THEOREM RegistryCorrect == Spec => [](TypeOK /\ FdIndexExact /\ HandleNeverInvalid)
<1> DEFINE I == RegistryInv(registry)
<1>1. Init => I
  BY InvEmpty DEF Init
<1>2. I /\ [Next]_registry => I'
  <2> SUFFICES ASSUME I, [Next]_registry PROVE I'
    OBVIOUS
  <2>1. ASSUME NEW info \in Infos, NEW fd \in Fds, AddService(info, fd) PROVE I'
    BY <2>1, InvAdd DEF AddService
  <2>2. ASSUME NEW name \in Names, RemoveService(name) PROVE I'
    BY <2>2, InvRemove DEF RemoveService
  <2>3. ASSUME NEW id \in Ids, RemoveServiceByIdentity(id) PROVE I'
    BY <2>3, InvRemove DEF RemoveServiceByIdentity
  <2>4. ASSUME NEW fd \in Fds, RemoveByFd(fd) PROVE I'
    BY <2>4, InvRemoveByFd DEF RemoveByFd
  <2>5. CASE UNCHANGED registry
    BY <2>5
  <2> QED BY <2>1, <2>2, <2>3, <2>4, <2>5 DEF Next
<1>3. I => TypeOK /\ FdIndexExact /\ HandleNeverInvalid
  BY InvImplies DEF TypeOK, FdIndexExact, HandleNeverInvalid
<1> QED BY <1>1, <1>2, <1>3, PTL DEF Spec
===============================================================================
