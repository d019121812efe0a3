------------------------- MODULE ServiceWatchNotifier -------------------------
(***************************************************************************)
(* service_manager/service_watch_notifier.{h,cpp}: the watch groups of the *)
(* clients and the two indices that lead to them, as a record              *)
(*   groups : groups_, a map from a key <<fd, watch id>> to the filters     *)
(*   bySvc  : service_index_, a map from a service name to group keys       *)
(*   byFd   : subscriber_index_, a map from an fd to its watch ids          *)
(* A filter is [name, inst]; inst = AnyInst (the empty instance_id) stands  *)
(* for every instance of the name.  A watch lists its filters as a set:     *)
(* overlapping ones are refused, so there are no duplicates.               *)
(***************************************************************************)
EXTENDS Integers, StdMap

CONSTANT AnyInst

EmptyWatches == [groups |-> EmptyMap, bySvc |-> EmptyMap, byFd |-> EmptyMap]

namesOf(filters) == {f.name : f \in filters}

\* matches: name and, unless the filter leaves it open, instance.
matches(f, id) == f.name = id[1] /\ (f.inst = AnyInst \/ f.inst = id[2])

\* overlaps: some identity could match both.
overlaps(f, g) ==
  f.name = g.name /\ (f.inst = AnyInst \/ g.inst = AnyInst \/ f.inst = g.inst)

\* subscribe: refused for a key in use.
subscribeOk(w, fd, wid) == <<fd, wid>> \notin DOMAIN w.groups

subscribe(w, fd, wid, filters) ==
  [groups |-> MapPut(w.groups, <<fd, wid>>, filters),
   bySvc  |-> [n \in DOMAIN w.bySvc \cup namesOf(filters) |->
                 MapGet(w.bySvc, n, {}) \cup
                   (IF n \in namesOf(filters) THEN {<<fd, wid>>} ELSE {})],
   byFd   |-> MapAdd(w.byFd, fd, wid)]


\* eraseGroup for each key of K: out of both indices, whose empty sets go too.
eraseGroups(w, K) ==
  LET svcLeft == [n \in DOMAIN w.bySvc |->
                    {k \in w.bySvc[n] :
                       ~(k \in K \cap DOMAIN w.groups /\ n \in namesOf(w.groups[k]))}]
      fdLeft  == [fd \in DOMAIN w.byFd |->
                    {i \in w.byFd[fd] : <<fd, i>> \notin K \cap DOMAIN w.groups}]
  IN  [groups |-> MapErase(w.groups, K),
       bySvc  |-> [n \in {m \in DOMAIN w.bySvc : svcLeft[m] # {}} |-> svcLeft[n]],
       byFd   |-> [fd \in {f \in DOMAIN w.byFd : fdLeft[f] # {}} |-> fdLeft[fd]]]

unsubscribe(w, fd, wid) == eraseGroups(w, {<<fd, wid>>})

\* removeSubscriber: the groups the fd's own index names.
removeSubscriber(w, fd) == eraseGroups(w, {<<fd, i>> : i \in MapGet(w.byFd, fd, {})})

\* matching: the groups with a filter that matches, found through the name.
matching(w, id) ==
  {k \in MapGet(w.bySvc, id[1], {}) :
     k \in DOMAIN w.groups /\ \E f \in w.groups[k] : matches(f, id)}
===============================================================================
