----------------------------- MODULE TopicManager -----------------------------
(***************************************************************************)
(* service_manager/topic_manager.{h,cpp}: who publishes and who subscribes *)
(* to which topic, with the reverse indices and quotas kept beside it.     *)
(*                                                                         *)
(* A topic table is a record                                               *)
(*   topics : topics_, a map from an entry key <<service, topic>> to its   *)
(*            publishers (a map from instance key to PublisherSlot) and    *)
(*            subscribers (a map from fd to its set of selectors)          *)
(*   refs   : topic_name_refs_, how many entries carry a topic name        *)
(*   fdSubs, fdPubs : fd_subscriptions_, fd_publications_, entry keys by fd *)
(*   counts, total  : fd_subscription_counts_, total_subscriptions_        *)
(* A slot keeps its fd and endpoint; the IDL hash is payload and left out. *)
(* The entry key of a TOPIC_ONLY subscription has the empty service name.  *)
(***************************************************************************)
EXTENDS Integers, FiniteSets, StdMap
LOCAL INSTANCE FiniteSetsExt

CONSTANTS Names, Insts, Endpoints, Fds,
          Topics,             \* valid topic names
          NoService,          \* the empty publisher_service of a TOPIC_ONLY selector
          TopicSize,          \* the length in bytes of each topic name
          MaxTopics,          \* MAX_TOPICS_GLOBAL
          MaxSubsPerConn,     \* MAX_TOPIC_SUBSCRIPTIONS_PER_CONNECTION
          MaxSubsGlobal,      \* MAX_TOPIC_SUBSCRIPTIONS_GLOBAL
          MaxSubsPerTopic,    \* MAX_SUBSCRIBERS_PER_TOPIC
          MaxPubsPerConn,     \* MAX_TOPIC_PUBLICATIONS_PER_CONNECTION
          MaxPubsPerService,  \* MAX_PUBLISHED_TOPICS
          MaxPubBytes         \* MAX_PUBLISHED_TOPICS_BYTES

ASSUME TopicAssumption ==
  /\ NoService \notin Names
  /\ TopicSize \in [Topics -> Nat]
  /\ {MaxTopics, MaxSubsPerConn, MaxSubsGlobal, MaxSubsPerTopic, MaxPubsPerConn,
      MaxPubsPerService, MaxPubBytes} \subseteq Nat \ {0}

Keys == (Names \cup {NoService}) \X Topics

\* TopicSubscriptionFilter; its key() is injective on these records.
Selectors ==
  [mode : {"TOPIC_ONLY"}, svc : {NoService}]
    \cup [mode : {"SERVICE"}, svc : Names]
    \cup [mode : {"INSTANCE"}, svc : Names, inst : Insts]

Publishers == [name : Names, inst : Insts, ep : Endpoints]

EmptyTopics == [topics |-> EmptyMap, refs |-> EmptyMap, fdSubs |-> EmptyMap,
                fdPubs |-> EmptyMap, counts |-> EmptyMap, total |-> 0]

NewEntry == [pubs |-> EmptyMap, subs |-> EmptyMap]

-------------------------------------------------------------------------------
(* Methods *)

\* TopicSubscriptionFilter::matches
matches(sel, pub) ==
  \/ sel.mode = "TOPIC_ONLY"
  \/ sel.mode = "SERVICE" /\ sel.svc = pub.name
  \/ sel.mode = "INSTANCE" /\ sel.svc = pub.name /\ sel.inst = pub.inst

entryKey(service, topic) == <<service, topic>>

unused(e) == DOMAIN e.pubs = {} /\ DOMAIN e.subs = {}

\* Mutant: a name with no reference left is kept.
releaseTopicNameRefKeeps(refs, gone) ==
  [n \in DOMAIN refs |-> refs[n] - Cardinality({k \in gone : k[2] = n})]

\* releaseTopicNameRef for every entry of gone: each topic name loses as many
\* references as entries, and disappears with the last one.
releaseTopicNameRef(refs, gone) ==
  LET left == [n \in DOMAIN refs |-> refs[n] - Cardinality({k \in gone : k[2] = n})]
  IN  [n \in {m \in DOMAIN refs : left[m] > 0} |-> left[n]]

\* eraseEntryIfUnused for every entry of K.
eraseEntryIfUnused(t, K) ==
  LET gone == {k \in K \cap DOMAIN t.topics : unused(t.topics[k])}
  IN  [t EXCEPT !.topics = MapErase(t.topics, gone),
                !.refs = releaseTopicNameRef(t.refs, gone)]

\* An entry for the key exists; a new one takes a reference on its topic name.
ensureEntry(t, k) ==
  IF k \in DOMAIN t.topics THEN t
  ELSE [t EXCEPT !.topics = MapPut(t.topics, k, NewEntry),
                 !.refs = MapPut(t.refs, k[2], MapGet(t.refs, k[2], 0) + 1)]


\* The topic names are all taken and this one is not among them.
topicTableFull(t, k) ==
  /\ k \notin DOMAIN t.topics
  /\ k[2] \notin DOMAIN t.refs
  /\ Cardinality(DOMAIN t.refs) >= MaxTopics

\* The other entries the service publishes to, for the per-service quota.
otherPublished(t, k) ==
  {o \in DOMAIN t.topics \ {k} : o[1] = k[1] /\ DOMAIN t.topics[o].pubs # {}}

\* registerPublisher: quota checks, then the slot of the instance is written,
\* over an older one if there is one.
registerPublisherOk(t, topic, pub, fd) ==
  LET k == entryKey(pub.name, topic)
      mine == MapGet(t.fdPubs, fd, {})
      others == otherPublished(t, k)
  IN  /\ ~topicTableFull(t, k)
      /\ k \in mine \/ Cardinality(mine) < MaxPubsPerConn
      /\ 1 + Cardinality(others) <= MaxPubsPerService
      /\ TopicSize[topic] + MapThenSumSet(LAMBDA o : TopicSize[o[2]], others) <= MaxPubBytes

registerPublisher(t, topic, pub, fd) ==
  LET k == entryKey(pub.name, topic)
      u == ensureEntry(t, k)
  IN  IF ~registerPublisherOk(t, topic, pub, fd) THEN t
      ELSE [u EXCEPT !.topics[k].pubs = MapPut(@, pub.inst, [fd |-> fd, ep |-> pub.ep]),
                     !.fdPubs = MapAdd(t.fdPubs, fd, k)]

\* The slots of an entry that one of fds holds.
slotsOf(e, fds) == {i \in DOMAIN e.pubs : e.pubs[i].fd \in fds}

\* The entries of K without the slots of fds, the unused ones erased.
eraseSlots(t, K, fds) ==
  eraseEntryIfUnused(
    [t EXCEPT !.topics = [k \in DOMAIN t.topics |->
       IF k \in K
       THEN [t.topics[k] EXCEPT !.pubs = MapErase(@, slotsOf(t.topics[k], fds))]
       ELSE t.topics[k]]], K)

\* Mutant: the keys of every fd go, also of those that still have a slot.
dropSlotsAllKeys(t, K, fds) ==
  LET left == [fd \in DOMAIN t.fdPubs |-> t.fdPubs[fd] \ K]
  IN  [eraseSlots(t, K, fds) EXCEPT
         !.fdPubs = [fd \in {f \in DOMAIN left : left[f] # {}} |-> left[fd]]]

\* Erases the slots of fds in the entries of K, the publication keys of the fds
\* that held one, and the entries left unused.
dropSlots(t, K, fds) ==
  LET left == [fd \in DOMAIN t.fdPubs |->
                 {k \in t.fdPubs[fd] :
                    k \in K \cap DOMAIN t.topics => slotsOf(t.topics[k], fds \cap {fd}) = {}}]
  IN  [eraseSlots(t, K, fds) EXCEPT
         !.fdPubs = [fd \in {f \in DOMAIN left : left[f] # {}} |-> left[fd]]]

keysOfTopic(t, topic) == {k \in DOMAIN t.topics : k[2] = topic}
keysOfService(t, name) == {k \in DOMAIN t.topics : k[1] = name}

\* removePublisher(topic), removePublisher(topic, fd): removePublisherSlots
\* without and with the fd filter, over every service's entry of the topic.
removeAllPublishers(t, topic) == dropSlots(t, keysOfTopic(t, topic), Fds)
removePublisher(t, topic, fd) == dropSlots(t, keysOfTopic(t, topic), {fd})

\* removePublishersByService: the fd's slots in every topic of the service.
removePublishersByService(t, name, fd) ==
  dropSlots(t, keysOfService(t, name), {fd})

\* addSubscriber: quotas, then the entry is created -- before the checks for a
\* duplicate and for a full entry, which can only fail on an existing entry.
addSubscriber(t, topic, sel, fd) ==
  LET k == entryKey(sel.svc, topic)
      n == MapGet(t.counts, fd, 0)
      u == ensureEntry(t, k)
      subs == u.topics[k].subs
      dup  == sel \in MapGet(subs, fd, {})
      full == fd \notin DOMAIN subs /\ Cardinality(DOMAIN subs) >= MaxSubsPerTopic
  IN  IF n >= MaxSubsPerConn \/ t.total >= MaxSubsGlobal \/ topicTableFull(t, k) THEN t
      ELSE IF dup \/ full THEN u
      ELSE [u EXCEPT !.topics[k].subs = MapAdd(@, fd, sel),
                     !.fdSubs = MapAdd(t.fdSubs, fd, k),
                     !.counts = MapPut(t.counts, fd, n + 1),
                     !.total  = @ + 1]

\* The bookkeeping of n subscriptions of fd leaving: counts only shrinks, and
\* the key goes with the last one.
dropCount(counts, fd, n) ==
  IF fd \notin DOMAIN counts THEN counts
  ELSE IF counts[fd] > n THEN [counts EXCEPT ![fd] = @ - n] ELSE MapErase(counts, {fd})

\* removeSubscriber(topic, selector, fd): exactly one selector goes.
removeSubscriber(t, topic, sel, fd) ==
  LET k == entryKey(sel.svc, topic)
  IN  IF \/ k \notin DOMAIN t.topics
         \/ sel \notin MapGet(t.topics[k].subs, fd, {})
      THEN t
      ELSE LET subs == MapDrop(t.topics[k].subs, fd, sel)
               u == [t EXCEPT
                       !.topics[k].subs = subs,
                       !.total = @ - 1,
                       !.counts = dropCount(t.counts, fd, 1),
                       !.fdSubs = IF fd \in DOMAIN subs THEN @ ELSE MapDrop(@, fd, k)]
           IN  eraseEntryIfUnused(u, {k})

\* removeSubscriber(topic, fd): every selector of the fd on every entry of the
\* topic.
removeSubscriberAll(t, topic, fd) ==
  LET ks == {k \in keysOfTopic(t, topic) : fd \in DOMAIN t.topics[k].subs}
      n  == MapThenSumSet(LAMBDA k : Cardinality(t.topics[k].subs[fd]), ks)
      left == MapGet(t.fdSubs, fd, {}) \ ks
      u  == [t EXCEPT
               !.topics = [k \in DOMAIN t.topics |->
                             IF k \in ks THEN [t.topics[k] EXCEPT !.subs = MapErase(@, {fd})]
                             ELSE t.topics[k]],
               !.total  = @ - n,
               !.counts = dropCount(t.counts, fd, n),
               !.fdSubs = IF left = {} THEN MapErase(@, {fd}) ELSE [@ EXCEPT ![fd] = left]]
  IN  IF ks = {} THEN t ELSE eraseEntryIfUnused(u, ks)

\* Mutants: the whole entry's publishers go; the total is not reduced.
removePubsOfEntry(t, fd) ==
  LET keys == MapGet(t.fdPubs, fd, {})
  IN  eraseEntryIfUnused([t EXCEPT !.fdPubs = MapErase(@, {fd}),
        !.topics = [k \in DOMAIN @ |-> IF k \in keys THEN [@[k] EXCEPT !.pubs = EmptyMap]
                                       ELSE @[k]]], keys)
removeSubsKeepTotal(t, fd) ==
  LET keys == MapGet(t.fdSubs, fd, {}) \cap DOMAIN t.topics
  IN  eraseEntryIfUnused([t EXCEPT !.fdSubs = MapErase(@, {fd}), !.counts = MapErase(@, {fd}),
        !.topics = [k \in DOMAIN @ |-> [@[k] EXCEPT !.subs = MapErase(@, {fd})]]], keys)

\* removeByFd: the fd's own keys, taken from the reverse indices, lead to its
\* publisher slots and then to its subscriptions.
removePubsByFd(t, fd) ==
  [eraseSlots(t, MapGet(t.fdPubs, fd, {}), {fd}) EXCEPT !.fdPubs = MapErase(@, {fd})]

removeSubsByFd(t, fd) ==
  LET keys == MapGet(t.fdSubs, fd, {}) \cap DOMAIN t.topics
      held == {k \in keys : fd \in DOMAIN t.topics[k].subs}
      u == [t EXCEPT
              !.fdSubs = MapErase(@, {fd}),
              !.counts = MapErase(@, {fd}),
              !.total  = @ - MapThenSumSet(
                               LAMBDA k : Cardinality(t.topics[k].subs[fd]), held),
              !.topics = [k \in DOMAIN t.topics |->
                 IF k \in held THEN [t.topics[k] EXCEPT !.subs = MapErase(@, {fd})]
                 ELSE t.topics[k]]]
  IN  eraseEntryIfUnused(u, keys)

\* Mutant: publications survive.
removeTopicsSubsOnly(t, fd) == removeSubsByFd(t, fd)

removeTopicsByFd(t, fd) == removeSubsByFd(removePubsByFd(t, fd), fd)

\* Mutant: only the service's own entry is looked at, not the topic-only one.
getServiceSubscribers(t, topic, pub) ==
  {fd \in DOMAIN MapGet(t.topics, entryKey(pub.name, topic), NewEntry).subs :
     \E s \in t.topics[entryKey(pub.name, topic)].subs[fd] : matches(s, pub)}

\* getMatchingSubscribers: the fds told of a publisher that has just arrived.
getMatchingSubscribers(t, topic, pub) ==
  UNION {{fd \in DOMAIN t.topics[k].subs : \E s \in t.topics[k].subs[fd] : matches(s, pub)}
           : k \in keysOfTopic(t, topic)}

\* getMatchingPublishers: the publishers a new subscriber is told of.
getMatchingPublishers(t, topic, sel) ==
  UNION {{p \in {[name |-> k[1], inst |-> i, ep |-> t.topics[k].pubs[i].ep]
                   : i \in DOMAIN t.topics[k].pubs} :
             sel.mode = "INSTANCE" => matches(sel, p)}
           : k \in {o \in keysOfTopic(t, topic) :
                      sel.mode # "TOPIC_ONLY" => o[1] = sel.svc}}

\* getPublishedTopics, hasPublisher, getPublisher, listTopics: reads of the table.
getPublishedTopics(t, name) ==
  {k[2] : k \in {o \in keysOfService(t, name) : DOMAIN t.topics[o].pubs # {}}}
listTopics(t) == DOMAIN t.refs

-------------------------------------------------------------------------------
(* The topic table on its own *)

VARIABLE table

Init == table = EmptyTopics

RegisterPublisher(topic, pub, fd) == table' = registerPublisher(table, topic, pub, fd)
RemoveAllPublishers(topic) == table' = removeAllPublishers(table, topic)
RemovePublisher(topic, fd) == table' = removePublisher(table, topic, fd)
RemovePublishersByService(name, fd) == table' = removePublishersByService(table, name, fd)
AddSubscriber(topic, sel, fd) == table' = addSubscriber(table, topic, sel, fd)
RemoveSubscriber(topic, sel, fd) == table' = removeSubscriber(table, topic, sel, fd)
RemoveSubscriberAll(topic, fd) == table' = removeSubscriberAll(table, topic, fd)
RemoveByFd(fd) == table' = removeTopicsByFd(table, fd)

Next ==
  \/ \E topic \in Topics, pub \in Publishers, fd \in Fds : RegisterPublisher(topic, pub, fd)
  \/ \E topic \in Topics : RemoveAllPublishers(topic)
  \/ \E topic \in Topics, fd \in Fds : RemovePublisher(topic, fd)
  \/ \E name \in Names, fd \in Fds : RemovePublishersByService(name, fd)
  \/ \E topic \in Topics, sel \in Selectors, fd \in Fds : AddSubscriber(topic, sel, fd)
  \/ \E topic \in Topics, sel \in Selectors, fd \in Fds : RemoveSubscriber(topic, sel, fd)
  \/ \E topic \in Topics, fd \in Fds : RemoveSubscriberAll(topic, fd)
  \/ \E fd \in Fds : RemoveByFd(fd)

Spec == Init /\ [][Next]_table

-------------------------------------------------------------------------------
(* Properties *)

TopicsTyped(t) ==
  /\ DOMAIN t.topics \subseteq Keys
  /\ \A k \in DOMAIN t.topics :
       /\ DOMAIN t.topics[k].pubs \subseteq Insts
       /\ \A i \in DOMAIN t.topics[k].pubs : t.topics[k].pubs[i] \in [fd : Fds, ep : Endpoints]
       /\ DOMAIN t.topics[k].subs \subseteq Fds
       /\ \A fd \in DOMAIN t.topics[k].subs : t.topics[k].subs[fd] \in SUBSET Selectors
  /\ DOMAIN t.refs \subseteq Topics /\ \A n \in DOMAIN t.refs : t.refs[n] \in Nat \ {0}
  /\ \A ix \in {t.fdSubs, t.fdPubs} :
       DOMAIN ix \subseteq Fds /\ \A fd \in DOMAIN ix : ix[fd] \in SUBSET Keys \ {{}}
  /\ DOMAIN t.counts \subseteq Fds /\ \A fd \in DOMAIN t.counts : t.counts[fd] \in Nat \ {0}
  /\ t.total \in Nat

TypeOK == TopicsTyped(table)

\* The subscription index is exact and no entry outlives its last publisher and
\* subscriber: after any calls, a key is listed for a connection iff the entry
\* holds a selector of it.
SubscriptionIndexExact(t) ==
  /\ \A k \in DOMAIN t.topics : ~unused(t.topics[k])
  /\ \A k \in DOMAIN t.topics : \A fd \in DOMAIN t.topics[k].subs :
       t.topics[k].subs[fd] # {} /\ k \in MapGet(t.fdSubs, fd, {})
  /\ \A fd \in DOMAIN t.fdSubs : \A k \in t.fdSubs[fd] :
       k \in DOMAIN t.topics /\ fd \in DOMAIN t.topics[k].subs

\* Every publisher slot can be found from its connection, so that removeByFd,
\* which starts from the index, leaves no publisher of a closed connection.
PublicationIndexCovers(t) ==
  \A k \in DOMAIN t.topics : \A i \in DOMAIN t.topics[k].pubs :
    k \in MapGet(t.fdPubs, t.topics[k].pubs[i].fd, {})

\* The counters the quotas are checked against are the sizes of the tables:
\* subscriptions per connection and in all, and entries per topic name.
CountsExact(t) ==
  LET held(fd) == {<<k, s>> \in (DOMAIN t.topics) \X Selectors :
                     s \in MapGet(t.topics[k].subs, fd, {})}
  IN  /\ \A fd \in Fds : MapGet(t.counts, fd, 0) = Cardinality(held(fd))
      /\ t.total = MapThenSumSet(LAMBDA fd : Cardinality(held(fd)), Fds)
      /\ \A n \in Topics : MapGet(t.refs, n, 0) = Cardinality(keysOfTopic(t, n))

\* No sequence of calls passes a quota.
QuotasHold(t) ==
  /\ t.total <= MaxSubsGlobal
  /\ \A fd \in DOMAIN t.counts : t.counts[fd] <= MaxSubsPerConn
  /\ \A k \in DOMAIN t.topics : Cardinality(DOMAIN t.topics[k].subs) <= MaxSubsPerTopic
  /\ Cardinality({k[2] : k \in DOMAIN t.topics}) <= MaxTopics
  /\ \A fd \in DOMAIN t.fdPubs : Cardinality(t.fdPubs[fd]) <= MaxPubsPerConn
  /\ \A n \in Names : Cardinality(getPublishedTopics(t, n)) <= MaxPubsPerService

\* Both fd indices of the topic manager lead to everything a connection holds.
IndicesComplete == SubscriptionIndexExact(table) /\ PublicationIndexCovers(table)
\* fd_subscription_counts_, the total and topic_name_refs_ never drift from the tables.
Counters == CountsExact(table)

\* A connection that closes takes all of its own state with it and nothing of
\* anyone else's: after removeByFd no table mentions the fd, and every other
\* connection's slots and selectors are as before.
CloseTakesOnlyItsOwn ==
  \A fd \in Fds :
    LET t == removeTopicsByFd(table, fd)
        Pubs(u) == {<<k, i>> \in (DOMAIN u.topics) \X Insts : i \in DOMAIN u.topics[k].pubs}
        Subs(u) == {<<k, f>> \in (DOMAIN u.topics) \X Fds : f \in DOMAIN u.topics[k].subs}
    IN  /\ fd \notin DOMAIN t.fdSubs \cup DOMAIN t.fdPubs \cup DOMAIN t.counts
        /\ Pubs(t) = {p \in Pubs(table) : table.topics[p[1]].pubs[p[2]].fd # fd}
        /\ Subs(t) = {p \in Subs(table) : p[2] # fd}
===============================================================================
