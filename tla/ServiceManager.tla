---------------------------- MODULE ServiceManager ----------------------------
(***************************************************************************)
(* service_manager/service_manager_app.{h,cpp}, sm_registry.cpp,           *)
(* sm_topic.cpp and sm_diag.cpp: the service manager process.              *)
(*                                                                         *)
(* One thread runs the event loop and every handler to its end.  A handler *)
(* is nevertheless not atomic towards its own tables: any send to a client *)
(* may fail, a failed send calls closeClient on the spot, and closeClient   *)
(* sends notifications itself.  The handler then continues with whatever   *)
(* the nested calls left.  The model keeps the call stack: a handler runs   *)
(* up to its first send and pushes the rest of itself as frames; the top    *)
(* frame is always the next thing executed, and a new event is taken only   *)
(* when the stack is empty.                                                *)
(*                                                                         *)
(* Messages carry no bytes.  What a watcher or a subscriber has been sent   *)
(* is kept in the history variables told and heard; a send that enters the  *)
(* connection's backlog counts as sent.  The backlog itself is left out: a  *)
(* full one is one of the ways a send fails.                                *)
(***************************************************************************)
EXTENDS Integers, Sequences, FiniteSets, StdMap

CONSTANTS Names, BadName, Insts, Endpoints, Fds, HandleMod, AnyInst, Topics,
          NoService, TopicSize, MaxTopics, MaxSubsPerConn, MaxSubsGlobal,
          MaxSubsPerTopic, MaxPubsPerConn, MaxPubsPerService, MaxPubBytes,
          WatchIds,   \* watch ids clients choose; integers
          Workloads   \* what the clients of a behaviour ask for

ASSUME ManagerAssumption ==
  /\ WatchIds \subseteq Nat \ {0}
  /\ \A l \in Workloads :
       /\ l.fds \subseteq Fds          \* connections at a time
       /\ l.names \subseteq Names      \* services they register
       /\ l.insts \subseteq Insts
       /\ l.topics \subseteq Topics
       /\ l.hellos \subseteq [key : Nat \ {0}, inc : Nat \ {0}, pid : Nat \ {0}]
       /\ \A ws \in l.watchSets :     \* sets of filters
            ws # {} /\ ws \subseteq [name : Names, inst : Insts \cup {AnyInst}]
       /\ l.diagPids \subseteq Nat     \* pids diagnostic requests name
       /\ l.steady \in BOOLEAN        \* a connection keeps the identity of its hello

VARIABLES load,         \* the workload of this behaviour; it never changes
          clients,      \* clients_: fd -> [hello, key, inc, pid]
          sessions,     \* runtime_sessions_: session key -> fd
          timer,        \* the deadline armed for each fd: "hello" or "session"
          registry,     \* registry_
          watches,      \* watch_notifier_
          table,        \* topic_manager_
          pidFds,       \* pid_to_fds_: pid -> vector of fds
          pidWatchers,  \* pid_watchers_: pid -> vector of watcher fds
          watcherPids,  \* watcher_to_pids_: fd -> set of pids
          stack,        \* what the running handler still has to do
          told,         \* history: group -> identities last notified online
          heard,        \* history: fd -> publishers it was notified of
          silent,       \* history: identities dropped without a notification
          lost,         \* history: identities removed while the handler of their
                        \* own registration was still to announce them
          dangling      \* history: places that used a deleted connection

Reg == INSTANCE ServiceRegistry
Top == INSTANCE TopicManager
Wat == INSTANCE ServiceWatchNotifier

tables == <<registry, watches, table, pidFds, pidWatchers, watcherPids>>
history == <<told, heard, silent, lost, dangling>>
session == <<clients, sessions, timer>>
vars == <<load, clients, sessions, timer, registry, watches, table, pidFds,
          pidWatchers, watcherPids, stack, told, heard, silent, lost, dangling>>

NewConn == [hello |-> FALSE, key |-> 0, inc |-> 0, pid |-> 0]
Live(fd) == fd \in DOMAIN clients
Idle == stack = <<>>

\* Wildcard-free choice of the least element in the order of a std::map key.
Least(S) == CHOOSE x \in S : \A y \in S : x <= y
LeastGroup(S) ==
  CHOOSE x \in S : \A y \in S : x[1] < y[1] \/ (x[1] = y[1] /\ x[2] <= y[2])
LeastInst(S) == CHOOSE x \in S : \A y \in S : x[2] <= y[2]

Init ==
  /\ load \in Workloads
  /\ clients = EmptyMap /\ sessions = EmptyMap /\ timer = EmptyMap
  /\ registry = Reg!EmptyRegistry
  /\ watches = Wat!EmptyWatches
  /\ table = Top!EmptyTopics
  /\ pidFds = EmptyMap /\ pidWatchers = EmptyMap /\ watcherPids = EmptyMap
  /\ stack = <<>>
  /\ told = EmptyMap /\ heard = EmptyMap
  /\ silent = {} /\ lost = {} /\ dangling = {}

-------------------------------------------------------------------------------
(* Frames: the places a handler can be suspended at *)

closeF(fd, notify) == [op |-> "close", fd |-> fd, notify |-> notify]
closeRestF(fd, pid) == [op |-> "closeRest", fd |-> fd, pid |-> pid]
notifyF(id, online) == [op |-> "notify", id |-> id, online |-> online]
notifyToF(id, online, todo) ==
  [op |-> "notifyTo", id |-> id, online |-> online, todo |-> todo]
stopF(pid, watcher) == [op |-> "stop", pid |-> pid, watcher |-> watcher]
stopAllF(pids, watcher) == [op |-> "stopAll", pids |-> pids, watcher |-> watcher]
toPidF(kind, fd, pid, todo, sent) ==
  [op |-> "toPid", kind |-> kind, fd |-> fd, pid |-> pid, todo |-> todo, sent |-> sent]
replyF(fd) == [op |-> "reply", fd |-> fd]
replyIfLiveF(fd) == [op |-> "replyIfLive", fd |-> fd]
reclaimF(name, fd) == [op |-> "reclaim", name |-> name, fd |-> fd]
unpublishF(name, fd) == [op |-> "unpublish", name |-> name, fd |-> fd]
helloF(fd, h) == [op |-> "hello", fd |-> fd, h |-> h]
helloLogF(fd) == [op |-> "helloLog", fd |-> fd]
initialF(fd, wid, todo) == [op |-> "initial", fd |-> fd, wid |-> wid, todo |-> todo]
initialOneF(fd, wid, todo) == [op |-> "initialOne", fd |-> fd, wid |-> wid, todo |-> todo]
initialOffF(fd) == [op |-> "initialOff", fd |-> fd]
publishedF(topic, pub) == [op |-> "published", topic |-> topic, pub |-> pub]
publishedToF(topic, pub, todo) ==
  [op |-> "publishedTo", topic |-> topic, pub |-> pub, todo |-> todo]
subscribedF(fd, topic, sel) == [op |-> "subscribed", fd |-> fd, topic |-> topic, sel |-> sel]
tellF(fd, topic, todo) == [op |-> "tell", fd |-> fd, topic |-> topic, todo |-> todo]

\* The frame on top of the stack, and the stack below it.
At(op) == stack # <<>> /\ Head(stack).op = op
Frame == Head(stack)
Below == Tail(stack)

\* sendMessage fails (or overflows the backlog): closeClient runs at once,
\* before the sender continues.
sendFails(fd, rest) == stack' = <<closeF(fd, TRUE)>> \o rest

\* The identities whose online notification the stack has still to finish.
announcing ==
  {stack[i].id : i \in {j \in DOMAIN stack : /\ stack[j].op \in {"notify", "notifyTo"}
                                             /\ stack[j].online}}

\* Mutant: the last of the removed services is not announced.
NotifyAllButLast(ids, online) == [i \in 1 .. Len(ids) - 1 |-> notifyF(ids[i], online)]
NotifyAll(ids, online) == [i \in 1 .. Len(ids) |-> notifyF(ids[i], online)]

-------------------------------------------------------------------------------
(* closeClient and what it calls *)

\* closeClient, up to the notifications: the client leaves clients_ first, so
\* that a nested closeClient of the same fd returns at once.
CloseClient ==
  /\ At("close")
  /\ LET fd == Frame.fd
         r  == Reg!removeByFd(registry, fd)
     IN  IF ~Live(fd)
         THEN stack' = Below /\ UNCHANGED <<session, tables, history>>
         ELSE /\ clients' = MapErase(clients, {fd})
              /\ timer' = MapErase(timer, {fd})
              /\ sessions' = IF MapGet(sessions, clients[fd].key, 0) = fd
                             THEN MapErase(sessions, {clients[fd].key}) ELSE sessions
              /\ registry' = r.reg
              /\ lost' = lost \cup (Elems(r.removed) \cap announcing)
              /\ silent' = IF Frame.notify THEN silent ELSE silent \cup Elems(r.removed)
              /\ stack' = (IF Frame.notify THEN NotifyAll(r.removed, FALSE) ELSE <<>>)
                            \o <<closeRestF(fd, clients[fd].pid)>> \o Below
              /\ UNCHANGED <<watches, table, pidFds, pidWatchers, watcherPids,
                             told, heard, dangling>>

\* Mutants: an emptied vector stays; the fd stays.
removePidFdKeepsEmpty(m, pid, fd) ==
  IF pid \notin DOMAIN m THEN m ELSE [m EXCEPT ![pid] = SelectSeq(@, LAMBDA f : f # fd)]
\* removePidFd
removePidFd(m, pid, fd) ==
  IF pid \notin DOMAIN m THEN m
  ELSE LET fds == SelectSeq(m[pid], LAMBDA f : f # fd)
       IN  IF fds = <<>> THEN MapErase(m, {pid}) ELSE [m EXCEPT ![pid] = fds]

\* Mutant: the reverse index is not touched.
removeTargetWatchersOneSided(wp, pws, pid) == wp

\* removeTargetWatchers: the pid leaves the sets of all who watched it.
removeTargetWatchers(wp, pws, pid) ==
  LET ws == Elems(MapGet(pws, pid, <<>>))
      left == [f \in DOMAIN wp |-> IF f \in ws THEN wp[f] \ {pid} ELSE wp[f]]
  IN  [f \in {g \in DOMAIN wp : left[g] # {}} |-> left[f]]


\* closeClient, after the notifications: watch groups, topics, diagnostics.
\* pid = 0 is a connection that never said hello (runtime_registered false).
CloseRest ==
  /\ At("closeRest")
  /\ LET fd  == Frame.fd
         pid == Frame.pid
         pf  == IF pid = 0 THEN pidFds ELSE removePidFd(pidFds, pid, fd)
         gone == pid # 0 /\ pid \notin DOMAIN pf
         wp  == IF gone THEN removeTargetWatchers(watcherPids, pidWatchers, pid)
                ELSE watcherPids
     IN  /\ watches' = Wat!removeSubscriber(watches, fd)
         /\ table' = Top!removeTopicsByFd(table, fd)
         /\ pidFds' = pf
         /\ pidWatchers' = IF gone THEN MapErase(pidWatchers, {pid}) ELSE pidWatchers
         /\ watcherPids' = MapErase(wp, {fd})
         /\ stack' = <<stopAllF(MapGet(wp, fd, {}), fd)>> \o Below
         /\ told' = MapErase(told, {g \in DOMAIN told : g[1] = fd})
         /\ heard' = MapErase(heard, {fd})
         /\ UNCHANGED <<session, registry, silent, lost, dangling>>

\* removeWatcherAndMaybeStopTargets: the watcher's pids, copied, in order.
StopTargets ==
  /\ At("stopAll")
  /\ LET pid == Least(Frame.pids)
     IN  stack' = IF Frame.pids = {} THEN Below
                  ELSE <<stopF(pid, Frame.watcher),
                         stopAllF(Frame.pids \ {pid}, Frame.watcher)>> \o Below
  /\ UNCHANGED <<session, tables, history>>

\* stopTargetIfUnwatched
StopTargetIfUnwatched ==
  /\ At("stop")
  /\ LET pid == Frame.pid
         left == SelectSeq(MapGet(pidWatchers, pid, <<>>), LAMBDA f : f # Frame.watcher)
     IN  IF left # <<>>
         THEN /\ pidWatchers' = [pidWatchers EXCEPT ![pid] = left]
              /\ stack' = Below
         ELSE /\ pidWatchers' = MapErase(pidWatchers, {pid})
              /\ stack' = <<toPidF("stop", Frame.watcher, pid, MapGet(pidFds, pid, <<>>), FALSE)>>
                            \o Below
  /\ UNCHANGED <<session, registry, watches, table, pidFds, watcherPids, history>>

\* forEachPidConn over a copy of the pid's fds: each one still connected, and
\* not the requester itself, is sent the control message.
ForEachPidConn ==
  /\ At("toPid") /\ Frame.todo # <<>>
  /\ LET fd == Head(Frame.todo)
         next(sent) == <<toPidF(Frame.kind, Frame.fd, Frame.pid, Tail(Frame.todo), sent)>> \o Below
     IN  IF ~Live(fd) \/ fd = Frame.fd
         THEN stack' = next(Frame.sent)
         ELSE \/ stack' = next(TRUE)
              \/ sendFails(fd, next(Frame.sent))
  /\ UNCHANGED <<session, tables, history>>

\* After the loop: a WATCH_START is recorded if a target took it and the
\* requester is still connected; a log level request is answered; a WATCH_STOP
\* was sent by a cleanup and returns.
PidConnsDone ==
  /\ At("toPid") /\ Frame.todo = <<>>
  /\ LET fd == Frame.fd
         pid == Frame.pid
         known == MapGet(pidWatchers, pid, <<>>)
     IN  \/ /\ Frame.kind = "start" /\ Frame.sent /\ Live(fd)
            /\ watcherPids' = MapAdd(watcherPids, fd, pid)
            /\ pidWatchers' = MapPut(pidWatchers, pid,
                                IF fd \in Elems(known) THEN known ELSE Append(known, fd))
         \/ /\ ~(Frame.kind = "start" /\ Frame.sent /\ Live(fd))
            /\ UNCHANGED <<watcherPids, pidWatchers>>
  /\ stack' = (IF Frame.kind = "stop" THEN <<>> ELSE <<replyIfLiveF(Frame.fd)>>) \o Below
  /\ UNCHANGED <<session, registry, watches, table, pidFds, history>>

-------------------------------------------------------------------------------
(* Replies and notifications *)

\* Mutant: a reply that could not be sent is sent again.
ReplyRetried ==
  /\ At("reply")
  /\ stack' = Below \/ sendFails(Frame.fd, stack)
  /\ UNCHANGED <<session, tables, history>>

\* sendMessage on the handler's own connection.
Reply ==
  /\ At("reply")
  /\ stack' = Below \/ sendFails(Frame.fd, Below)
  /\ UNCHANGED <<session, tables, history>>

\* The same, after a check that the connection is still there.
ReplyIfLive ==
  /\ At("replyIfLive")
  /\ stack' = (IF Live(Frame.fd) THEN <<replyF(Frame.fd)>> ELSE <<>>) \o Below
  /\ UNCHANGED <<session, tables, history>>

\* notifyServiceWatch: the matching groups are copied, then sent to one by one;
\* a group whose connection is gone by then is skipped.
NotifyServiceWatch ==
  /\ At("notify")
  /\ stack' = <<notifyToF(Frame.id, Frame.online, Wat!matching(watches, Frame.id))>> \o Below
  /\ UNCHANGED <<session, tables, history>>

\* Mutant: a failed send ends the loop.
NotifyGroupStops ==
  /\ At("notifyTo")
  /\ IF Frame.todo = {} THEN stack' = Below /\ UNCHANGED told
     ELSE LET g == LeastGroup(Frame.todo)
          IN  \/ /\ Live(g[1])
                 /\ told' = [told EXCEPT ![g] = IF Frame.online THEN @ \cup {Frame.id}
                                                ELSE @ \ {Frame.id}]
                 /\ stack' = <<notifyToF(Frame.id, Frame.online, Frame.todo \ {g})>> \o Below
              \/ sendFails(g[1], Below) /\ UNCHANGED told
  /\ UNCHANGED <<session, tables, heard, silent, lost, dangling>>

NotifyGroup ==
  /\ At("notifyTo")
  /\ IF Frame.todo = {} THEN stack' = Below /\ UNCHANGED told
     ELSE LET g == LeastGroup(Frame.todo)
              rest == <<notifyToF(Frame.id, Frame.online, Frame.todo \ {g})>> \o Below
          IN  IF ~Live(g[1]) THEN stack' = rest /\ UNCHANGED told
              ELSE \/ /\ told' = [told EXCEPT ![g] = IF Frame.online THEN @ \cup {Frame.id}
                                                     ELSE @ \ {Frame.id}]
                      /\ stack' = rest
                   \/ sendFails(g[1], rest) /\ UNCHANGED told
  /\ UNCHANGED <<session, tables, heard, silent, lost, dangling>>

\* sendInitialServiceWatch: the identities of one filter that are registered,
\* or, when there are none, a single offline notification.  Both loops test
\* clients_.find(conn->fd) before each send; when an earlier send has failed,
\* conn is already deleted and the test itself reads freed memory.
InitialWatch ==
  /\ At("initial")
  /\ IF Frame.todo = {} THEN stack' = Below /\ UNCHANGED dangling
     ELSE IF ~Live(Frame.fd)
     THEN stack' = Below /\ dangling' = dangling \cup {"handleSubscribeServiceWatch"}
     ELSE \E f \in Frame.todo :
          LET ids == {id \in DOMAIN registry.svc : Wat!matches(f, id)}
              rest == <<initialF(Frame.fd, Frame.wid, Frame.todo \ {f})>> \o Below
          IN  /\ stack' = <<IF ids = {} THEN initialOffF(Frame.fd)
                            ELSE initialOneF(Frame.fd, Frame.wid, ids)>> \o rest
              /\ UNCHANGED dangling
  /\ UNCHANGED <<session, tables, told, heard, silent, lost>>

InitialInstance ==
  /\ At("initialOne")
  /\ IF Frame.todo = {} THEN stack' = Below /\ UNCHANGED <<told, dangling>>
     ELSE LET id == LeastInst(Frame.todo)
              rest == <<initialOneF(Frame.fd, Frame.wid, Frame.todo \ {id})>> \o Below
          IN  \/ /\ ~Live(Frame.fd)
                 /\ dangling' = dangling \cup {"sendInitialServiceWatch"}
                 /\ stack' = Below
                 /\ UNCHANGED told
              \/ /\ Live(Frame.fd)
                 /\ told' = [told EXCEPT ![<<Frame.fd, Frame.wid>>] = @ \cup {id}]
                 /\ stack' = rest
                 /\ UNCHANGED dangling
              \/ Live(Frame.fd) /\ sendFails(Frame.fd, rest) /\ UNCHANGED <<told, dangling>>
  /\ UNCHANGED <<session, tables, heard, silent, lost>>

InitialOffline ==
  /\ At("initialOff")
  /\ stack' = Below \/ sendFails(Frame.fd, Below)
  /\ UNCHANGED <<session, tables, history>>

\* handlePublishTopic after its reply: the subscribers whose selector matches.
PublisherRegistered ==
  /\ At("published")
  /\ stack' = <<publishedToF(Frame.topic, Frame.pub,
                  Top!getMatchingSubscribers(table, Frame.topic, Frame.pub))>> \o Below
  /\ UNCHANGED <<session, tables, history>>

\* handleSubscribeTopic after its reply: the publishers the selector matches.
SubscriberAdded ==
  /\ At("subscribed")
  /\ stack' = <<tellF(Frame.fd, Frame.topic,
                  Top!getMatchingPublishers(table, Frame.topic, Frame.sel))>> \o Below
  /\ UNCHANGED <<session, tables, history>>

\* sendTopicPublisherNotify, which looks the subscriber up by fd.
NotifyPublisher(fd, topic, pub, rest) ==
  \/ ~Live(fd) /\ stack' = rest /\ UNCHANGED heard
  \/ /\ Live(fd)
     /\ heard' = MapAdd(heard, fd, <<topic, pub>>)
     /\ stack' = rest
  \/ Live(fd) /\ sendFails(fd, rest) /\ UNCHANGED heard

NotifySubscribers ==
  /\ At("publishedTo")
  /\ IF Frame.todo = {} THEN stack' = Below /\ UNCHANGED heard
     ELSE LET fd == Least(Frame.todo)
          IN  NotifyPublisher(fd, Frame.topic, Frame.pub,
                <<publishedToF(Frame.topic, Frame.pub, Frame.todo \ {fd})>> \o Below)
  /\ UNCHANGED <<session, tables, told, silent, lost, dangling>>

TellPublishers ==
  /\ At("tell")
  /\ IF Frame.todo = {} THEN stack' = Below /\ UNCHANGED heard
     ELSE LET pub == CHOOSE p \in Frame.todo : TRUE
          IN  NotifyPublisher(Frame.fd, Frame.topic, pub,
                <<tellF(Frame.fd, Frame.topic, Frame.todo \ {pub})>> \o Below)
  /\ UNCHANGED <<session, tables, told, silent, lost, dangling>>

-------------------------------------------------------------------------------
(* Events: connections and deadlines *)

\* onClientAccepted: the kernel may hand out any fd that is not in use.
OnClientAccepted(fd) ==
  /\ Idle /\ ~Live(fd)
  /\ clients' = MapPut(clients, fd, NewConn)
  /\ timer' = MapPut(timer, fd, "hello")
  /\ UNCHANGED <<sessions, tables, stack, history>>

\* onClientDisconnected, a read error, or a failed flush of the backlog.
OnClientDisconnected(fd) ==
  /\ Idle /\ Live(fd)
  /\ stack' = <<closeF(fd, TRUE)>>
  /\ UNCHANGED <<session, tables, history>>

\* The armed deadline fires: the hello timer acts only while no hello has been
\* received, the session timer always.
OnSessionDeadline(fd) ==
  /\ Idle /\ fd \in DOMAIN timer
  /\ Live(fd) /\ (timer[fd] = "hello" => ~clients[fd].hello)
  /\ stack' = <<closeF(fd, TRUE)>>
  /\ timer' = MapErase(timer, {fd})
  /\ UNCHANGED <<clients, sessions, tables, history>>

-------------------------------------------------------------------------------
(* Events: requests *)

\* handleLookup, handleListInstances, handleListServices, handleQueryInterfaces,
\* handleQueryPublishedTopics, handleRuntimeList and every malformed request
\* that is answered: nothing changes but for the send.
HandleQuery(fd) ==
  /\ Idle /\ Live(fd)
  /\ stack' = <<replyF(fd)>>
  /\ UNCHANGED <<session, tables, history>>

\* Mutant: the older session is not closed.
HandleRuntimeHelloKeepsOld(fd, h) ==
  /\ Idle /\ Live(fd)
  /\ stack' = <<helloF(fd, h)>>
  /\ UNCHANGED <<session, tables, history>>

\* handleRuntimeHello: an older session of the same key is closed first, and
\* its services' removal is announced only if the process is another one.
HandleRuntimeHello(fd, h) ==
  /\ Idle /\ Live(fd)
  /\ LET old == MapGet(sessions, h.key, fd)
         same == Live(old) /\ clients[old].inc = h.inc
     IN  stack' = (IF old # fd THEN <<closeF(old, ~same)>> ELSE <<>>) \o <<helloF(fd, h)>>
  /\ UNCHANGED <<session, tables, history>>

\* handleRuntimeHello: a hello with another pid moves the fd between the lists.
\* Mutant first: it stays in the old one.
staysInOldPid(fd, h) == pidFds
leaveOldPid(fd, h) ==
  IF clients[fd].pid \in {0, h.pid} THEN pidFds ELSE removePidFd(pidFds, clients[fd].pid, fd)

\* handleRuntimeHello, after the older session: the check that the connection
\* survived reads conn->fd, of a deleted connection if it did not.
AcceptHello ==
  /\ At("hello")
  /\ LET fd == Frame.fd
         h == Frame.h
         pf == leaveOldPid(fd, h)
         fds == MapGet(pf, h.pid, <<>>)
     IN  \/ /\ ~Live(fd)
            /\ dangling' = dangling \cup {"handleRuntimeHello"}
            /\ stack' = Below
            /\ UNCHANGED <<session, pidFds>>
         \/ /\ Live(fd)
            /\ sessions' = MapPut(sessions, h.key, fd)
            /\ clients' = [clients EXCEPT ![fd] =
                 [hello |-> TRUE, key |-> h.key, inc |-> h.inc, pid |-> h.pid]]
            /\ timer' = MapPut(timer, fd, "session")
            /\ pidFds' = MapPut(pf, h.pid, IF fd \in Elems(fds) THEN fds ELSE Append(fds, fd))
            /\ stack' = <<replyF(fd), helloLogF(fd)>> \o Below
            /\ UNCHANGED dangling
  /\ UNCHANGED <<registry, watches, table, pidWatchers, watcherPids, told, heard, silent, lost>>

\* The closing log line reads conn->fd after the reply was sent.
LogHello ==
  /\ At("helloLog")
  /\ dangling' = IF Live(Frame.fd) THEN dangling
                 ELSE dangling \cup {"handleRuntimeHello log"}
  /\ stack' = Below
  /\ UNCHANGED <<session, tables, told, heard, silent, lost>>

\* Mutants: the old deadline is cancelled and none armed; a heartbeat before
\* the hello counts.
HeartbeatNoRearm(fd, inc) ==
  /\ Idle /\ Live(fd)
  /\ stack' = <<replyF(fd)>> /\ timer' = MapErase(timer, {fd})
  /\ UNCHANGED <<clients, sessions, tables, history>>
HeartbeatBeforeHello(fd, inc) ==
  /\ Idle /\ Live(fd)
  /\ stack' = <<replyF(fd)>> /\ timer' = MapPut(timer, fd, "session")
  /\ UNCHANGED <<clients, sessions, tables, history>>

\* handleControlHeartbeat: before hello, or from another incarnation, the
\* connection is closed; otherwise the deadline is armed anew and acknowledged.
HandleControlHeartbeat(fd, inc) ==
  /\ Idle /\ Live(fd)
  /\ IF ~clients[fd].hello \/ inc # clients[fd].inc
     THEN stack' = <<closeF(fd, TRUE)>> /\ UNCHANGED timer
     ELSE stack' = <<replyF(fd)>> /\ timer' = MapPut(timer, fd, "session")
  /\ UNCHANGED <<clients, sessions, tables, history>>

\* handleRegister: the reply goes out first, then the watchers are notified,
\* then a displaced connection is reclaimed.
HandleRegister(fd, info) ==
  /\ Idle /\ Live(fd)
  /\ LET id == <<info.name, info.inst>>
         add == Reg!addService(registry, info, fd)
         existed == id \in DOMAIN registry.svc
         old == registry.svc[id]
         changes == IF ~existed THEN <<notifyF(id, TRUE)>>
                    ELSE IF old.fd # fd \/ old.ep # info.ep
                    THEN <<notifyF(id, FALSE), notifyF(id, TRUE)>> ELSE <<>>
     IN  IF ~clients[fd].hello \/ add.handle = Reg!INVALID_HANDLE
         THEN stack' = <<replyF(fd)>> /\ UNCHANGED <<registry, silent, lost>>
         ELSE /\ registry' = add.reg
              /\ stack' = <<replyF(fd)>> \o changes
                            \o <<reclaimF(info.name, add.displaced)>>
              /\ silent' = silent \ {id} /\ lost' = lost \ {id}
  /\ UNCHANGED <<session, watches, table, pidFds, pidWatchers, watcherPids,
                 told, heard, dangling>>

\* handleRegister, the end: the displaced connection's publications of the name
\* are dropped, and the connection itself if it owns nothing any more.
ReclaimDisplaced ==
  /\ At("reclaim")
  /\ LET fd == Frame.fd
     IN  IF Live(fd)
         THEN /\ table' = Top!removePublishersByService(table, Frame.name, fd)
              /\ stack' = (IF Reg!listServiceNamesByFd(registry, fd) = {}
                           THEN <<closeF(fd, TRUE)>> ELSE <<>>) \o Below
         ELSE stack' = Below /\ UNCHANGED table
  /\ UNCHANGED <<session, registry, watches, pidFds, pidWatchers, watcherPids, history>>

\* handleUnregister with removeServiceAndNotify: registry, watchers, topics,
\* then the reply if the connection survived the notifications.
HandleUnregister(fd, name) ==
  /\ Idle /\ Live(fd)
  /\ LET id == Reg!findServiceByFdAndName(registry, fd, name)
     IN  IF id = <<>> THEN stack' = <<replyF(fd)>> /\ UNCHANGED registry
         ELSE /\ registry' = Reg!removeEntryByName(registry, id)
              /\ stack' = <<notifyF(id, FALSE), unpublishF(name, fd), replyIfLiveF(fd)>>
  /\ UNCHANGED <<session, watches, table, pidFds, pidWatchers, watcherPids, history>>

UnpublishService ==
  /\ At("unpublish")
  /\ table' = Top!removePublishersByService(table, Frame.name, Frame.fd)
  /\ stack' = Below
  /\ UNCHANGED <<session, registry, watches, pidFds, pidWatchers, watcherPids, history>>

\* handleSubscribeServiceWatch: overlapping filters and a watch id in use are
\* refused; an accepted group is answered and sent the current state.
HandleSubscribeServiceWatch(fd, wid, filters) ==
  /\ Idle /\ Live(fd)
  /\ IF \/ \E f, g \in filters : f # g /\ Wat!overlaps(f, g)
        \/ ~Wat!subscribeOk(watches, fd, wid)
     THEN stack' = <<replyF(fd)>> /\ UNCHANGED <<watches, told>>
     ELSE /\ watches' = Wat!subscribe(watches, fd, wid, filters)
          /\ told' = MapPut(told, <<fd, wid>>, {})
          /\ stack' = <<replyF(fd), initialF(fd, wid, filters)>>
  /\ UNCHANGED <<session, registry, table, pidFds, pidWatchers, watcherPids,
                 heard, silent, lost, dangling>>

\* handleUnsubscribeServiceWatch: no reply.
HandleUnsubscribeServiceWatch(fd, wid) ==
  /\ Idle /\ Live(fd)
  /\ watches' = Wat!unsubscribe(watches, fd, wid)
  /\ told' = MapErase(told, {<<fd, wid>>})
  /\ UNCHANGED <<session, registry, table, pidFds, pidWatchers, watcherPids, stack,
                 heard, silent, lost, dangling>>

\* handlePublishTopic: instance and endpoint are those of the registration the
\* connection owns under the name, not those of the request.
HandlePublishTopic(fd, topic, name) ==
  /\ Idle /\ Live(fd)
  /\ LET id == Reg!findServiceByFdAndName(registry, fd, name)
         pub == [name |-> name, inst |-> id[2], ep |-> registry.svc[id].ep]
     IN  IF id = <<>> \/ ~Top!registerPublisherOk(table, topic, pub, fd)
         THEN stack' = <<replyF(fd)>> /\ UNCHANGED table
         ELSE /\ table' = Top!registerPublisher(table, topic, pub, fd)
              /\ stack' = <<replyF(fd), publishedF(topic, pub)>>
  /\ UNCHANGED <<session, registry, watches, pidFds, pidWatchers, watcherPids, history>>

\* handleUnpublishTopic: no reply.
HandleUnpublishTopic(fd, topic) ==
  /\ Idle /\ Live(fd)
  /\ table' = Top!removePublisher(table, topic, fd)
  /\ UNCHANGED <<session, registry, watches, pidFds, pidWatchers, watcherPids, stack, history>>

\* handleSubscribeTopic: the publishers are sent even if the subscription was
\* refused.
HandleSubscribeTopic(fd, topic, sel) ==
  /\ Idle /\ Live(fd)
  /\ table' = Top!addSubscriber(table, topic, sel, fd)
  /\ stack' = <<replyF(fd), subscribedF(fd, topic, sel)>>
  /\ UNCHANGED <<session, registry, watches, pidFds, pidWatchers, watcherPids, history>>

\* handleUnsubscribeTopic: no reply.
HandleUnsubscribeTopic(fd, topic, sel) ==
  /\ Idle /\ Live(fd)
  /\ table' = Top!removeSubscriber(table, topic, sel, fd)
  /\ UNCHANGED <<session, registry, watches, pidFds, pidWatchers, watcherPids, stack, history>>

\* handleDiagWatchStart and handleDiagSetLogLevel: forward to the pid's
\* connections, then record or answer (PidConnsDone).
HandleDiagRequest(fd, pid, kind) ==
  /\ Idle /\ Live(fd)
  /\ stack' = <<toPidF(kind, fd, pid, MapGet(pidFds, pid, <<>>), FALSE)>>
  /\ UNCHANGED <<session, tables, history>>

\* handleDiagWatchStop with removeWatcherPair.
HandleDiagWatchStop(fd, pid) ==
  /\ Idle /\ Live(fd)
  /\ IF pid \in MapGet(watcherPids, fd, {})
     THEN /\ watcherPids' = MapDrop(watcherPids, fd, pid)
          /\ stack' = <<stopF(pid, fd), replyIfLiveF(fd)>>
     ELSE stack' = <<replyIfLiveF(fd)>> /\ UNCHANGED watcherPids
  /\ UNCHANGED <<session, registry, watches, table, pidFds, pidWatchers, history>>

-------------------------------------------------------------------------------
(* The specification *)

\* OmniRuntime sends the hello once per connection; nothing in the manager
\* requires it.
mayHello(fd, h) ==
  load.steady /\ clients[fd].hello =>
    h = [key |-> clients[fd].key, inc |-> clients[fd].inc, pid |-> clients[fd].pid]

\* What the clients of this workload register and subscribe to.
registrations ==
  {info \in Reg!Infos : info.name \in load.names \cup {BadName} /\ info.inst \in load.insts}
selectors ==
  {sel \in Top!Selectors : /\ sel.svc \in load.names \cup {NoService}
                           /\ (sel.mode = "INSTANCE" => sel.inst \in load.insts)}

Event ==
  /\ UNCHANGED load
  /\ \E fd \in load.fds :
    \/ OnClientAccepted(fd)
    \/ /\ Idle /\ Live(fd)
       /\ \/ OnClientDisconnected(fd)
          \/ OnSessionDeadline(fd)
          \/ HandleQuery(fd)
          \/ \E h \in load.hellos : mayHello(fd, h) /\ HandleRuntimeHello(fd, h)
          \/ \E h \in load.hellos : HandleControlHeartbeat(fd, h.inc)
          \/ \E info \in registrations : HandleRegister(fd, info)
          \/ \E name \in load.names : HandleUnregister(fd, name)
          \/ \E wid \in WatchIds, ws \in load.watchSets : HandleSubscribeServiceWatch(fd, wid, ws)
          \/ \E wid \in WatchIds : HandleUnsubscribeServiceWatch(fd, wid)
          \/ \E topic \in load.topics, name \in load.names : HandlePublishTopic(fd, topic, name)
          \/ \E topic \in load.topics : HandleUnpublishTopic(fd, topic)
          \/ \E topic \in load.topics, sel \in selectors : HandleSubscribeTopic(fd, topic, sel)
          \/ \E topic \in load.topics, sel \in selectors : HandleUnsubscribeTopic(fd, topic, sel)
          \/ \E pid \in load.diagPids, kind \in {"start", "level"} : HandleDiagRequest(fd, pid, kind)
          \/ \E pid \in load.diagPids : HandleDiagWatchStop(fd, pid)

Step ==
  UNCHANGED load /\
  \/ CloseClient \/ CloseRest \/ StopTargets \/ StopTargetIfUnwatched
  \/ ForEachPidConn \/ PidConnsDone \/ Reply \/ ReplyIfLive
  \/ NotifyServiceWatch \/ NotifyGroup
  \/ InitialWatch \/ InitialInstance \/ InitialOffline
  \/ PublisherRegistered \/ SubscriberAdded \/ NotifySubscribers \/ TellPublishers
  \/ AcceptHello \/ LogHello \/ ReclaimDisplaced \/ UnpublishService

Next == Event \/ Step

Spec == Init /\ [][Next]_vars

\* A handler always takes its next step, and the loop serves the hello
\* deadline of a connection however many other events it has: nothing arms
\* that timer again.
Fairness ==
  /\ WF_vars(Step)
  /\ \A fd \in Fds : SF_vars(fd \in DOMAIN timer /\ timer[fd] = "hello" /\ OnSessionDeadline(fd) /\ UNCHANGED load)

FairSpec == Spec /\ Fairness

-------------------------------------------------------------------------------
(* Properties *)

\* The types of the manager's own maps; the components' types hold all along.
TypeOK ==
  /\ DOMAIN clients \subseteq Fds
  /\ \A fd \in DOMAIN clients : clients[fd] \in [hello : BOOLEAN, key : Nat, inc : Nat, pid : Nat]
  /\ DOMAIN timer \subseteq Fds /\ \A fd \in DOMAIN timer : timer[fd] \in {"hello", "session"}
  /\ \A k \in DOMAIN sessions : sessions[k] \in Fds
  /\ Reg!RegistryTyped(registry)
  /\ \A p \in DOMAIN pidFds : pidFds[p] # <<>> /\ Elems(pidFds[p]) \subseteq Fds
  /\ \A p \in DOMAIN pidWatchers : pidWatchers[p] # <<>> /\ Elems(pidWatchers[p]) \subseteq Fds
  /\ \A fd \in DOMAIN watcherPids : watcherPids[fd] \in SUBSET load.diagPids \ {{}}

\* Between two events no table of the manager mentions a connection that is
\* gone: whatever sends failed on the way, every closeClient of the cascade
\* cleaned up after its own fd, which the kernel may hand out again at once.
NoGhosts ==
  Idle =>
    /\ DOMAIN registry.idx \cup {registry.svc[id].fd : id \in DOMAIN registry.svc}
         \subseteq DOMAIN clients
    /\ {g[1] : g \in DOMAIN watches.groups} \cup DOMAIN watches.byFd \subseteq DOMAIN clients
    /\ DOMAIN table.fdSubs \cup DOMAIN table.fdPubs \cup DOMAIN table.counts
         \subseteq DOMAIN clients
    /\ \A k \in DOMAIN table.topics :
         DOMAIN table.topics[k].subs
           \cup {table.topics[k].pubs[p].fd : p \in DOMAIN table.topics[k].pubs}
         \subseteq DOMAIN clients
    /\ UNION {Elems(pidFds[p]) : p \in DOMAIN pidFds} \subseteq DOMAIN clients
    /\ UNION {Elems(pidWatchers[p]) : p \in DOMAIN pidWatchers} \cup DOMAIN watcherPids
         \subseteq DOMAIN clients

\* At most one connection holds the session of a runtime, runtime_sessions_
\* names exactly those connections, and a superseded one is really gone, if no
\* connection changes its identity with a second hello.
SessionsExact ==
  Idle /\ load.steady =>
    /\ \A k \in DOMAIN sessions : Live(sessions[k]) /\ clients[sessions[k]].key = k
    /\ \A fd \in DOMAIN clients : clients[fd].hello => MapGet(sessions, clients[fd].key, 0) = fd

\* pid_to_fds_ lists exactly the connections that said hello with the pid.
PidIndexExact ==
  Idle => \A pid \in {h.pid : h \in load.hellos} :
            /\ Elems(MapGet(pidFds, pid, <<>>))
                 = {fd \in DOMAIN clients : clients[fd].hello /\ clients[fd].pid = pid}
            /\ Distinct(MapGet(pidFds, pid, <<>>))

\* Every connection has exactly one deadline running, of the kind its state
\* calls for, except one whose deadline has just fired and is closing it.
DeadlineArmed ==
  /\ DOMAIN timer \subseteq DOMAIN clients
  /\ \A fd \in DOMAIN clients :
       \/ fd \in DOMAIN timer /\ timer[fd] = (IF clients[fd].hello THEN "session" ELSE "hello")
       \/ stack = <<closeF(fd, TRUE)>>

\* What a watch group matches and is registered, the group was told of as its
\* last news of that instance: no online event is missed, be it by the initial
\* notifications or in the shadow of a failed send to another group.
WatchersKnowOnline ==
  Idle => \A g \in DOMAIN watches.groups, id \in DOMAIN registry.svc :
            (\E f \in watches.groups[g] : Wat!matches(f, id)) => id \in told[g]

\* What a watch group was last told is online is registered, unless a runtime
\* reconnected with the same incarnation (the documented silent removal) or
\* the connection fell to the announcements of its own registration.
WatchersKnowOffline ==
  Idle => \A g \in DOMAIN watches.groups :
            told[g] \subseteq DOMAIN registry.svc \cup silent \cup lost

\* The protocol's promise as it is written: every removal that is not a
\* same-process reconnect reaches the watchers.  handleRegister answers and
\* announces on top of what its own failed sends removed.
RemovalsAnnounced ==
  Idle => \A g \in DOMAIN watches.groups : told[g] \subseteq DOMAIN registry.svc \cup silent


\* A publisher slot belongs to a connection that owns the very instance it
\* advertises: unregistering, take-over and close all retract the topics.
PublishersOwnInstance ==
  Idle => \A k \in DOMAIN table.topics : \A p \in DOMAIN table.topics[k].pubs :
            /\ <<k[1], p>> \in DOMAIN registry.svc
            /\ registry.svc[<<k[1], p>>].fd = table.topics[k].pubs[p].fd

\* Whichever of publisher and subscriber came first, a connected subscriber
\* has been sent every publisher its selectors match.
SubscribersHeard ==
  Idle => \A k, o \in DOMAIN table.topics :
    k[2] = o[2] => \A p \in DOMAIN table.topics[k].pubs, fd \in DOMAIN table.topics[o].subs :
      LET pub == [name |-> k[1], inst |-> p, ep |-> table.topics[k].pubs[p].ep]
      IN  (\E sel \in table.topics[o].subs[fd] : Top!matches(sel, pub))
            => <<k[2], pub>> \in MapGet(heard, fd, {})

\* pid_watchers_ and watcher_to_pids_ are inverse relations.
DiagInverse ==
  Idle => \A fd \in Fds, pid \in load.diagPids :
            fd \in Elems(MapGet(pidWatchers, pid, <<>>)) <=> pid \in MapGet(watcherPids, fd, {})

\* Only a process that still has a control connection is recorded as watched.
DiagTargetsLive == Idle => DOMAIN pidWatchers \subseteq DOMAIN pidFds

\* No handler reads a connection after closeClient has deleted it.
NoUseAfterDelete == dangling = {}

\* However sends fail, the cascade of closes comes to an end and the loop
\* takes the next event.
HandlersReturn == []<>Idle

\* A connection that never says hello is closed, whatever else it asks for.
HelloOrClosed ==
  \A fd \in Fds : (Live(fd) /\ ~clients[fd].hello) ~> (~Live(fd) \/ clients[fd].hello)
===============================================================================
