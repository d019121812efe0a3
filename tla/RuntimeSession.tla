--------------------------- MODULE RuntimeSession ---------------------------
(***************************************************************************)
(* The owner thread of one runtime: its synchronous waits                  *)
(* (RpcRuntime::waitForReply), the two tables of reply slots they use      *)
(* (PendingReplyTable, one for the control plane and one for the data      *)
(* plane), and the control session with the ServiceManager that is lost,   *)
(* reconnected and restored WHILE those waits are running.                 *)
(*                                                                         *)
(* A wait polls the event loop, and what the poll runs (replies, lost      *)
(* connections, the heartbeat timer, user callbacks) may start another     *)
(* wait, so the waits form a stack, the innermost first.  Whatever happens *)
(* to the runtime happens either in the idle event loop (empty stack) or   *)
(* inside the poll of the innermost wait.                                  *)
(*                                                                         *)
(* Times are kept relative to now: `left' is wait_deadline_ms_ - now, and  *)
(* a tick of the clock lowers it together with every saved deadline.       *)
(*                                                                         *)
(* The runtime watches no diagnostics: restoreDiagWatchers has nothing to  *)
(* replay.                                                                 *)
(*                                                                         *)
(* The ServiceManager, the peers and the network are the environment.      *)
(* Each time they misbehave (refuse or drop a connection, fail a send,     *)
(* reject a request, lose or delay a reply) they use up one of MaxFaults.  *)
(***************************************************************************)
EXTENDS Integers, Sequences, TLC, FiniteSetsExt, SequencesExt

CONSTANTS
    Services,       \* connection keys of the data plane
    MaxCalls,       \* bound: number of synchronous API calls
    MaxDepth,       \* bound: calls are started above fewer waits than this
    Timeouts,       \* reply timeouts of calls, in ticks
    RestoreTimeout, \* reply timeout of the requests of a restore
    RestoreSteps,   \* requests of restoreControlPlaneState, the hello first
    Refusable,      \* how many of them, the hello and the registrations, are
                    \* failed by a refusal; a refusal of the others is ignored
    MaxFaults       \* bound: faults of the environment

ASSUME SessionAssumption ==
    /\ MaxCalls \in Nat /\ MaxDepth \in Nat /\ MaxFaults \in Nat
    /\ Timeouts \subseteq Nat \ {0}
    /\ RestoreTimeout \in Nat \ {0} /\ RestoreSteps \in Nat \ {0}
    /\ Refusable \in 1..RestoreSteps

VARIABLES
    stack,      \* activities of the owner thread, innermost first
    ret,        \* what the activity that ended last returned
    left,       \* wait_deadline_ms_, relative to now
    control,    \* SmControlChannel::pending_replies_
    data,       \* RpcRuntime::data_replies_
    smUp,       \* sm_channel_.isConnected()
    needed,     \* sm_reconnect_needed_
    restoring,  \* restoring_
    ready,      \* ready_
    ack,        \* control_ack_pending_, with its timer running
    hbDue,      \* the repeating heartbeat timer has expired
    conns,      \* keys with a connection in ConnectionManager
    smWire,     \* requests the current control connection may still answer
    wire,       \* <<key, request>> the current data connections may answer
    hbWire,     \* a heartbeat the current control connection may answer
    result,     \* what each call returned, by sequence number
    cut,        \* calls whose connection the peer has closed
    faults      \* faults left to the environment

owner == <<stack, ret, left>>
tables == <<control, data>>
session == <<smUp, needed, restoring, ready>>
heartbeat == <<ack, hbDue>>
peers == <<conns, smWire, wire, hbWire>>
history == <<result, cut>>
vars == <<owner, tables, session, heartbeat, peers, history, faults>>

-----------------------------------------------------------------------------
(* PendingReplyTable: slots by sequence number.  The requests of a restore  *)
(* use number 0, which nextSequence never allocates: there is at most one   *)
(* of them at a time, and its connection is closed before the next restore. *)

RestoreSeq == 0

clear(t) == [i \in {j \in DOMAIN t : t[j] # "ready"} |-> "failed"]

pendingReply(t, i) == i \in DOMAIN t /\ t[i] = "ready"
isWaiting(t, i) == i \in DOMAIN t /\ t[i] = "waiting"
isFailed(t, i) == i \in DOMAIN t /\ t[i] = "failed"

beginWait(t, i) == IF pendingReply(t, i) THEN t ELSE (i :> "waiting") @@ t
(* Mutant: the slot of a wait that ended is left behind.                   *)
eraseWaitNot(t, i) == t

eraseWait(t, i) == [j \in DOMAIN t \ {i} |-> t[j]]

consumeReplyIfWaiting(t, i) ==
    IF isWaiting(t, i) THEN [t EXCEPT ![i] = "ready"] ELSE t

-----------------------------------------------------------------------------
(* The activities of the owner thread.  "wait" is one waitForReply;         *)
(* "request" a sendSMRequestAndWaitReply that has not sent yet, "restore" a *)
(* restoreControlPlaneState, "heartbeat" a sendHeartbeat.  A request and a  *)
(* heartbeat are at "start" before reconnectServiceManagerIfNeeded and at   *)
(* "send" after it, with its result in `ret'.                               *)

Activity(kind, id, pc) == [kind |-> kind, id |-> id, pc |-> pc]
Wait(plane, id, key, t) ==
    [kind |-> "wait", plane |-> plane, id |-> id, key |-> key,
     due |-> t, saved |-> left]

Top == Head(stack)
Is(kind, pc) == stack # <<>> /\ Top.kind = kind /\ Top.pc = pc
inWait == stack # <<>> /\ Top.kind = "wait"
waits == {i \in DOMAIN stack : stack[i].kind = "wait"}

(* Where the event loop runs callbacks: idle, or in the poll of a wait.     *)
polling == stack # <<>> => Top.kind = "wait"

tableOf(w) == IF w.plane = "control" THEN control ELSE data

(* The environment misbehaves.                                              *)
Fault == faults > 0 /\ faults' = faults - 1

-----------------------------------------------------------------------------
(* waitForReply                                                             *)

(* isTimedOut                                                               *)
isTimedOut == left <= 0


(* Mutant: the wait has no deadline.                                       *)
waitOutcomeForever(w) ==
    IF pendingReply(tableOf(w), w.id) THEN "ok"
    ELSE IF w.plane = "data" /\ w.key \notin conns THEN "lost"
    ELSE IF isFailed(tableOf(w), w.id) THEN "failed"
    ELSE "none"

(* What the loop of waitForReply does when the poll returns: "none" keeps   *)
(* polling.  Only data waits pass an is_alive.                              *)
waitOutcome(w) ==
    IF pendingReply(tableOf(w), w.id) THEN "ok"
    ELSE IF w.plane = "data" /\ w.key \notin conns THEN "lost"
    ELSE IF isTimedOut THEN "timeout"
    ELSE IF isFailed(tableOf(w), w.id) THEN "failed"
    ELSE "none"

(* Mutant: the deadline of the outer wait is not restored.                 *)
prevDeadlineLost(w) == left

(* The destructor of the WaitStateGuard.                                    *)
prevDeadline(w) == w.saved

WaitEnd ==
    /\ inWait
    /\ waitOutcome(Top) # "none"
    /\ stack' = Tail(stack)
    /\ ret' = waitOutcome(Top)
    /\ left' = prevDeadline(Top)
    /\ IF Top.plane = "control"
          THEN control' = eraseWait(control, Top.id) /\ UNCHANGED data
          ELSE data' = eraseWait(data, Top.id) /\ UNCHANGED control
    /\ result' = IF Top.id = RestoreSeq THEN result
                 ELSE [result EXCEPT ![Top.id] = waitOutcome(Top)]
    /\ UNCHANGED <<session, heartbeat, peers, cut, faults>>

(* A call may start in the idle loop (posted by the application) or in a   *)
(* callback that runs inside the poll of a wait.                           *)
mayCall == /\ polling
           /\ Cardinality(waits) < MaxDepth
           /\ Len(result) < MaxCalls

(* Mutant: the counter is read before it is incremented.                   *)
nextSequencePost == Len(result)

(* allocSequence: every call takes the next number.                        *)
nextSequence == Len(result) + 1

(* invokeInternal: no connection, a send that fails, or the wait.          *)
Invoke(k, t) ==
    /\ mayCall
    /\ \/ /\ k \in conns
          /\ stack' = <<Wait("data", nextSequence, k, t)>> \o stack
          /\ left' = t
          /\ data' = beginWait(data, nextSequence)
          /\ wire' = wire \cup {<<k, nextSequence>>}
          /\ result' = Append(result, "none")
          /\ UNCHANGED <<ret, faults>>
       \/ /\ k \in conns => Fault
          /\ k \notin conns => UNCHANGED faults
          /\ result' = Append(result, "sendfail")
          /\ ret' = "sendfail"
          /\ UNCHANGED <<stack, left, data, wire>>
    /\ UNCHANGED <<control, session, heartbeat, conns, smWire, hbWire, cut>>

(* A synchronous request to the ServiceManager (sendSMRequestAndWaitReply, *)
(* sendRegisterToManager): it starts by looking after the session.         *)
Request(t) ==
    /\ mayCall
    /\ stack' = <<[kind |-> "request", id |-> nextSequence, pc |-> "start",
                   tmo |-> t]>> \o stack
    /\ result' = Append(result, "none")
    /\ UNCHANGED <<ret, left, tables, session, heartbeat, peers, cut, faults>>

-----------------------------------------------------------------------------
(* reconnectServiceManagerIfNeeded, called by the activity at the top.     *)

atStart == stack # <<>> /\ Top.kind \in {"request", "heartbeat"}
                       /\ Top.pc = "start"
sending == [stack EXCEPT ![1].pc = "send"]

(* Nothing to do: a restore is running, or the session is up.              *)
SessionKept ==
    /\ atStart
    /\ restoring \/ (~needed /\ smUp)
    /\ stack' = sending
    /\ ret' = IF smUp THEN "ok" ELSE "unreachable"
    /\ UNCHANGED <<left, tables, session, heartbeat, peers, history, faults>>

(* The connection to the ServiceManager goes: nothing more arrives on it.  *)
closeTransport == smWire' = {} /\ hbWire' = FALSE

(* reconnectServiceManager: the control plane's slots are cleared, the old *)
(* transport is closed and, when the new one is connected, every data      *)
(* connection is closed too.                                               *)
Reconnect ==
    /\ atStart
    /\ ~restoring /\ (needed \/ ~smUp)
    /\ ready' = FALSE
    /\ closeTransport
    /\ control' = clear(control)
    /\ \/ /\ Fault
          /\ smUp' = FALSE
          /\ stack' = sending
          /\ ret' = "unreachable"
          /\ UNCHANGED <<needed, restoring, conns, wire>>
       \/ /\ smUp' = TRUE
          /\ needed' = FALSE
          /\ restoring' = TRUE
          /\ conns' = {} /\ wire' = {}
          /\ stack' = <<Activity("restore", 0, "go")>> \o sending
          /\ ret' = "ok"
          /\ UNCHANGED faults
    /\ UNCHANGED <<left, data, heartbeat, history>>

(* restoreControlPlaneState: the requests, one after the other (`id' counts *)
(* them).  A successful hello forgets the heartbeat of the old connection.  *)
ackAfterRequest == IF Top.id = 1 THEN FALSE ELSE ack

RestoreNext ==
    /\ Is("restore", "go") /\ ret = "ok" /\ Top.id < RestoreSteps
    /\ stack' = <<[kind |-> "request", id |-> RestoreSeq, pc |-> "start",
                   tmo |-> RestoreTimeout]>>
                \o [stack EXCEPT ![1].id = @ + 1]
    /\ ack' = ackAfterRequest
    /\ UNCHANGED <<ret, left, tables, session, hbDue, peers, history, faults>>

(* Mutant: an early return leaves restoring_ set.                          *)
RestoreFailedStuck ==
    /\ Is("restore", "go")
    /\ \/ ret # "ok" /\ ret' = ret /\ UNCHANGED faults
       \/ ret = "ok" /\ Top.id \in 1..Refusable /\ ret' = "refused" /\ Fault
    /\ stack' = Tail(stack)
    /\ needed' = TRUE
    /\ UNCHANGED <<left, tables, smUp, restoring, ready, heartbeat, peers,
                   history>>


(* A request of the restore failed, or the hello or a registration was      *)
(* refused.                                                                 *)
RestoreFailed ==
    /\ Is("restore", "go")
    /\ \/ ret # "ok" /\ ret' = ret /\ UNCHANGED faults
       \/ ret = "ok" /\ Top.id \in 1..Refusable /\ ret' = "refused" /\ Fault
    /\ stack' = Tail(stack)
    /\ needed' = TRUE
    /\ restoring' = FALSE
    /\ UNCHANGED <<left, tables, smUp, ready, heartbeat, peers, history>>

(* All of it is restored.  Connecting the declared proxies and, once the    *)
(* runtime is ready, the connections with automatic reconnection takes      *)
(* lookups at the ServiceManager, if there are any; their failure counts    *)
(* for nothing.                                                             *)
lookupThen(pc) ==
    LET after == [stack EXCEPT ![1].pc = pc]
    IN  stack' \in {after, <<[kind |-> "request", id |-> RestoreSeq, pc |-> "start",
                              tmo |-> RestoreTimeout]>> \o after}
connected == \E up \in SUBSET Services : conns' = conns \cup up

RestoreProxies ==
    /\ Is("restore", "go") /\ ret = "ok" /\ Top.id = RestoreSteps
    /\ ack' = ackAfterRequest
    /\ lookupThen("proxies")
    /\ UNCHANGED <<ret, left, tables, session, hbDue, peers, history, faults>>

RestoreReady ==
    /\ Is("restore", "proxies")
    /\ connected
    /\ ready' = TRUE
    /\ lookupThen("ready")
    /\ UNCHANGED <<ret, left, tables, smUp, needed, restoring, heartbeat, smWire,
                   wire, hbWire, history, faults>>

RestoreDone ==
    /\ Is("restore", "ready")
    /\ connected
    /\ restoring' = FALSE
    /\ stack' = Tail(stack)
    /\ ret' = "ok"
    /\ UNCHANGED <<left, tables, smUp, needed, ready, heartbeat, smWire, wire,
                   hbWire, history, faults>>

-----------------------------------------------------------------------------
(* sendToSMWithinTimeout, after the session has been looked after.         *)

(* The request is sent, and the wait begins.                               *)
SendRequest ==
    /\ Is("request", "send") /\ ret = "ok" /\ smUp
    /\ stack' = <<Wait("control", Top.id, Top.id, Top.tmo)>> \o Tail(stack)
    /\ left' = Top.tmo
    /\ control' = beginWait(control, Top.id)
    /\ smWire' = smWire \cup {Top.id}
    /\ UNCHANGED <<ret, data, session, heartbeat, conns, wire, hbWire, history,
                   faults>>

(* The session is not there, or the send fails, which marks it.            *)
SendRequestFails ==
    /\ Is("request", "send")
    /\ \/ ret # "ok" /\ UNCHANGED <<needed, faults>>
       \/ ret = "ok" /\ needed' = TRUE /\ (IF smUp THEN Fault ELSE UNCHANGED faults)
    /\ stack' = Tail(stack)
    /\ ret' = "sendfail"
    /\ result' = IF Top.id = RestoreSeq THEN result
                 ELSE [result EXCEPT ![Top.id] = "sendfail"]
    /\ UNCHANGED <<left, tables, smUp, restoring, ready, heartbeat, peers, cut>>

-----------------------------------------------------------------------------
(* The control heartbeat                                                   *)

(* The heartbeat timer: sendHeartbeat first looks after the session.       *)
Heartbeat ==
    /\ polling /\ hbDue
    /\ hbDue' = FALSE
    /\ stack' = <<Activity("heartbeat", 0, "start")>> \o stack
    /\ UNCHANGED <<ret, left, tables, session, ack, peers, history,
                   faults>>

(* The session is there and no heartbeat is out: one is sent, and sending  *)
(* looks after the session once more (`id' 1).                             *)
HeartbeatAgain ==
    /\ Is("heartbeat", "send") /\ Top.id = 0 /\ ret = "ok" /\ ~ack
    /\ stack' = [stack EXCEPT ![1] = Activity("heartbeat", 1, "start")]
    /\ UNCHANGED <<ret, left, tables, session, heartbeat, peers, history, faults>>

HeartbeatSent ==
    /\ Is("heartbeat", "send") /\ Top.id = 1 /\ ret = "ok" /\ smUp
    /\ ack' = TRUE
    /\ hbWire' = TRUE
    /\ stack' = Tail(stack)
    /\ UNCHANGED <<ret, left, tables, session, hbDue, conns, smWire, wire,
                   history, faults>>

(* No session, a heartbeat already out, or a send that fails.              *)
HeartbeatNotSent ==
    /\ Is("heartbeat", "send")
    /\ \/ (ret # "ok" \/ (Top.id = 0 /\ ack)) /\ UNCHANGED <<needed, faults>>
       \/ /\ Top.id = 1 /\ ret = "ok" /\ needed' = TRUE
          /\ IF smUp THEN Fault ELSE UNCHANGED faults
    /\ stack' = Tail(stack)
    /\ UNCHANGED <<ret, left, tables, smUp, restoring, ready, heartbeat, peers,
                   history>>

(* dropServiceManagerConnection                                            *)
drop ==
    /\ smUp' = FALSE /\ needed' = TRUE /\ ready' = FALSE
    /\ ack' = FALSE
    /\ closeTransport

(* onControlHeartbeatAck; one from another incarnation of the             *)
(* ServiceManager drops the connection.                                    *)
HeartbeatAck ==
    /\ polling /\ hbWire
    /\ \/ /\ hbWire' = FALSE
          /\ ack' = FALSE
          /\ UNCHANGED <<session, smWire, faults>>
       \/ /\ Fault /\ drop
          /\ UNCHANGED restoring
    /\ UNCHANGED <<owner, tables, hbDue, conns, wire, history>>

(* onControlHeartbeatTimeout: the acknowledgement is late (a fault), or    *)
(* cannot come any more.                                                   *)
HeartbeatTimeout ==
    /\ polling /\ ack
    /\ IF hbWire THEN Fault ELSE UNCHANGED faults
    /\ drop
    /\ UNCHANGED <<owner, tables, restoring, hbDue, conns, wire, history>>

(* onSMData finds the connection closed.                                   *)
SmLost ==
    /\ polling /\ smUp /\ Fault
    /\ drop
    /\ UNCHANGED <<owner, tables, restoring, hbDue, conns, wire, history>>

-----------------------------------------------------------------------------
(* Messages and connections of the two planes                              *)

(* onSMMessage: a reply of the ServiceManager.                             *)
ControlReply(i) ==
    /\ polling /\ i \in smWire
    /\ smWire' = smWire \ {i}
    /\ control' = consumeReplyIfWaiting(control, i)
    /\ UNCHANGED <<owner, data, session, heartbeat, conns, wire, hbWire, history,
                   faults>>

(* onDirectMessage: a reply of a service.                                  *)
DataReply(m) ==
    /\ polling /\ m \in wire
    /\ wire' = wire \ {m}
    /\ data' = consumeReplyIfWaiting(data, m[2])
    /\ UNCHANGED <<owner, control, session, heartbeat, conns, smWire, hbWire,
                   history, faults>>

(* The ServiceManager never answers a request, or a heartbeat.             *)
ControlSilent ==
    /\ Fault
    /\ \/ \E i \in smWire : smWire' = smWire \ {i} /\ UNCHANGED hbWire
       \/ hbWire /\ hbWire' = FALSE /\ UNCHANGED smWire
    /\ UNCHANGED <<owner, tables, session, heartbeat, conns, wire, history>>

(* A service never answers a request.                                      *)
DataSilent(m) ==
    /\ m \in wire /\ Fault
    /\ wire' = wire \ {m}
    /\ UNCHANGED <<owner, tables, session, heartbeat, conns, smWire, hbWire,
                   history>>

(* onDirectDisconnect, handleServiceLost: the peer closed the connection.  *)
DataLost(k) ==
    /\ polling /\ k \in conns /\ Fault
    /\ conns' = conns \ {k}
    /\ wire' = {m \in wire : m[1] # k}
    /\ cut' = cut \cup {stack[i].id : i \in {j \in waits : stack[j].key = k}}
    /\ UNCHANGED <<owner, tables, session, heartbeat, smWire, hbWire, result>>

(* A data connection is made (connectService, tryReconnectService).        *)
Connect(k) ==
    /\ polling /\ k \notin conns
    /\ conns' = conns \cup {k}
    /\ UNCHANGED <<owner, tables, session, heartbeat, smWire, wire, hbWire,
                   history, faults>>

(* Time passes while the event loop polls.  A reply to the innermost wait  *)
(* or a heartbeat acknowledgement that is slower than a tick is a fault.   *)
answerDue ==
    hbWire \/ (inWait /\ IF Top.plane = "control" THEN Top.id \in smWire
                         ELSE <<Top.key, Top.id>> \in wire)
lower(n) == IF n > 0 THEN n - 1 ELSE 0

Tick ==
    /\ polling
    /\ inWait => waitOutcome(Top) = "none"
    /\ IF answerDue THEN Fault ELSE UNCHANGED faults
    /\ hbDue' = TRUE
    /\ left' = lower(left)
    /\ stack' = [i \in DOMAIN stack |->
                   IF i \in waits
                     THEN [stack[i] EXCEPT !.due = lower(@), !.saved = lower(@)]
                     ELSE stack[i]]
    /\ UNCHANGED <<ret, tables, session, ack, peers, history>>

-----------------------------------------------------------------------------
(* A started runtime with its session established (beginRuntimeInternal).  *)
Init ==
    /\ stack = <<>> /\ ret = "ok" /\ left = 0
    /\ control = <<>> /\ data = <<>>
    /\ smUp = TRUE /\ needed = FALSE /\ restoring = FALSE /\ ready = TRUE
    /\ ack = FALSE /\ hbDue = FALSE
    /\ conns \in SUBSET Services
    /\ smWire = {} /\ wire = {} /\ hbWire = FALSE
    /\ result = <<>> /\ cut = {}
    /\ faults = MaxFaults

(* The steps the owner thread takes by itself.                             *)
OwnerStep ==
    \/ WaitEnd \/ SessionKept \/ Reconnect
    \/ RestoreNext \/ RestoreFailed
    \/ RestoreProxies \/ RestoreReady \/ RestoreDone
    \/ SendRequest \/ SendRequestFails
    \/ HeartbeatAgain \/ HeartbeatSent \/ HeartbeatNotSent

Next ==
    \/ OwnerStep
    \/ \E k \in Services, t \in Timeouts : Invoke(k, t)
    \/ \E t \in Timeouts : Request(t)
    \/ Heartbeat \/ HeartbeatAck \/ HeartbeatTimeout
    \/ SmLost \/ ControlSilent
    \/ \E i \in smWire : ControlReply(i)
    \/ \E m \in wire : DataReply(m) \/ DataSilent(m)
    \/ \E k \in Services : DataLost(k) \/ Connect(k)
    \/ Tick

(* The owner thread runs, time passes, the heartbeat timer repeats, the    *)
(* acknowledgement timer fires, and what has been received is delivered.   *)
Fairness ==
    /\ WF_vars(OwnerStep) /\ WF_vars(Tick) /\ WF_vars(Heartbeat)
    /\ WF_vars(HeartbeatTimeout) /\ WF_vars(HeartbeatAck)
    /\ WF_vars(\E i \in smWire : ControlReply(i))
    /\ WF_vars(\E m \in wire : DataReply(m))

Spec == Init /\ [][Next]_vars /\ Fairness

-----------------------------------------------------------------------------
(* Properties                                                              *)

Outcomes == {"none", "ok", "lost", "timeout", "failed", "sendfail"}
Slots == {"waiting", "ready", "failed"}

(* Every variable has its type; the stack holds the four activities.       *)
TypeOK ==
    /\ \A i \in DOMAIN stack :
          stack[i].kind \in {"wait", "request", "restore", "heartbeat"}
    /\ ret \in Outcomes \cup {"unreachable", "refused"}
    /\ left \in Nat
    /\ \A t \in {control, data} :
          DOMAIN t \subseteq 0..MaxCalls /\ \A i \in DOMAIN t : t[i] \in Slots
    /\ {smUp, needed, restoring, ready, ack, hbDue, hbWire} \subseteq BOOLEAN
    /\ conns \subseteq Services
    /\ smWire \subseteq 0..MaxCalls /\ wire \subseteq Services \X (1..MaxCalls)
    /\ \A i \in DOMAIN result : result[i] \in Outcomes
    /\ cut \subseteq 0..MaxCalls /\ faults \in 0..MaxFaults

waitsOf(plane) == {stack[i].id : i \in {j \in waits : stack[j].plane = plane}}

(* No slot outlives its wait: however waits nest, end and fail, a slot of  *)
(* PendingReplyTable belongs to a wait that is still running, and a data   *)
(* wait keeps its slot until it ends even when the control session is      *)
(* reconnected under it (clearReplies touches the control table only).     *)
SlotsAreWaits ==
    /\ DOMAIN control \subseteq waitsOf("control")
    /\ DOMAIN data = waitsOf("data")
    /\ \A i \in DOMAIN data : data[i] # "failed"

(* wait_deadline_ms_ is shared by the nested waits: when a wait runs, it   *)
(* is that wait's own deadline, also after inner waits have come and gone  *)
(* (WaitStateGuard).                                                       *)
DeadlineIsOwn == inWait => left = Top.due

(* restoring_ is set exactly while a restore runs, on every path out of    *)
(* it, and restores never nest (RestoreScopeGuard).                        *)
RestoringExact ==
    LET restores == {i \in DOMAIN stack : stack[i].kind = "restore"}
    IN  Cardinality(restores) = IF restoring THEN 1 ELSE 0


(* Every synchronous call returns.                                         *)
CallsReturn ==
    \A i \in 1..MaxCalls :
        i \in DOMAIN result ~> (i \in DOMAIN result /\ result[i] # "none")


(* "SM reconnection must not hurt a data-plane RPC in flight": a data call *)
(* fails with ERR_CONNECTION_CLOSED only if its peer closed the connection.*)
DataCallsUnhurt == \A i \in DOMAIN result : result[i] = "lost" => i \in cut

(* After the control connection is rebuilt, a wait whose reply cannot come *)
(* any more fails at once instead of polling to its timeout: every wait    *)
(* still has its slot, so it can be answered or marked failed.             *)
WaitsKeepSlots ==
    waitsOf("control") \subseteq DOMAIN control

(* isReady() says that the connection to the ServiceManager is there.      *)
ReadyMeansConnected == ready => smUp

=============================================================================
