------------------------------ MODULE OwnerLoop -----------------------------
(***************************************************************************)
(* The threads of one runtime: the owner, which is inside start() and      *)
(* drives the event loop; callers of the API, which hand their function to *)
(* the owner through callSerialized or, while there is no owner, run it    *)
(* themselves under api_mutex_; and threads that call stop().              *)
(*                                                                         *)
(* One step is one access to shared state: an atomic, the posting queue    *)
(* under pending_mutex_, the wake-up eventfd.  What a call does is left    *)
(* out, except that it may wait for a reply, in which case the thread that *)
(* runs it polls the loop without running functors.                        *)
(***************************************************************************)
EXTENDS Naturals, Sequences, FiniteSets

CONSTANTS Callers,         \* threads that call the API, once each
          Stoppers,        \* threads that call stop()
          MaxPolls         \* bound on the polls of one reply wait

ASSUME ThreadsAssumption == IsFiniteSet(Callers \cup Stoppers) /\ Callers \cap Stoppers = {}
ASSUME MaxPollsAssumption == MaxPolls \in Nat

VARIABLES
  owner,         \* the thread in start(): program counter, caller, polls left
  caller,        \* program counter of every calling thread
  stopper,       \* program counter of every thread that stops the runtime
  exec,          \* per caller, has its function been carried out
  batch,         \* functors swapped out by processPendingFunctors
  pending,       \* pending_functors_
  closed,        \* closed_
  stopRequested, \* EventLoop::stop_requested_
  running,       \* EventLoop::running_
  flag,          \* functor_wakeup_pending_
  efd,           \* is the wake-up eventfd readable
  loopAlive,     \* Impl::loop_alive_
  hasOwner,      \* has the executor an owner thread
  mutex,         \* holder of api_mutex_
  loop,          \* the EventLoop object: "live", "deleted" and then "null"
  broken         \* threads that have used the deleted object

queue == <<batch, pending, closed, flag, efd>>
loopState == <<stopRequested, running>>
vars == <<owner, caller, stopper, exec, batch, pending, closed, stopRequested, running,
          flag, efd, loopAlive, hasOwner, mutex, loop, broken>>

None == "none"

\* The object created by init(), before any thread has called start().
Init ==
  /\ owner = [pc |-> "init", polls |-> 0, back |-> "init"]
  /\ caller = [c \in Callers |-> "enter"] /\ stopper = [s \in Stoppers |-> "idle"]
  /\ exec = [c \in Callers |-> "no"]
  /\ batch = << >> /\ pending = << >> /\ closed = FALSE
  /\ stopRequested = FALSE /\ running = FALSE /\ flag = FALSE /\ efd = FALSE
  /\ loopAlive = FALSE /\ hasOwner = FALSE /\ mutex = None /\ loop = "live" /\ broken = {}

ownerTo(pc) == owner' = [owner EXCEPT !.pc = pc]
callerTo(c, pc) == caller' = [caller EXCEPT ![c] = pc]

\* A thread dereferences the loop: with the object deleted, the thread is
\* lost and nothing is said about what it does next.
lostCaller(c) == /\ loop = "deleted"
                 /\ callerTo(c, "lost") /\ broken' = broken \cup {c}
                 /\ UNCHANGED <<owner, stopper, exec, queue, loopState, loopAlive, hasOwner, mutex, loop>>

-----------------------------------------------------------------------------
(* callSerialized and OwnerThreadExecutor::tryInvokeOnOwner                  *)

\* A stop that was requested refuses the call; after shutdown loop_ is NULL.
CheckStop(c) ==
  /\ caller[c] = "enter"
  /\ \/ lostCaller(c)
     \/ /\ loop # "deleted"
        /\ callerTo(c, IF loop = "live" /\ stopRequested THEN "refused" ELSE "owner")
        /\ UNCHANGED <<owner, stopper, exec, queue, loopState, loopAlive, hasOwner, mutex, loop, broken>>

CheckOwner(c) ==
  /\ caller[c] = "owner"
  /\ callerTo(c, IF hasOwner THEN "alive" ELSE "lock")
  /\ UNCHANGED <<owner, stopper, exec, queue, loopState, loopAlive, hasOwner, mutex, loop, broken>>

\* Mutant: the owner is not checked again under the lock.
LockInlineNoRecheck(c) ==
  /\ caller[c] = "lock" /\ mutex = None
  /\ callerTo(c, "inline") /\ mutex' = c
  /\ exec' = [exec EXCEPT ![c] = "running"]
  /\ UNCHANGED <<owner, stopper, queue, loopState, loopAlive, hasOwner, loop, broken>>

\* api_mutex_ is taken and the absence of an owner checked once more, then
\* the function runs on the calling thread.
LockInline(c) ==
  /\ caller[c] = "lock" /\ mutex = None
  /\ IF hasOwner
       THEN callerTo(c, "alive") /\ UNCHANGED <<mutex, exec>>
       ELSE /\ callerTo(c, "inline") /\ mutex' = c
            /\ exec' = [exec EXCEPT ![c] = "running"]
  /\ UNCHANGED <<owner, stopper, queue, loopState, loopAlive, hasOwner, loop, broken>>

\* Mutant: the consumed wake-up is forgotten.
pollForgetsFunctors ==
  /\ efd
  /\ efd' = FALSE
  /\ UNCHANGED flag
  /\ loopAlive' = TRUE

\* pollOnceWithoutFunctors: the eventfd is consumed and functors found
\* waiting are remembered in functor_wakeup_pending_.
pollWithoutFunctors ==
  /\ efd
  /\ efd' = FALSE
  /\ flag' = (flag \/ pending # << >>)
  /\ loopAlive' = TRUE

InlinePoll(c) ==
  /\ caller[c] = "inline"
  /\ pollWithoutFunctors
  /\ UNCHANGED <<owner, caller, stopper, exec, batch, pending, closed, loopState, hasOwner, mutex, loop, broken>>

InlineDone(c) ==
  /\ caller[c] = "inline"
  /\ exec' = [exec EXCEPT ![c] = "done"]
  /\ callerTo(c, "done") /\ mutex' = None
  /\ UNCHANGED <<owner, stopper, queue, loopState, loopAlive, hasOwner, loop, broken>>

CheckAlive(c) ==
  /\ caller[c] = "alive"
  /\ callerTo(c, IF loopAlive THEN "post" ELSE "refused")
  /\ UNCHANGED <<owner, stopper, exec, queue, loopState, loopAlive, hasOwner, mutex, loop, broken>>

\* EventLoop::post under pending_mutex_.
Post(c) ==
  /\ caller[c] = "post"
  /\ \/ lostCaller(c)
     \/ /\ loop = "null" /\ callerTo(c, "lost") /\ broken' = broken \cup {c}
        /\ UNCHANGED <<owner, stopper, exec, queue, loopState, loopAlive, hasOwner, mutex, loop>>
     \/ /\ loop = "live"
        /\ IF closed
             THEN callerTo(c, "refused") /\ UNCHANGED pending
             ELSE callerTo(c, "wakeup") /\ pending' = Append(pending, c)
        /\ UNCHANGED <<owner, stopper, exec, batch, closed, flag, efd, loopState, loopAlive, hasOwner, mutex, loop, broken>>

\* The wake-up that ends post(), after the queue has been unlocked.
PostWakeup(c) ==
  /\ caller[c] = "wakeup"
  /\ \/ /\ loop # "live" /\ callerTo(c, "lost") /\ broken' = broken \cup {c}
        /\ UNCHANGED <<owner, stopper, exec, queue, loopState, loopAlive, hasOwner, mutex, loop>>
     \/ /\ loop = "live"
        /\ efd' = TRUE /\ callerTo(c, "wait")
        /\ UNCHANGED <<owner, stopper, exec, batch, pending, closed, flag, loopState, loopAlive, hasOwner, mutex, loop, broken>>

\* SyncCallState::wait
AwaitResult(c) ==
  /\ caller[c] = "wait" /\ exec[c] = "done"
  /\ callerTo(c, "done")
  /\ UNCHANGED <<owner, stopper, exec, queue, loopState, loopAlive, hasOwner, mutex, loop, broken>>

Caller(c) == \/ CheckStop(c) \/ CheckOwner(c) \/ LockInline(c) \/ InlinePoll(c) \/ InlineDone(c)
             \/ CheckAlive(c) \/ Post(c) \/ PostWakeup(c) \/ AwaitResult(c)

-----------------------------------------------------------------------------
(* start(), EventLoop::run and shutdownInternal on the owner thread          *)

\* start() claims the loop under api_mutex_.
StartClaim ==
  /\ owner.pc = "init" /\ mutex = None
  /\ IF stopRequested
       THEN ownerTo("returned") /\ UNCHANGED <<hasOwner, loopAlive, mutex>>
       ELSE /\ owner' = [pc |-> "wait", polls |-> MaxPolls, back |-> "unlock"]
            /\ hasOwner' = TRUE /\ loopAlive' = TRUE /\ mutex' = "start"
  /\ UNCHANGED <<caller, stopper, exec, queue, loopState, loop, broken>>

StartUnlock ==
  /\ owner.pc = "unlock"
  /\ ownerTo("run") /\ mutex' = None
  /\ UNCHANGED <<caller, stopper, exec, queue, loopState, loopAlive, hasOwner, loop, broken>>

\* A reply wait of whatever the owner is doing: activation of the declared
\* services, an event's callback, or a functor.
WaitPoll ==
  /\ owner.pc = "wait" /\ owner.polls > 0
  /\ pollWithoutFunctors
  /\ owner' = [owner EXCEPT !.polls = @ - 1]
  /\ UNCHANGED <<caller, stopper, exec, batch, pending, closed, loopState, hasOwner, mutex, loop, broken>>

\* The reply is there, or the deadline has passed.
WaitDone ==
  /\ owner.pc = "wait"
  /\ owner' = [pc |-> owner.back, polls |-> 0, back |-> owner.back]
  /\ UNCHANGED <<caller, stopper, exec, queue, loopState, loopAlive, hasOwner, mutex, loop, broken>>

\* run() does not enter the loop when a stop has been requested before.
RunEnter ==
  /\ owner.pc = "run"
  /\ ownerTo(IF stopRequested THEN "drain" ELSE "arm")
  /\ UNCHANGED <<caller, stopper, exec, queue, loopState, loopAlive, hasOwner, mutex, loop, broken>>

RunArm ==
  /\ owner.pc = "arm"
  /\ ownerTo("check") /\ running' = TRUE
  /\ UNCHANGED <<caller, stopper, exec, queue, stopRequested, loopAlive, hasOwner, mutex, loop, broken>>

\* Mutant: only running_ ends the loop.
LoopCheckRunning ==
  /\ owner.pc = "check"
  /\ ownerTo(IF running THEN "backlog" ELSE "drain")
  /\ UNCHANGED <<caller, stopper, exec, queue, loopState, loopAlive, hasOwner, mutex, loop, broken>>

LoopCheck ==
  /\ owner.pc = "check"
  /\ ownerTo(IF running /\ ~ stopRequested THEN "backlog" ELSE "drain")
  /\ UNCHANGED <<caller, stopper, exec, queue, loopState, loopAlive, hasOwner, mutex, loop, broken>>

\* pollOnceInternal(true) first makes up for functors that a reply wait left
\* behind, and then blocks.
PollBacklog ==
  /\ owner.pc = "backlog"
  /\ flag' = FALSE
  /\ IF flag
       THEN batch' = pending /\ pending' = << >> /\ owner' = [owner EXCEPT !.pc = "functors", !.back = "poll"]
       ELSE UNCHANGED <<batch, pending>> /\ ownerTo("poll")
  /\ UNCHANGED <<caller, stopper, exec, closed, efd, loopState, loopAlive, hasOwner, mutex, loop, broken>>

\* epoll_wait returns for the wake-up eventfd.
PollWakeup ==
  /\ owner.pc = "poll" /\ efd
  /\ efd' = FALSE
  /\ ownerTo("swap")
  /\ UNCHANGED <<caller, stopper, exec, batch, pending, closed, flag, loopState, loopAlive, hasOwner, mutex, loop, broken>>

\* epoll_wait returns for another fd or a timer, whose callback may wait for
\* a reply.
PollOther ==
  /\ owner.pc = "poll"
  /\ owner' = [pc |-> "wait", polls |-> MaxPolls, back |-> "swap"]
  /\ UNCHANGED <<caller, stopper, exec, queue, loopState, loopAlive, hasOwner, mutex, loop, broken>>

\* processPendingFunctors takes the whole queue.
SwapFunctors ==
  /\ owner.pc \in {"swap", "drain", "last"}
  /\ batch' = pending /\ pending' = << >>
  /\ owner' = [owner EXCEPT !.pc = "functors",
                            !.back = CASE owner.pc = "swap"  -> "check"
                                       [] owner.pc = "drain" -> "exit"
                                       [] owner.pc = "last"  -> "delete"]
  /\ UNCHANGED <<caller, stopper, exec, closed, flag, efd, loopState, loopAlive, hasOwner, mutex, loop, broken>>

\* One functor begins, may wait for a reply, and completes its caller.
FunctorBegin ==
  /\ owner.pc = "functors" /\ batch # << >>
  /\ exec' = [exec EXCEPT ![Head(batch)] = "running"]
  /\ owner' = [owner EXCEPT !.pc = "functor", !.polls = MaxPolls]
  /\ UNCHANGED <<caller, stopper, queue, loopState, loopAlive, hasOwner, mutex, loop, broken>>

FunctorPoll ==
  /\ owner.pc = "functor" /\ owner.polls > 0
  /\ pollWithoutFunctors
  /\ owner' = [owner EXCEPT !.polls = @ - 1]
  /\ UNCHANGED <<caller, stopper, exec, batch, pending, closed, loopState, hasOwner, mutex, loop, broken>>

\* Mutant: the functor stays in the batch.
FunctorDoneKeeps ==
  /\ owner.pc = "functor"
  /\ exec' = [exec EXCEPT ![Head(batch)] = "done"]
  /\ owner' = [owner EXCEPT !.pc = owner.back, !.polls = 0]
  /\ UNCHANGED <<caller, stopper, queue, loopState, loopAlive, hasOwner, mutex, loop, broken>>

FunctorDone ==
  /\ owner.pc = "functor"
  /\ exec' = [exec EXCEPT ![Head(batch)] = "done"]
  /\ batch' = Tail(batch)
  /\ owner' = [owner EXCEPT !.pc = "functors", !.polls = 0]
  /\ UNCHANGED <<caller, stopper, pending, closed, flag, efd, loopState, loopAlive, hasOwner, mutex, loop, broken>>

\* Mutant: the queue is cleared after its functors have run.
FunctorsDoneClear ==
  /\ owner.pc = "functors" /\ batch = << >>
  /\ ownerTo(owner.back) /\ pending' = << >>
  /\ UNCHANGED <<caller, stopper, exec, batch, closed, flag, efd, loopState, loopAlive, hasOwner, mutex, loop, broken>>

FunctorsDone ==
  /\ owner.pc = "functors" /\ batch = << >>
  /\ ownerTo(owner.back)
  /\ UNCHANGED <<caller, stopper, exec, queue, loopState, loopAlive, hasOwner, mutex, loop, broken>>

\* run() has returned; shutdownInternal polls once more and deletes the loop.
RunExit ==
  /\ owner.pc = "exit"
  /\ loopAlive' = FALSE /\ ownerTo("last")
  /\ UNCHANGED <<caller, stopper, exec, queue, loopState, hasOwner, mutex, loop, broken>>

DeleteLoop ==
  /\ owner.pc = "delete"
  /\ loop' = "deleted" /\ ownerTo("null")
  /\ UNCHANGED <<caller, stopper, exec, queue, loopState, loopAlive, hasOwner, mutex, broken>>

ClearLoop ==
  /\ owner.pc = "null"
  /\ loop' = "null" /\ ownerTo("returned")
  /\ UNCHANGED <<caller, stopper, exec, queue, loopState, loopAlive, hasOwner, mutex, broken>>

OwnerStep == \/ StartUnlock \/ WaitPoll \/ WaitDone \/ RunEnter \/ RunArm \/ LoopCheck \/ PollBacklog
             \/ PollWakeup \/ SwapFunctors \/ FunctorBegin \/ FunctorPoll \/ FunctorDone \/ FunctorsDone
             \/ RunExit \/ DeleteLoop \/ ClearLoop

-----------------------------------------------------------------------------
(* stop() on other threads                                                   *)

stopperTo(s, pc) == stopper' = [stopper EXCEPT ![s] = pc]

\* stop() is called, for the first time or again.
StopAlive(s) ==
  /\ stopper[s] \in {"idle", "done"}
  /\ loopAlive' = FALSE /\ stopperTo(s, "close")
  /\ UNCHANGED <<owner, caller, exec, queue, loopState, hasOwner, mutex, loop, broken>>

\* Mutant: the queue stays open.
StopCloseNothing(s) ==
  /\ stopper[s] = "close" /\ loop = "live"
  /\ stopperTo(s, "request")
  /\ UNCHANGED <<owner, caller, exec, queue, loopState, loopAlive, hasOwner, mutex, loop, broken>>

\* EventLoop::stop closes the queue before anything tells run() to end.
StopClose(s) ==
  /\ stopper[s] = "close" /\ loop = "live"
  /\ closed' = TRUE /\ stopperTo(s, "request")
  /\ UNCHANGED <<owner, caller, exec, batch, pending, flag, efd, loopState, loopAlive, hasOwner, mutex, loop, broken>>

StopRequest(s) ==
  /\ stopper[s] = "request" /\ loop = "live"
  /\ stopRequested' = TRUE /\ stopperTo(s, "halt")
  /\ UNCHANGED <<owner, caller, exec, queue, running, loopAlive, hasOwner, mutex, loop, broken>>

StopRunning(s) ==
  /\ stopper[s] = "halt" /\ loop = "live"
  /\ running' = FALSE /\ stopperTo(s, "wakeup")
  /\ UNCHANGED <<owner, caller, exec, queue, stopRequested, loopAlive, hasOwner, mutex, loop, broken>>

StopWakeup(s) ==
  /\ stopper[s] = "wakeup" /\ loop = "live"
  /\ efd' = TRUE /\ stopperTo(s, "done")
  /\ UNCHANGED <<owner, caller, exec, batch, pending, closed, flag, loopState, loopAlive, hasOwner, mutex, loop, broken>>

\* An earlier stop() has ended the runtime before: there is no loop any more.
StopNothing(s) ==
  /\ stopper[s] = "close" /\ loop = "null"
  /\ stopperTo(s, "done")
  /\ UNCHANGED <<owner, caller, exec, queue, loopState, loopAlive, hasOwner, mutex, loop, broken>>

\* The owner has seen a request and deleted the loop under this thread.
StopLost(s) ==
  /\ \/ stopper[s] \in {"request", "halt", "wakeup"} /\ loop # "live"
     \/ stopper[s] = "close" /\ loop = "deleted"
  /\ stopperTo(s, "lost") /\ broken' = broken \cup {s}
  /\ UNCHANGED <<owner, caller, exec, queue, loopState, loopAlive, hasOwner, mutex, loop>>

StopStep(s) == StopClose(s) \/ StopRequest(s) \/ StopRunning(s) \/ StopWakeup(s) \/ StopNothing(s) \/ StopLost(s)

-----------------------------------------------------------------------------
Next == \/ \E c \in Callers : Caller(c)
        \/ StartClaim \/ PollOther \/ OwnerStep
        \/ \E s \in Stoppers : StopAlive(s) \/ StopStep(s)
Spec == Init /\ [][Next]_vars

\* Every thread inside a call is scheduled, a reply wait ends by its deadline,
\* and epoll_wait returns when the eventfd is readable and, at the latest, when
\* the repeating heartbeat timer that start() has added expires (PollOther).
\* Nobody is obliged to call start() or stop().
Fairness == /\ \A c \in Callers : WF_vars(Caller(c)) /\ WF_vars(InlineDone(c))
            /\ \A s \in Stoppers : WF_vars(StopStep(s))
            /\ WF_vars(OwnerStep) /\ WF_vars(PollOther)
FairSpec == Spec /\ Fairness

-----------------------------------------------------------------------------
(* Properties                                                                *)

TypeOK ==
  /\ exec \in [Callers -> {"no", "running", "done"}]
  /\ {batch, pending} \subseteq Seq(Callers)
  /\ {closed, stopRequested, running, flag, efd, loopAlive, hasOwner} \subseteq BOOLEAN
  /\ mutex \in Callers \cup {None, "start"} /\ loop \in {"live", "deleted", "null"}
  /\ broken \subseteq Callers \cup Stoppers
  /\ owner.polls \in 0 .. MaxPolls
  /\ owner.pc \notin {"functors", "functor"} => batch = << >>

\* Closing the queue before the loop is told to end leaves no window in which
\* an accepted functor is dropped: when the loop is deleted, every functor
\* post() accepted has been carried out.
NoCallDropped == loop # "live" => pending = << >> /\ batch = << >>

\* A wake-up that a reply wait consumes is remembered: when the loop goes round,
\* a functor whose poster waits is announced by the eventfd or by
\* functor_wakeup_pending_.
BacklogRemembered ==
  owner.pc \in {"check", "backlog"} =>
     \A i \in DOMAIN pending : caller[pending[i]] = "wait" => efd \/ flag

\* No wake-up is swallowed: the loop does not block in epoll_wait while a
\* functor whose poster waits is queued and no eventfd announces it.
NeverBlocksOnBacklog ==
  owner.pc = "poll" => \A i \in DOMAIN pending : caller[pending[i]] = "wait" => efd

Serial == INSTANCE SerialCalls WITH
  phase <- [c \in Callers |-> IF exec[c] # "no" THEN exec[c]
                              ELSE IF caller[c] = "refused" THEN "refused" ELSE "asked"]

\* Whether a call runs inline or on the owner, it runs at most once, never
\* together with another one, and not at all when ERR_NOT_RUNNING is returned.
ImplementsSerialCalls == Serial!Spec

\* Every call returns: no posted functor waits for a wake-up that a reply wait
\* has consumed, and none is left behind by stop().
CallsReturn == \A c \in Callers : <>(caller[c] \in {"done", "refused", "lost"})

\* stop() ends start(), also when it comes before run(), between run()'s check
\* and its arming, or while the owner waits for a reply.
StopEndsStart == stopRequested ~> (owner.pc \in {"init", "returned"})

\* The API may be called from any thread at any time: no thread inside a call
\* uses the event loop after shutdownInternal has deleted it.
NoUseAfterDelete == broken = {}
=============================================================================
