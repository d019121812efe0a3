--------------------------- MODULE MCServiceManager ---------------------------
(* Instances of ServiceManager for TLC: the workloads.                         *)
EXTENDS ServiceManager, TLC

CONSTANTS n1, bad, e1, t1, none

hello(key, inc, pid) == [key |-> key, inc |-> inc, pid |-> pid]
filter(inst) == [name |-> n1, inst |-> inst]

MCNames == {n1}
MCTopicSize == [t \in {t1} |-> 1]

OneHello == {hello(1, 1, 1)}
TwoRuntimes == {hello(1, 1, 1), hello(2, 1, 2)}
Restart == {hello(1, 1, 1), hello(1, 2, 1), hello(2, 1, 2)}
PidMoves == {hello(1, 1, 1), hello(2, 1, 1), hello(1, 1, 2)}
WatchOne == {{filter(1)}}
WatchAny == {{filter(AnyInst)}, {filter(1), filter(2)}}

\* One service, nothing else; the others say what they add.
Base == [fds |-> {3, 4}, names |-> {n1}, insts |-> {1}, topics |-> {}, hellos |-> OneHello,
         watchSets |-> {}, diagPids |-> {}, steady |-> TRUE]

\* Two runtimes, one of which restarts, on three connections.
WatchLoad == [Base EXCEPT !.fds = {3, 4, 5}, !.hellos = Restart, !.watchSets = WatchOne]
\* Wildcards and groups of filters over two instances of a name.
GroupLoad == [Base EXCEPT !.insts = {1, 2}, !.watchSets = WatchAny]
\* Diagnostics of a pid that connections share and leave.
DiagLoad == [Base EXCEPT !.fds = {3, 4, 5}, !.names = {}, !.hellos = PidMoves,
                         !.diagPids = {1}, !.steady = FALSE]
\* The first workload on two connections.
SessionLoad == [WatchLoad EXCEPT !.fds = {3, 4}]
\* Two runtimes publish one topic.
TopicLoad == [Base EXCEPT !.topics = {t1}, !.hellos = TwoRuntimes]
\* One runtime publishes a topic from two instances of a name.
InstanceLoad == [Base EXCEPT !.insts = {1, 2}, !.topics = {t1}]

Watching == {WatchLoad, GroupLoad, DiagLoad}
Restarting == {SessionLoad}
Publishing == {TopicLoad, InstanceLoad}
OneWatch == {WatchLoad}
===============================================================================
