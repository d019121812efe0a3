---------------------------- MODULE MCTopicManager ----------------------------
EXTENDS TopicManager, TLC

CONSTANTS n1, t1, t2, t3, e1, none

MCNames == {n1}
MCInsts == {1, 2}
MCEndpoints == {e1}
MCFds == {3, 4}
MCTopics == {t1, t2, t3}
MCTopicSize == [t \in MCTopics |-> 2]
Symmetry == Permutations(MCTopics)
===============================================================================
