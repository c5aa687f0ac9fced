------------------------ MODULE MCConnectionHandler ------------------------
(* Instances of ConnectionHandler for TLC. *)
EXTENDS ConnectionHandler

\* Node ids and topic names overlap between the clusters.
BrokerLists(c) == {[i \in DOMAIN ns |-> [node |-> ns[i], host |-> c]] :
                     ns \in {<<1>>, <<2, 1>>}}

TopicLists(c, nodes) ==
    {<< >>}
    \cup {<<[name |-> t, leader |-> n, from |-> c]>> : t \in {"t1", "t2"}, n \in nodes}
    \cup {<<[name |-> "t1", leader |-> n, from |-> c], [name |-> "t2", leader |-> m, from |-> c]>> :
            n \in nodes, m \in nodes}

\* Responses of a cluster with one or two brokers and up to two topics,
\* one that is cut off in the topics and one that is cut off in the brokers.
AllResponses ==
    [c \in Cluster |->
        UNION {{[parse |-> "all", brokers |-> bs, topics |-> ts] :
                    ts \in TopicLists(c, {bs[i].node : i \in DOMAIN bs})} : bs \in BrokerLists(c)}
        \cup {[parse |-> p, brokers |-> <<[node |-> 1, host |-> c]>>, topics |-> << >>] :
                 p \in {"brokers", "no"}}]
=============================================================================
