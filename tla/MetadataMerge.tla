--------------------------- MODULE MetadataMerge ---------------------------
(***************************************************************************)
(* What the proxy makes of the clusters' Metadata responses before the     *)
(* client sees them: the rewriting of routing/metadata.go (active_passive) *)
(* and the merge of routing/synthetic_metadata.go (load_balance).          *)
(*                                                                         *)
(* A response is the lists it carries and how far the code can parse it:   *)
(* "all", "brokers" (the topic array is malformed) or "no". Node ids are   *)
(* only unique within a cluster, topic names too.                          *)
(***************************************************************************)
EXTENDS Naturals, Sequences

Broker   == [node : Nat, host : STRING]
Topic    == [name : STRING, leader : Nat, from : STRING]
Response == [parse : {"all", "brokers", "no"}, brokers : Seq(Broker), topics : Seq(Topic)]

Unanswered == [parse |-> "nil", brokers |-> << >>, topics |-> << >>]   \* a nil slice
Failure    == [parse |-> "error", brokers |-> << >>, topics |-> << >>] \* err # nil

\* parseResponseFrame with ParseMetadataResponseBody, and parseTopicArray on
\* what follows the brokers.
FrameParses(r)  == r.parse \in {"brokers", "all"}
TopicsParse(r)  == r.parse = "all"

\* Every broker keeps its node id and becomes the proxy.
RewriteBrokers(bs) == [i \in DOMAIN bs |-> [node |-> bs[i].node, host |-> "proxy"]]

\* The topics are copied unparsed.
RewriteMetadataResponse(r) ==
    IF FrameParses(r) THEN [r EXCEPT !.brokers = RewriteBrokers(@)] ELSE Failure

\* The second list's entries are appended unless their key has been seen.
AppendNew(key, merged, x) ==
    IF \E i \in DOMAIN merged : merged[i][key] = x[key] THEN merged ELSE Append(merged, x)

MergeBy(key, first, second) ==
    LET merged[n \in 0..Len(second)] ==
            IF n = 0 THEN first ELSE AppendNew(key, merged[n - 1], second[n])
    IN  merged[Len(second)]

\* Mutant: only the primary's brokers are listed.
mergeBrokersPrimary(p, s) == p

mergeBrokers(p, s) == MergeBy("node", p, s)

mergeTopics(p, s) == MergeBy("name", p, s)

buildSyntheticResponse(p, s) ==
    [parse   |-> "all",
     brokers |-> RewriteBrokers(mergeBrokers(p.brokers, s.brokers)),
     topics  |-> mergeTopics(p.topics, s.topics)]

\* A secondary that did not answer, or not in a form that parses, is left out;
\* the same of the primary is an error.
SynthesizeMetadataResponse(p, s) ==
    CASE ~TopicsParse(p) -> Failure
      [] TopicsParse(p) /\ ~TopicsParse(s) -> buildSyntheticResponse(p, Unanswered)
      [] TopicsParse(p) /\ TopicsParse(s)  -> buildSyntheticResponse(p, s)
-----------------------------------------------------------------------------
(* What a client may expect of an answer *)

Nodes(r)  == {r.brokers[i].node : i \in DOMAIN r.brokers}
Topics(r) == {r.topics[i].name : i \in DOMAIN r.topics}

OnlyProxy(r) == \A i \in DOMAIN r.brokers : r.brokers[i].host = "proxy"

\* No node and no topic twice, and every leader is a broker of the answer.
WellFormed(r) ==
    /\ \A i, j \in DOMAIN r.brokers : r.brokers[i].node = r.brokers[j].node => i = j
    /\ \A i, j \in DOMAIN r.topics : r.topics[i].name = r.topics[j].name => i = j
    /\ \A i \in DOMAIN r.topics : r.topics[i].leader \in Nodes(r)
=============================================================================
