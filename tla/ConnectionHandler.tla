------------------------- MODULE ConnectionHandler -------------------------
(***************************************************************************)
(* The life of one client connection: handleConnection and its Metadata    *)
(* interception (proxy/connection.go), the SASL exchange (routing/sasl.go) *)
(* and Route (routing/data.go) for a first frame that is a Produce or a    *)
(* Fetch. Client, brokers and network do what they like; in particular     *)
(* they may fall silent: the code sets no deadline on either connection.   *)
(*                                                                         *)
(* Which cluster is chosen is the matter of DRRouting and LoadBalance,     *)
(* whether a leader is known that of LeaderCache, which connection the     *)
(* pool hands out that of ConnectionPool: here each may turn out any way.  *)
(*                                                                         *)
(* Nothing in the program recovers from a panic: where the handler panics, *)
(* the process ends (pc = "crashed"), and every other connection with it.  *)
(***************************************************************************)
EXTENDS DRStates, MetadataMerge

CONSTANTS
    Modes,       \* the modes the BU may be configured for
    Responses,   \* per cluster: the Metadata responses it may give
    MaxRounds    \* bound on the SASL round trips

Mode == {"active_passive", "load_balance", "single"}
ASSUME HandlerModes == Modes \subseteq Mode
ASSUME HandlerBounds == MaxRounds \in Nat
ASSUME ResponsesTyped == \A c \in Cluster : Responses[c] \subseteq Response

\* First frames and SASL frames, by what the code tells apart; "produce" is a
\* Produce or a Fetch; "bad" is a size out of range, of a Produce or a Fetch also
\* a header or a body that does not parse. "long_id" is a Metadata request whose
\* client id is longer than its size says, "empty_produce" a Produce of version
\* 3 or later with a body of less than two bytes.
SaslFrame     == {"handshake", "authenticate"}
MetadataFrame == {"metadata", "long_id"}
RoutedFrame   == {"produce", "bad_produce", "empty_produce"}
Frame == SaslFrame \cup MetadataFrame \cup RoutedFrame
         \cup {"bad_sasl", "bad_metadata", "other"}

VARIABLES
    pc,        \* where the handler stands
    mode,      \* of the BU when the connection was accepted
    target,    \* targetCluster
    client,    \* the client's connection: gone = closed by the client or by a drain
    reg,       \* registered with the DrainManager
    up,        \* the connection to the bootstrap address
    rounds,    \* SASL round trips so far
    frame,     \* the frame read last
    bodyRead,  \* its body has been taken off the client's connection
    sent,      \* what the bootstrap connection has got of the first frame
    unread,    \* it still holds the body of a response that was refused
    fwd,       \* per cluster: the response to a forwarded Metadata request
    lease,     \* Route: the connection from the pool
    answer,    \* what the client is sent for its first frame
    copy       \* per direction: the copy goroutine

io   == <<client, up, lease>>
meta == <<bodyRead, fwd>>
vars == <<pc, mode, target, io, reg, rounds, frame, meta, sent, unread, answer, copy>>

NoAnswer == [kind |-> "none", resp |-> Unanswered]
Pending  == [parse |-> "pending", brokers |-> << >>, topics |-> << >>]

Direction == {"out", "in"}   \* client to upstream, upstream to client
Idle      == [d \in Direction |-> "none"]

Goto(p) == pc' = p
-----------------------------------------------------------------------------
(* Accept, register, dial *)

\* selectLoadBalanceTarget or upstreamTarget, by mode.
TargetsOf(m) == IF m = "single" THEN {"primary"} ELSE Cluster

Accept(m) ==
    /\ pc = "start"
    /\ mode' = m
    /\ target' \in TargetsOf(m)
    /\ Goto("register")
    /\ UNCHANGED <<io, reg, rounds, frame, meta, sent, unread, answer, copy>>

Register ==
    /\ pc = "register"
    /\ reg' = TRUE
    /\ Goto("dial")
    /\ UNCHANGED <<mode, target, io, rounds, frame, meta, sent, unread, answer, copy>>

\* The outcome is reported to the legacy rebalancer (see LegacyRebalancer).
dialUpstream ==
    /\ pc = "dial"
    /\ \/ up' = "open" /\ Goto("first")
       \/ Goto("return") /\ UNCHANGED up
    /\ UNCHANGED <<mode, target, client, reg, lease, rounds, frame, meta, sent, unread, answer, copy>>
-----------------------------------------------------------------------------
(* HandleSASLExchange *)

\* A SASL frame is forwarded, anything else ends the exchange: its header, up
\* to the client id, has been read.
ReadFrame(k) ==
    /\ pc = "first" /\ client = "open"
    /\ k \in SaslFrame => rounds < MaxRounds
    /\ frame' = k
    /\ Goto(CASE k \in SaslFrame -> "sasl"
              [] k = "bad_sasl"  -> "return"
              [] OTHER           -> "decide")
    /\ UNCHANGED <<mode, target, io, reg, rounds, meta, sent, unread, answer, copy>>

ReadFrameFails ==
    /\ pc = "first" /\ client = "gone"
    /\ Goto("return")
    /\ UNCHANGED <<mode, target, io, reg, rounds, frame, meta, sent, unread, answer, copy>>

\* The frame is written upstream and the response passed on, whatever its error
\* code; a broken connection or an impossible size ends the handler.
SaslResponse ==
    /\ pc = "sasl"
    /\ \/ up = "open" /\ Goto("first")
       \/ Goto("return")
    /\ rounds' = rounds + 1
    /\ UNCHANGED <<mode, target, io, reg, frame, meta, sent, unread, answer, copy>>
-----------------------------------------------------------------------------
(* The first frame after SASL *)

Decide ==
    /\ pc = "decide"
    /\ Goto(CASE frame = "bad_metadata" -> "return"
              [] frame \in MetadataFrame /\ mode # "single" -> "body"
              [] frame \in RoutedFrame -> "route_read"
              [] OTHER -> "forward")
    /\ up' = IF frame \in RoutedFrame THEN "closed" ELSE up
    /\ UNCHANGED <<mode, target, client, lease, reg, rounds, frame, meta, sent, unread, answer, copy>>

\* Both interceptions read the rest of the request first. They allocate what
\* the size leaves for it: a negative length, if the client id was longer.
ReadBody ==
    /\ pc = "body" /\ frame = "metadata"
    /\ bodyRead' = TRUE
    /\ IF client = "gone" THEN Goto("forward") /\ UNCHANGED fwd
       ELSE IF mode = "active_passive" THEN Goto("ap_write") /\ UNCHANGED fwd
       ELSE Goto("lb_wait") /\ fwd' = [c \in Cluster |-> Pending]
    /\ UNCHANGED <<mode, target, io, reg, rounds, frame, sent, unread, answer, copy>>

ReadBodyPanics ==
    /\ pc = "body" /\ frame = "long_id"
    /\ Goto("crashed")
    /\ UNCHANGED <<mode, target, io, reg, rounds, frame, meta, sent, unread, answer, copy>>

\* handleMetadataActivePassive: forward, wait, rewrite. A response that cannot
\* be rewritten is sent as it is.
ApWrite ==
    /\ pc = "ap_write"
    /\ IF up = "open" THEN Goto("ap_wait") /\ sent' = "whole"
                      ELSE Goto("forward") /\ UNCHANGED sent
    /\ UNCHANGED <<mode, target, io, reg, rounds, frame, meta, unread, answer, copy>>

handleMetadataActivePassive(r) ==
    LET rewritten == RewriteMetadataResponse(r)
    IN
    /\ pc = "ap_wait" /\ up = "open"
    /\ answer' = IF rewritten = Failure THEN [kind |-> "raw", resp |-> r]
                                        ELSE [kind |-> "rewritten", resp |-> rewritten]
    /\ Goto("reply")
    /\ UNCHANGED <<mode, target, io, reg, rounds, frame, meta, sent, unread, copy>>

\* The connection breaks.
ApFails ==
    /\ pc = "ap_wait" /\ up # "open"
    /\ Goto("forward")
    /\ UNCHANGED <<mode, target, io, reg, rounds, frame, meta, sent, unread, answer, copy>>

\* The response's size is out of range: its body stays where it is.
ApRefuses ==
    /\ pc = "ap_wait" /\ up = "open"
    /\ unread' = TRUE
    /\ Goto("forward")
    /\ UNCHANGED <<mode, target, io, reg, rounds, frame, meta, sent, answer, copy>>

\* Mutant: the two channels are mixed up.
forwardMetadataRequestSwapped(c, r) ==
    /\ pc = "lb_wait" /\ fwd[Opposite(c)] = Pending
    /\ fwd' = [fwd EXCEPT ![Opposite(c)] = r]
    /\ UNCHANGED <<pc, mode, target, io, reg, rounds, frame, bodyRead, sent, unread, answer, copy>>

\* handleMetadataLoadBalance: both clusters are asked concurrently, each over a
\* connection of its own with a deadline.
forwardMetadataRequest(c, r) ==
    /\ pc = "lb_wait" /\ fwd[c] = Pending
    /\ fwd' = [fwd EXCEPT ![c] = r]
    /\ UNCHANGED <<pc, mode, target, io, reg, rounds, frame, bodyRead, sent, unread, answer, copy>>

\* What the client is sent: the merge, or else the response there is, the
\* primary's preferred, as it came.
LoadBalanceAnswer(p, s) ==
    LET merged == SynthesizeMetadataResponse(p, s)
    IN  CASE merged # Failure -> [kind |-> "synthetic", resp |-> merged]
          [] merged = Failure /\ p # Unanswered -> [kind |-> "raw", resp |-> p]
          [] merged = Failure /\ p = Unanswered -> [kind |-> "raw", resp |-> s]

handleMetadataLoadBalance ==
    /\ pc = "lb_wait"
    /\ \A c \in Cluster : fwd[c] # Pending
    /\ IF \A c \in Cluster : fwd[c] = Unanswered
       THEN Goto("forward") /\ UNCHANGED answer
       ELSE /\ answer' = LoadBalanceAnswer(fwd["primary"], fwd["secondary"])
            /\ Goto("reply")
    /\ UNCHANGED <<mode, target, io, reg, rounds, frame, meta, sent, unread, copy>>

StartCopying == copy' = [d \in Direction |-> "read"]

\* The answer is written to the client; an error is not looked at.
Reply ==
    /\ pc = "reply"
    /\ Goto("pass") /\ StartCopying
    /\ UNCHANGED <<mode, target, io, reg, rounds, frame, meta, sent, unread, answer>>

\* Mutant: the bytes already read are not written upstream.
ForwardDropped ==
    /\ pc = "forward"
    /\ Goto("pass") /\ StartCopying
    /\ UNCHANGED <<mode, target, io, reg, rounds, frame, meta, sent, unread, answer>>

\* Not intercepted, or the interception failed: the header goes upstream. The
\* body follows from the client unless an interception has taken it.
Forward ==
    /\ pc = "forward"
    /\ sent' = CASE up # "open" -> sent
                 [] up = "open" /\ ~bodyRead -> "header"
                 [] up = "open" /\ bodyRead  -> IF sent = "whole" THEN "again" ELSE "half"
    /\ Goto("pass") /\ StartCopying
    /\ UNCHANGED <<mode, target, io, reg, rounds, frame, meta, unread, answer>>
-----------------------------------------------------------------------------
(* Route *)

\* The first topic and partition are found.
ParseRequestBody(k) == k = "produce"

\* The frame is read and parsed, and the upstream address found.
RouteRead ==
    /\ pc = "route_read"
    /\ frame = "empty_produce" => client # "open"
    /\ Goto(IF client = "open" /\ ParseRequestBody(frame) THEN "route_get" ELSE "return")
    /\ UNCHANGED <<mode, target, io, reg, rounds, frame, meta, sent, unread, answer, copy>>

\* parseProduceBody takes the length of the transactional id unchecked.
RouteReadPanics ==
    /\ pc = "route_read" /\ client = "open" /\ frame = "empty_produce"
    /\ Goto("crashed")
    /\ UNCHANGED <<mode, target, io, reg, rounds, frame, meta, sent, unread, answer, copy>>

\* The pool dials, fails to dial, or hands out a connection of earlier use,
\* which may be broken.
PoolGet ==
    /\ pc = "route_get"
    /\ \/ lease' \in {"open", "broken"} /\ Goto("route_write")
       \/ Goto("return") /\ UNCHANGED lease
    /\ UNCHANGED <<mode, target, client, up, reg, rounds, frame, meta, sent, unread, answer, copy>>

RouteWrite ==
    /\ pc = "route_write"
    /\ Goto(IF lease = "open" THEN "route_wait" ELSE "return")
    /\ UNCHANGED <<mode, target, io, reg, rounds, frame, meta, sent, unread, answer, copy>>

\* The response begins, with whatever the connection delivers, and is streamed
\* to the client, or has an impossible size.
RouteResponse ==
    /\ pc = "route_wait" /\ lease = "open"
    /\ \/ /\ answer' = [NoAnswer EXCEPT !.kind = "partial"]
          /\ Goto("route_reply")
       \/ Goto("return") /\ UNCHANGED answer
    /\ UNCHANGED <<mode, target, io, reg, rounds, frame, meta, sent, unread, copy>>

RouteStream ==
    /\ pc = "route_reply" /\ lease = "open" /\ client = "open"
    /\ answer' = [NoAnswer EXCEPT !.kind = "plain"]
    /\ Goto("pass") /\ StartCopying
    /\ UNCHANGED <<mode, target, io, reg, rounds, frame, meta, sent, unread>>

\* Either side breaks while Route waits or streams.
RouteFails ==
    /\ \/ pc = "route_wait" /\ lease # "open"
       \/ pc = "route_reply" /\ (lease # "open" \/ client # "open")
    /\ Goto("return")
    /\ UNCHANGED <<mode, target, io, reg, rounds, frame, meta, sent, unread, answer, copy>>
-----------------------------------------------------------------------------
(* Passthrough and return *)

Upstream == IF lease # "none" THEN lease ELSE up

Source(d) == IF d = "out" THEN client ELSE Upstream
Sink(d)   == IF d = "out" THEN Upstream ELSE client

\* io.Copy in each direction: a read, a write, a read... The upstream has
\* something to send once it has a complete request, or if it still holds a
\* refused response.
CopyReads(d) ==
    /\ copy[d] = "read" /\ Source(d) = "open"
    /\ d = "in" => sent = "whole" \/ unread \/ answer # NoAnswer
    /\ copy' = [copy EXCEPT ![d] = "write"]
    /\ UNCHANGED <<pc, mode, target, io, reg, rounds, frame, meta, sent, unread, answer>>

\* What a write does to the first frame and its answer. The first bytes out
\* complete a frame of which the header has been forwarded. The first bytes in
\* are the refused body, without its size, if there is one, else the answer;
\* nobody looks into either. (r: a Metadata response)
FirstOut == sent' = IF sent = "header" THEN "whole" ELSE sent
FirstIn(r) ==
    answer' = CASE answer # NoAnswer                     -> answer
                [] answer = NoAnswer /\ unread           -> [kind |-> "stray", resp |-> r]
                [] answer = NoAnswer /\ ~unread          ->
                     IF frame \in MetadataFrame THEN [kind |-> "raw", resp |-> r]
                                                ELSE [NoAnswer EXCEPT !.kind = "plain"]

CopyWrites(d, r) ==
    /\ copy[d] = "write" /\ Sink(d) = "open"
    /\ copy' = [copy EXCEPT ![d] = "read"]
    /\ IF d = "out" THEN FirstOut /\ UNCHANGED answer
                    ELSE FirstIn(r) /\ UNCHANGED sent
    /\ UNCHANGED <<pc, mode, target, io, reg, rounds, frame, meta, unread>>

\* A copy ends at the end of its source, or when a write fails.
CopyEnds(d) ==
    /\ \/ copy[d] = "read"  /\ Source(d) # "open"
       \/ copy[d] = "write" /\ Sink(d) # "open"
    /\ copy' = [copy EXCEPT ![d] = "ended"]
    /\ UNCHANGED <<pc, mode, target, io, reg, rounds, frame, meta, sent, unread, answer>>

CloseUpstream ==
    IF lease # "none" THEN lease' = "closed" /\ UNCHANGED up
                      ELSE up' = "closed" /\ UNCHANGED lease

\* Mutant: the handler waits for both directions before it closes.
PassthroughEndsBoth ==
    /\ pc = "pass" /\ \A d \in Direction : copy[d] = "ended"
    /\ CloseUpstream
    /\ client' = "closed"
    /\ Goto("return")
    /\ UNCHANGED <<mode, target, reg, rounds, frame, meta, sent, unread, answer, copy>>

\* The first direction to end closes both sides.
PassthroughEnds ==
    /\ pc = "pass" /\ \E d \in Direction : copy[d] = "ended"
    /\ CloseUpstream
    /\ client' = "closed"
    /\ Goto("return")
    /\ UNCHANGED <<mode, target, reg, rounds, frame, meta, sent, unread, answer, copy>>

\* The deferred calls: Put, Close, Unregister, Close.
Returns ==
    /\ pc = "return"
    /\ lease' = IF lease = "none" THEN lease ELSE "returned"
    /\ up' = IF up = "none" THEN up ELSE "closed"
    /\ reg' = FALSE
    /\ client' = "closed"
    /\ Goto("done")
    /\ UNCHANGED <<mode, target, rounds, frame, meta, sent, unread, answer, copy>>
-----------------------------------------------------------------------------
(* The world *)

ClientGone ==
    /\ client = "open" /\ pc \notin {"start", "crashed"}
    /\ client' = "gone"
    /\ UNCHANGED <<pc, mode, target, up, lease, reg, rounds, frame, meta, sent, unread, answer, copy>>

UpstreamBreaks ==
    /\ Upstream = "open" /\ pc # "crashed"
    /\ IF lease # "none" THEN lease' = "broken" /\ UNCHANGED up
                         ELSE up' = "broken" /\ UNCHANGED lease
    /\ UNCHANGED <<pc, mode, target, client, reg, rounds, frame, meta, sent, unread, answer, copy>>

Init ==
    /\ pc = "start"
    /\ mode \in Modes
    /\ target = "primary"
    /\ client = "open" /\ reg = FALSE
    /\ up = "none" /\ lease = "none"
    /\ rounds = 0 /\ frame = "other" /\ bodyRead = FALSE
    /\ sent = "nothing" /\ unread = FALSE
    /\ fwd = [c \in Cluster |-> Unanswered]
    /\ answer = NoAnswer
    /\ copy = Idle

Connect == Register \/ dialUpstream
Sasl == ReadFrameFails \/ SaslResponse
Metadata == ReadBody \/ ReadBodyPanics \/ Reply
ActivePassive == \/ ApWrite \/ ApFails \/ ApRefuses
                 \/ \E r \in Responses[target] : handleMetadataActivePassive(r)
LoadBalance == \/ handleMetadataLoadBalance
               \/ \E c \in Cluster : \E r \in Responses[c] \cup {Unanswered} : forwardMetadataRequest(c, r)
Route == RouteRead \/ RouteReadPanics \/ PoolGet \/ RouteWrite \/ RouteResponse \/ RouteStream
         \/ RouteFails
Copy == \E d \in Direction : CopyReads(d) \/ \E r \in Responses[target] : CopyWrites(d, r)

Handler == Connect \/ Sasl \/ Decide \/ Metadata \/ ActivePassive \/ LoadBalance
           \/ Forward \/ Route \/ PassthroughEnds \/ Returns

Next ==
    \/ \E m \in Modes : Accept(m)
    \/ \E k \in Frame : ReadFrame(k)
    \/ Handler
    \/ Copy
    \/ \E d \in Direction : CopyEnds(d)
    \/ ClientGone \/ UpstreamBreaks

Spec == Init /\ [][Next]_vars

\* The handler is in a call that returns only if somebody else acts: a read or
\* a write on a connection that is open, or Get at a full pool. Dials, and the
\* requests to both clusters in load_balance, have deadlines.
Blocked ==
    CASE pc \in {"first", "route_read", "reply"}                             -> client = "open"
      [] pc = "body"                                                         -> client = "open" /\ frame = "metadata"
      [] pc \in {"ap_write", "ap_wait", "forward", "route_write", "route_wait"} -> Upstream = "open"
      [] pc \in {"sasl", "route_reply"}                                      -> client = "open" \/ Upstream = "open"
      [] pc = "route_get"                                                    -> TRUE
      [] OTHER                                                               -> FALSE

\* Goroutines run: the handler takes a step it is not blocked in, and a copy
\* ends whose connection has ended. Nothing is assumed of clients, brokers and
\* the pool.
Fairness == WF_vars(~Blocked /\ Handler) /\ \A d \in Direction : WF_vars(CopyEnds(d))
FairSpec == Spec /\ Fairness
-----------------------------------------------------------------------------
(* Properties *)

\* Types; the response kept for a cluster is one that this cluster gave.
TypeOK ==
    /\ pc \in {"start", "register", "dial", "first", "sasl", "decide", "body", "ap_write", "ap_wait",
               "lb_wait", "reply", "forward", "route_read", "route_get", "route_write", "route_wait",
               "route_reply", "pass", "return", "done", "crashed"}
    /\ mode \in Modes /\ target \in Cluster
    /\ client \in {"open", "gone", "closed"} /\ reg \in BOOLEAN
    /\ up \in {"none", "open", "broken", "closed"}
    /\ lease \in {"none", "open", "broken", "closed", "returned"}
    /\ rounds \in 0..MaxRounds /\ frame \in Frame /\ bodyRead \in BOOLEAN
    /\ sent \in {"nothing", "header", "whole", "half", "again"} /\ unread \in BOOLEAN
    /\ \A c \in Cluster : fwd[c] \in Responses[c] \cup {Unanswered, Pending}
    /\ answer.kind \in {"none", "plain", "partial", "raw", "rewritten", "synthetic", "stray"}
    /\ copy \in [Direction -> {"none", "read", "write", "ended"}]

\* A merged answer can be used: nothing is listed twice, every leader is listed,
\* and every broker has the proxy's address. It holds the topics of every
\* cluster that answered, the primary's version of those both have.
MergeFaithful ==
    LET p == fwd["primary"]
        s == fwd["secondary"]
        used == {r \in {p, s} : TopicsParse(r)}
        Has(r, t) == \E i \in DOMAIN r.topics : r.topics[i] = t
    IN  answer.kind = "synthetic" =>
            /\ WellFormed(answer.resp) /\ OnlyProxy(answer.resp)
            /\ Topics(answer.resp) = UNION {Topics(r) : r \in used}
            /\ Nodes(answer.resp) = UNION {Nodes(r) : r \in used}
            /\ \A i \in DOMAIN p.topics : Has(answer.resp, p.topics[i])

\* Nothing is left of a connection.
Released == /\ pc = "done" /\ ~reg
            /\ \A d \in Direction : copy[d] \in {"none", "ended"}
            /\ up \in {"none", "closed"} /\ lease \in {"none", "returned"}

\* The handler, or a copy it depends on, sits in a call on a peer.
Stuck == \/ Blocked
         \/ pc = "pass" /\ \E d \in Direction : copy[d] = "write" /\ Sink(d) = "open"

\* Once the client is gone, or its connection has been force-closed by a drain,
\* everything is given back: both connections, the pool's, the registration and
\* the copy goroutines. Only a broker that keeps its connection open in
\* silence, or a pool that has no connection to give, can hold that up, and
\* then for as long as it lasts: the code has no deadline there.
HandlerEnds ==
    client = "gone" ~> (Released \/ pc = "crashed" \/ []Stuck)

\* A first frame is answered or the connection closed. The ways out of that are
\* a peer or the pool that holds the handler up for ever, a panic, and an
\* interception that fails after taking the body: the bootstrap connection is
\* left with a header that nothing follows.
Answered == answer.kind \in {"plain", "raw", "rewritten", "synthetic"}
Awaiting == pc = "pass" /\ client = "open" /\ up = "open" /\ sent \in {"header", "whole"}
AnsweredOrClosed ==
    pc = "decide" ~> \/ Answered \/ pc \in {"done", "crashed"}
                     \/ sent \in {"half", "again"}
                     \/ [](Stuck \/ Awaiting)
-----------------------------------------------------------------------------
(***************************************************************************)
(* The inductive invariant of ConnectionHandler_proofs.                    *)
(***************************************************************************)
\* A merge is answered from the responses that are in; while they come in the
\* client has not been sent anything, and nothing is being copied to it.
Quiet ==
    /\ pc \in {"start", "register", "dial", "first", "sasl", "decide", "body", "lb_wait"}
          => answer = NoAnswer /\ copy = Idle
    /\ pc = "sasl" => rounds < MaxRounds
    /\ fwd = [c \in Cluster |-> fwd[c]]

HInv == TypeOK /\ Quiet

\* What the clusters promise of a response that parses.
ClustersWellFormed == \A c \in Cluster : \A r \in Responses[c] : TopicsParse(r) => WellFormed(r)
=============================================================================
