--------------------------- MODULE ConnectionPool ---------------------------
(***************************************************************************)
(* The connection pool of one broker (internal/pool/pool.go): a buffered   *)
(* channel of idle connections and a semaphore that bounds the connections *)
(* in existence, used by                                                   *)
(*   - the request handlers (Router.Route: Get ... Put),                   *)
(*   - the health check goroutine ("health": Get, probe, Put or close),    *)
(*   - the idle cleanup goroutine, which drains the channel and sorts what *)
(*     it found while it holds the pool's mutex.                           *)
(* Channels are Go's: a sender hands its value to the longest waiting      *)
(* receiver, and the buffer is only used while nobody waits.               *)
(***************************************************************************)
EXTENDS Naturals, Sequences, FiniteSets

CONSTANTS Clients,   \* request handlers that may use the pool at the same time
          MaxSize    \* max_connections_per_broker, effective

ASSUME SizeAssumption == MaxSize \in Nat \ {0}
ASSUME ClientAssumption == IsFiniteSet(Clients) /\ "health" \notin Clients

VARIABLES
    idle,     \* bp.idle: the buffered idle connections
    sem,      \* bp.sem: the number of slots taken
    waitq,    \* the goroutines blocked in <-bp.idle, longest waiting first
    pc, has,  \* per goroutine: where it stands, the connection it holds
    cpc,      \* the cleanup goroutine; it holds cp.mu unless it sleeps
    batch     \* cleanup: the connections taken out of the channel

vars == <<idle, sem, waitq, pc, has, cpc, batch>>

Goroutine == Clients \cup {"health"}

\* expired: idle beyond the timeout. Whether the broker still answers on it is
\* not kept: the pool never looks at that.
Conn == [expired : BOOLEAN]
NewConn == [expired |-> FALSE]

\* A goroutine that owns a slot: it dials, has a connection, or is about to
\* give the slot of a closed connection back.
SlotPC == {"dial", "using", "discard", "giveup", "release", "put", "send"}
PC == {"rest", "try_idle", "try_slot", "block", "wait"} \cup SlotPC

TypeOK ==
    /\ idle \in Seq(Conn)
    /\ sem \in 0..MaxSize
    /\ waitq \in Seq(Goroutine)
    /\ pc \in [Goroutine -> PC]
    /\ has \in [Goroutine -> Conn]
    /\ cpc \in {"sleep", "drain", "sort"}
    /\ batch \in Seq(Conn)

Init ==
    /\ idle = << >> /\ sem = 0 /\ waitq = << >>
    /\ pc = [g \in Goroutine |-> "rest"]
    /\ has = [g \in Goroutine |-> NewConn]
    /\ cpc = "sleep" /\ batch = << >>

MutexFree == cpc = "sleep"
-----------------------------------------------------------------------------
(***************************************************************************)
(* Get.                                                                    *)
(***************************************************************************)
\* A received connection is used, or closed if it has been idle too long;
\* isAlive looks at nothing else.
ReceivedPC(c) == IF c.expired THEN "discard" ELSE "using"

GetBegin(g) ==
    /\ pc[g] = "rest" /\ MutexFree
    /\ pc' = [pc EXCEPT ![g] = "try_idle"]
    /\ UNCHANGED <<idle, sem, waitq, has, cpc, batch>>

Receive(g) ==
    /\ idle # << >>
    /\ idle' = Tail(idle)
    /\ pc' = [pc EXCEPT ![g] = ReceivedPC(Head(idle))]
    /\ has' = [has EXCEPT ![g] = Head(idle)]
    /\ UNCHANGED <<sem, waitq, cpc, batch>>

TryIdle(g) ==
    /\ pc[g] = "try_idle"
    /\ \/ Receive(g)
       \/ /\ idle = << >>
          /\ pc' = [pc EXCEPT ![g] = "try_slot"]
          /\ UNCHANGED <<idle, sem, waitq, has, cpc, batch>>

\* Mutant: the slot is tested but not taken.
TrySlotUntaken(g) ==
    /\ pc[g] = "try_slot"
    /\ pc' = [pc EXCEPT ![g] = IF sem < MaxSize THEN "dial" ELSE "block"]
    /\ UNCHANGED <<idle, sem, waitq, has, cpc, batch>>

\* Mutant: one slot too many.
TrySlotExtra(g) ==
    /\ pc[g] = "try_slot"
    /\ IF sem <= MaxSize
       THEN sem' = sem + 1 /\ pc' = [pc EXCEPT ![g] = "dial"]
       ELSE pc' = [pc EXCEPT ![g] = "block"] /\ UNCHANGED sem
    /\ UNCHANGED <<idle, waitq, has, cpc, batch>>

TrySlot(g) ==
    /\ pc[g] = "try_slot"
    /\ IF sem < MaxSize
       THEN sem' = sem + 1 /\ pc' = [pc EXCEPT ![g] = "dial"]
       ELSE pc' = [pc EXCEPT ![g] = "block"] /\ UNCHANGED sem
    /\ UNCHANGED <<idle, waitq, has, cpc, batch>>

\* At capacity: receive, or join the receivers that wait.
Block(g) ==
    /\ pc[g] = "block"
    /\ \/ Receive(g)
       \/ /\ idle = << >>
          /\ waitq' = Append(waitq, g)
          /\ pc' = [pc EXCEPT ![g] = "wait"]
          /\ UNCHANGED <<idle, sem, has, cpc, batch>>

Dial(g) ==
    /\ pc[g] = "dial"
    /\ \/ /\ pc' = [pc EXCEPT ![g] = "using"]
          /\ has' = [has EXCEPT ![g] = NewConn]
       \/ pc' = [pc EXCEPT ![g] = "giveup"] /\ UNCHANGED has
    /\ UNCHANGED <<idle, sem, waitq, cpc, batch>>

\* <-bp.sem after a failed dial (Get returns the error) or after closing an
\* expired connection (Get tries again).
FreeSlot(g) ==
    /\ pc[g] \in {"giveup", "discard"}
    /\ sem > 0
    /\ sem' = sem - 1
    /\ pc' = [pc EXCEPT ![g] = IF pc[g] = "giveup" THEN "rest" ELSE "try_idle"]
    /\ has' = [has EXCEPT ![g] = NewConn]
    /\ UNCHANGED <<idle, waitq, cpc, batch>>
-----------------------------------------------------------------------------
(***************************************************************************)
(* The users of a connection.                                              *)
(***************************************************************************)
\* Route puts the connection back whatever happened: also when it closed it
\* itself, or left an answer unread.
RouteEnds(g) ==
    /\ g \in Clients /\ pc[g] = "using"
    /\ pc' = [pc EXCEPT ![g] = "put"]
    /\ has' = [has EXCEPT ![g] = NewConn]
    /\ UNCHANGED <<idle, sem, waitq, cpc, batch>>

\* The probe succeeds and the connection goes back, or it fails and the
\* connection is closed.
ProbePasses ==
    /\ pc["health"] = "using"
    /\ pc' = [pc EXCEPT !["health"] = "put"]
    /\ has' = [has EXCEPT !["health"] = NewConn]
    /\ UNCHANGED <<idle, sem, waitq, cpc, batch>>

ProbeFails ==
    /\ pc["health"] = "using"
    /\ pc' = [pc EXCEPT !["health"] = "release"]
    /\ has' = [has EXCEPT !["health"] = NewConn]
    /\ UNCHANGED <<idle, sem, waitq, cpc, batch>>

\* Mutant: the probe's connection is closed, its slot kept.
ReleaseSemForgotten ==
    /\ pc["health"] = "release" /\ MutexFree
    /\ pc' = [pc EXCEPT !["health"] = "rest"]
    /\ UNCHANGED <<idle, sem, waitq, has, cpc, batch>>

\* Mutant: no continue after a failed probe, so the connection is put back
\* although its slot is free.
ReleaseSemThenPut ==
    /\ pc["health"] = "release" /\ MutexFree
    /\ sem' = IF sem > 0 THEN sem - 1 ELSE sem
    /\ pc' = [pc EXCEPT !["health"] = "put"]
    /\ UNCHANGED <<idle, waitq, has, cpc, batch>>

\* releaseSem: non-blocking, under the mutex.
ReleaseSem ==
    /\ pc["health"] = "release" /\ MutexFree
    /\ sem' = IF sem > 0 THEN sem - 1 ELSE sem
    /\ pc' = [pc EXCEPT !["health"] = "rest"]
    /\ UNCHANGED <<idle, waitq, has, cpc, batch>>

\* Put looks the pool up under the mutex and sends after it let go of it.
PutBegin(g) ==
    /\ pc[g] = "put" /\ MutexFree
    /\ pc' = [pc EXCEPT ![g] = "send"]
    /\ has' = [has EXCEPT ![g].expired = FALSE]
    /\ UNCHANGED <<idle, sem, waitq, cpc, batch>>

\* c is sent on the idle channel, the sender's own state being p and h.
SendOn(c, p, h) ==
    \/ /\ waitq # << >>
       /\ waitq' = Tail(waitq)
       /\ pc' = [p EXCEPT ![Head(waitq)] = ReceivedPC(c)]
       /\ has' = [h EXCEPT ![Head(waitq)] = c]
       /\ UNCHANGED idle
    \/ /\ waitq = << >> /\ Len(idle) < MaxSize
       /\ idle' = Append(idle, c)
       /\ pc' = p /\ has' = h
       /\ UNCHANGED waitq

PutSend(g) ==
    /\ pc[g] = "send"
    /\ SendOn(has[g], [pc EXCEPT ![g] = "rest"], [has EXCEPT ![g] = NewConn])
    /\ UNCHANGED <<sem, cpc, batch>>
-----------------------------------------------------------------------------
(***************************************************************************)
(* The idle cleanup goroutine.                                             *)
(***************************************************************************)
CleanupBegin ==
    /\ cpc = "sleep"
    /\ cpc' = "drain"
    /\ UNCHANGED <<idle, sem, waitq, pc, has, batch>>

\* Mutant: valid connections go back into the channel that is being drained.
CleanupDrainRequeues ==
    /\ cpc = "drain"
    /\ IF idle = << >>
       THEN cpc' = "sort" /\ UNCHANGED <<idle, batch>>
       ELSE IF Head(idle).expired
       THEN batch' = Append(batch, Head(idle)) /\ idle' = Tail(idle) /\ UNCHANGED cpc
       ELSE idle' = Append(Tail(idle), Head(idle)) /\ UNCHANGED <<batch, cpc>>
    /\ UNCHANGED <<sem, waitq, pc, has>>

CleanupDrain ==
    /\ cpc = "drain"
    /\ IF idle # << >>
       THEN /\ batch' = Append(batch, Head(idle))
            /\ idle' = Tail(idle)
            /\ UNCHANGED cpc
       ELSE cpc' = "sort" /\ UNCHANGED <<idle, batch>>
    /\ UNCHANGED <<sem, waitq, pc, has>>

CleanupKeep ==
    /\ cpc = "sort" /\ batch # << >> /\ ~Head(batch).expired
    /\ SendOn(Head(batch), pc, has)
    /\ batch' = Tail(batch)
    /\ UNCHANGED <<sem, cpc>>

CleanupClose ==
    /\ cpc = "sort" /\ batch # << >> /\ Head(batch).expired
    /\ sem > 0
    /\ sem' = sem - 1
    /\ batch' = Tail(batch)
    /\ UNCHANGED <<idle, waitq, pc, has, cpc>>

CleanupEnd ==
    /\ cpc = "sort" /\ batch = << >>
    /\ cpc' = "sleep"
    /\ UNCHANGED <<idle, sem, waitq, pc, has, batch>>

\* An idle connection outlives the timeout.
Ages(i) ==
    /\ ~idle[i].expired
    /\ idle' = [idle EXCEPT ![i].expired = TRUE]
    /\ UNCHANGED <<sem, waitq, pc, has, cpc, batch>>

Step(g) == TryIdle(g) \/ TrySlot(g) \/ Block(g) \/ Dial(g) \/ FreeSlot(g)
           \/ RouteEnds(g) \/ PutSend(g)
Probe == ProbePasses \/ ProbeFails
Cleanup == CleanupDrain \/ CleanupKeep \/ CleanupClose \/ CleanupEnd

Next ==
    \/ \E g \in Goroutine : GetBegin(g) \/ Step(g) \/ PutBegin(g)
    \/ Probe \/ ReleaseSem
    \/ CleanupBegin \/ Cleanup
    \/ \E i \in DOMAIN idle : Ages(i)

\* Goroutines run, both tickers tick, requests end, mutexes are granted. New
\* requests are not promised.
Fairness ==
    /\ \A g \in Goroutine : WF_vars(Step(g)) /\ SF_vars(PutBegin(g))
    /\ SF_vars(GetBegin("health")) /\ WF_vars(Probe) /\ SF_vars(ReleaseSem)
    /\ WF_vars(CleanupBegin) /\ WF_vars(Cleanup)

Spec == Init /\ [][Next]_vars
FairSpec == Spec /\ Fairness
-----------------------------------------------------------------------------
(***************************************************************************)
(* Properties.                                                             *)
(***************************************************************************)
HoldersIn(p) == {g \in Goroutine : p[g] \in SlotPC}
Holders == HoldersIn(pc)

\* Every connection in existence occupies one slot, and no slot is lost: the
\* slots taken are the idle connections, those in the cleanup's hands and
\* those of the goroutines that use, open or close one.
SlotsAccounted == sem = Len(idle) + Len(batch) + Cardinality(Holders)

\* Put never blocks, although it sends on a bounded channel, and neither does
\* the cleanup, which does so with the mutex held; giving a slot back never
\* blocks either.
NeverStuck ==
    /\ (\E g \in Goroutine : pc[g] = "send") => Len(idle) < MaxSize
    /\ (\E g \in Goroutine : pc[g] \in {"giveup", "discard", "release"}) => sem > 0
    /\ batch # << >> => Len(idle) < MaxSize /\ sem > 0

\* The cleanup always gives the mutex back, and so every Put gets through.
PutReturns == \A g \in Goroutine : pc[g] = "put" ~> pc[g] = "rest"

\* A Get that waits for a connection eventually returns.
GetReturns == \A g \in Clients : pc[g] = "wait" ~> pc[g] # "wait"

\* What the pool promises its users: the connections lent, opened or closed by
\* a goroutine, and the spare ones, in the channel or in the cleanup's hands.
Lends == INSTANCE BoundedPool WITH Users <- Goroutine, lent <- Holders,
                                   spare <- Len(idle) + Len(batch)

\* The pool with its channel, semaphore and goroutines implements the bounded
\* pool: no step, the cleanup's and the hand-over to a waiting Get included,
\* makes a connection appear, disappear or serve two goroutines.
ImplementsBoundedPool == Lends!Spec

\* The goroutines in the channel's queue are those that wait, once each.
QueueOK ==
    /\ \A i \in 1..Len(waitq) : pc[waitq[i]] = "wait"
    /\ \A i, j \in 1..Len(waitq) : waitq[i] = waitq[j] => i = j

IInv == TypeOK /\ SlotsAccounted /\ QueueOK
=============================================================================
