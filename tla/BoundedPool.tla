---------------------------- MODULE BoundedPool ----------------------------
(***************************************************************************)
(* What a connection pool promises, without channels, locks and goroutines:*)
(* at most MaxSize connections exist; a user gets one that is spare, a new *)
(* one while there is room, or the one another user gives up.              *)
(***************************************************************************)
EXTENDS Naturals, FiniteSets

CONSTANTS Users, MaxSize

VARIABLES lent,    \* the users that have a connection
          spare    \* the number of connections nobody has

Init == lent = {} /\ spare = 0

Open(u) ==
    /\ u \notin lent
    /\ Cardinality(lent) + spare < MaxSize
    /\ lent' = lent \cup {u}
    /\ UNCHANGED spare

Take(u) ==
    /\ u \notin lent /\ spare > 0
    /\ lent' = lent \cup {u}
    /\ spare' = spare - 1

GiveBack(u) ==
    /\ u \in lent
    /\ lent' = lent \ {u}
    /\ spare' = spare + 1

HandOver(u, v) ==
    /\ u \in lent /\ v \notin lent
    /\ lent' = (lent \ {u}) \cup {v}
    /\ UNCHANGED spare

\* A connection is closed, a lent one by its user, a spare one by the pool.
CloseLent(u) ==
    /\ u \in lent
    /\ lent' = lent \ {u}
    /\ UNCHANGED spare

CloseSpare ==
    /\ spare > 0
    /\ spare' = spare - 1
    /\ UNCHANGED lent

Next ==
    \/ \E u \in Users : Open(u) \/ Take(u) \/ GiveBack(u) \/ CloseLent(u)
    \/ \E u, v \in Users : HandOver(u, v)
    \/ CloseSpare

Spec == Init /\ [][Next]_<<lent, spare>>
=============================================================================
