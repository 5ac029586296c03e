--------------------------- MODULE SubscriptionStore ---------------------------
(***************************************************************************)
(* What the BMCs see of the subscription manager: stores of subscriptions  *)
(* to which the collector adds only what it makes, in which it mends only  *)
(* what is addressed to itself for this endpoint, and from which it takes  *)
(* away only that and what is stale.  There are no records, goroutines or  *)
(* lists of ids that may be out of date: whatever is changed is looked at  *)
(* in the moment of the change.                                            *)
(***************************************************************************)
EXTENDS Naturals, FiniteSets

CONSTANTS
  Endpoints, SubIds, NoSub,
  Stores,      \* stores a BMC may start or come back with
  Foreign,     \* what other services subscribe
  Made,        \* Made[e]: the subscriptions the collector makes
  Addressed,   \* Addressed[e]: those with a destination of the collector
               \* for this endpoint, whatever their context
  Stale        \* Stale[e]: those that hardware brought from another slot

VARIABLE subs  \* the store of every BMC

Init == subs \in [Endpoints -> Stores]

Free(e) == {i \in SubIds : subs[e][i] = NoSub}

\* A POST that was sent again because its answer was lost makes two.
Subscribe(e) ==
  \E s \in Made[e], i, j \in Free(e) :
    subs' = [subs EXCEPT ![e][i] = s, ![e][j] = s]

Mend(e, i) ==
  /\ subs[e][i] \in Addressed[e]
  /\ subs' = [subs EXCEPT ![e][i].ctx = e]

Remove(e, i) ==
  /\ subs[e][i] \in Addressed[e] \cup Stale[e]
  /\ subs' = [subs EXCEPT ![e][i] = NoSub]

\* not the collector's doing
Replace(e) == \E s \in Stores : subs' = [subs EXCEPT ![e] = s]
ForeignSubscribe(e) ==
  \E i \in Free(e), s \in Foreign : subs' = [subs EXCEPT ![e][i] = s]

Next ==
  \E e \in Endpoints :
    \/ Subscribe(e)
    \/ \E i \in SubIds : Mend(e, i) \/ Remove(e, i)
    \/ Replace(e) \/ ForeignSubscribe(e)

Spec == Init /\ [][Next]_subs
================================================================================
