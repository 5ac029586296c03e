----------------------------- MODULE EventDelivery -----------------------------
(***************************************************************************)
(* What the ingress of hmcollector promises a BMC and the brokers, without *)
(* producers, goroutines and walks over lists: every request owes every    *)
(* broker a set of messages, which are handed over in the order of their   *)
(* numbers, one at a time, and each at most once.  A message of a request  *)
(* that readiness covers is lost only if that broker refuses it, and such  *)
(* a request ends when nothing is owed any more.  Every request ends.      *)
(***************************************************************************)
EXTENDS Naturals, Sequences

CONSTANTS
  Requests, Brokers,
  Demands,    \* Demands[r]: what the request may owe, [Brokers -> messages]
  Refusals    \* whether brokers may refuse messages

VARIABLES
  state,      \* of every request: "none", "open" or "ended"
  covered,    \* readiness had been reported when it came
  owed,       \* what is still owed, by request and broker
  log         \* what every broker has been given

vars == <<state, covered, owed, log>>

Nothing == [b \in Brokers |-> {}]

Init ==
  /\ state = [r \in Requests |-> "none"]
  /\ covered = [r \in Requests |-> FALSE]
  /\ owed = [r \in Requests |-> Nothing]
  /\ log = [b \in Brokers |-> <<>>]

\* a request comes, and is refused or accepted
Submit(r) ==
  /\ state[r] = "none"
  /\ \/ state' = [state EXCEPT ![r] = "ended"] /\ UNCHANGED owed
     \/ /\ state' = [state EXCEPT ![r] = "open"]
        /\ \E d \in Demands[r] : owed' = [owed EXCEPT ![r] = d]
  /\ \E c \in BOOLEAN : covered' = [covered EXCEPT ![r] = c]
  /\ UNCHANGED log

IsFirst(m, ms) == m \in ms /\ \A n \in ms : m.ev <= n.ev

\* the next message owed to one broker
Deliver(r, b) ==
  /\ state[r] = "open"
  /\ \E m \in owed[r][b] :
       /\ IsFirst(m, owed[r][b])
       /\ log' = [log EXCEPT ![b] = Append(@, m)]
       /\ owed' = [owed EXCEPT ![r][b] = @ \ {m}]
  /\ UNCHANGED <<state, covered>>

\* a message is not given to some of the brokers it is owed to
Lose(r, B) ==
  /\ state[r] = "open"
  /\ covered[r] => Refusals /\ \E b \in Brokers : B = {b}
  /\ \E n \in {m.ev : m \in UNION {owed[r][b] : b \in B}} :
       /\ \A b \in B : \E m \in owed[r][b] : m.ev = n /\ IsFirst(m, owed[r][b])
       /\ owed' = [owed EXCEPT ![r] =
                     [b \in Brokers |-> IF b \in B THEN {m \in @[b] : m.ev # n}
                                        ELSE @[b]]]
  /\ UNCHANGED <<state, covered, log>>

End(r) ==
  /\ state[r] = "open"
  /\ covered[r] => owed[r] = Nothing
  /\ state' = [state EXCEPT ![r] = "ended"]
  /\ owed' = [owed EXCEPT ![r] = Nothing]
  /\ UNCHANGED <<covered, log>>

Serve(r) ==
  \/ \E b \in Brokers : Deliver(r, b)
  \/ \E B \in SUBSET Brokers : Lose(r, B)
  \/ End(r)

Next == \E r \in Requests : Submit(r) \/ Serve(r)

Spec == Init /\ [][Next]_vars

\* what is accepted is not left hanging
Ends == \A r \in Requests : (state[r] = "open") ~> (state[r] = "ended")
================================================================================
