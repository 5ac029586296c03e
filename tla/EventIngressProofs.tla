-------------------------- MODULE EventIngressProofs --------------------------
(***************************************************************************)
(* Theorems about EventIngress, for every number of brokers, every set of  *)
(* requests and every body they may have.                                  *)
(***************************************************************************)
EXTENDS EventIngress, TLAPS

(***************************************************************************)
(* The inductive invariant.                                                *)
(***************************************************************************)
\* readiness, and a request that came after it, find all producers made
ConnInv ==
  /\ ready => loaded /\ nconn = NBrokers
  /\ \A r \in Requests : probed[r] => ready

Accepted(r) == pc[r] \in {"event", "write", "200", "aborted"}

\* where a request is in its body, and what its walk over the brokers covers
ReqAt(r) ==
  /\ ~Accepted(r) => ev[r] = 0
  /\ Accepted(r) => /\ body[r] \in Bodies[r] /\ ~Malformed(body[r])
                    /\ ev[r] <= Len(body[r].events)
  /\ pc[r] = "200" => ev[r] = Len(body[r].events)
  /\ pc[r] = "write" => ev[r] >= 1
  /\ pc[r] = "write" /\ probed[r] => last[r] = NBrokers
ReqInv == \A r \in Requests : ReqAt(r)

\* what a broker has was meant for it, and the request has passed it
LogInv ==
  \A b \in Brokers : \A k \in DOMAIN log[b] :
    LET m == log[b][k] IN
    /\ Accepted(m.req)
    /\ m.ev \in Wanted(body[m.req], b)
    /\ m = Meant(m.req, body[m.req], m.ev)
    /\ m.ev <= ev[m.req]
    /\ pc[m.req] = "write" /\ m.ev = ev[m.req] => b < broker[m.req]

\* event i of request r is behind the walk at broker b
Behind(r, b, i) ==
  i < ev[r] \/ (i = ev[r] /\ (pc[r] = "write" => b < broker[r]))

\* a covered request has left nothing out that it is past
DoneAt(r) ==
  probed[r] /\ ~refused[r] /\ pc[r] \in {"event", "write", "200"} =>
    \A b \in Brokers : \A i \in Wanted(body[r], b) :
      Behind(r, b, i) =>
        \E k \in DOMAIN log[b] : log[b][k] = Meant(r, body[r], i)
DoneInv == \A r \in Requests : DoneAt(r)

IInv == TypeOK /\ ConnInv /\ ReqInv /\ LogInv /\ InOrder /\ DoneInv

(***************************************************************************)
(* The operators.                                                          *)
(***************************************************************************)
LEMMA SomeBrokers == NBrokers \in Nat \ {0}
  BY IngressAssumption

\* The topic of an event depends on its registry and sensor alone.
LEMMA TopicOf ==
  ASSUME NEW e \in PostedEvent
  PROVE  /\ RestTopic(e) \in Topic \cup {NoTopic}
         /\ RestTopic(unmarshalEvent(e)) = RestTopic(e)
  <1> DEFINE x == [registry |-> e.registry, sensor |-> e.sensor, oem |-> e.oem]
             u == unmarshalEvent(e)
  <1>1. x \in Event /\ x.registry = e.registry /\ x.sensor = e.sensor
    BY DEF Event, PostedEvent
  <1>2. u.registry = e.registry /\ u.sensor = e.sensor
    BY DEF unmarshalEvent, PostedEvent
  <1> HIDE DEF x, u
  <1>3. RestTopic(x) = RestTopic(e) /\ RestTopic(u) = RestTopic(e)
    BY <1>1, <1>2 DEF RestTopic
  <1>4. RestTopic(x) \in Topic \cup {NoTopic}
    BY <1>1 DEF Topic
  <1> QED BY <1>3, <1>4 DEF u

LEMMA BodyType ==
  ASSUME NEW r \in Requests, NEW bd \in Bodies[r]
  PROVE  /\ bd \in Body /\ bd.events \in Seq(PostedEvent)
         /\ DOMAIN bd.events \subseteq Nat \ {0}
         /\ \A i \in DOMAIN bd.events : bd.events[i] \in PostedEvent
         /\ bd.ctx \in {"", Path[r]}
  <1>1. Bodies \in [Requests -> SUBSET Body] /\ bd.ctx \in {"", Path[r]}
    BY IngressAssumption
  <1>2. bd \in Body
    BY <1>1
  <1>3. bd.events \in Seq(PostedEvent)
    BY <1>2 DEF Body
  <1>4. DOMAIN bd.events = 1 .. Len(bd.events) /\ Len(bd.events) \in Nat
    BY <1>3
  <1>5. DOMAIN bd.events \subseteq Nat \ {0}
    BY <1>4
  <1>6. \A i \in DOMAIN bd.events : bd.events[i] \in PostedEvent
    BY <1>3
  <1> QED BY <1>1, <1>2, <1>3, <1>5, <1>6

LEMMA PublishedTopics ==
  \A b \in Brokers : Publishes[b] \subseteq Topic /\ NoTopic \notin Publishes[b]
  BY IngressAssumption DEF Topic

\* What parseRequest makes of a well-formed event is what should come of it.
LEMMA PublishedIsMeant ==
  ASSUME NEW r \in Requests, body[r] \in Bodies[r], ~Malformed(body[r]),
         NEW i \in DOMAIN body[r].events
  PROVE  /\ Published(r, i) = Meant(r, body[r], i)
         /\ RestTopic(body[r].events[i]) \in Topic \cup {NoTopic}
         /\ Published(r, i).topic = RestTopic(body[r].events[i])
         /\ Published(r, i).topic \in Topic => Published(r, i) \in Message
  <1> DEFINE e == body[r].events[i]
             u == unmarshalEvent(e)
  <1>1. e \in PostedEvent
    BY BodyType
  <1>2. e.origin # "number" /\ body[r].ctx \in {"", Path[r]}
    BY BodyType DEF Malformed
  <1>3. /\ u.oem = e.oem /\ u.phys = e.phys
        /\ u.origin = IF e.origin = "none" THEN "none" ELSE "object"
        /\ e.oem \in BOOLEAN /\ e.phys \in {"", "INVALID", "given"}
    BY <1>1, <1>2 DEF unmarshalEvent, PostedEvent
  <1>4. RestTopic(u) = RestTopic(e) /\ RestTopic(e) \in Topic \cup {NoTopic}
    BY <1>1, TopicOf
  <1>5. i \in Nat \ {0}
    BY BodyType
  <1> DEFINE ctx == IF body[r].ctx = "" THEN Path[r] ELSE body[r].ctx
             up == IF u.oem /\ u.phys = "" THEN "INVALID" ELSE u.phys
             ep == IF e.phys # "" \/ ~e.oem THEN e.phys ELSE "INVALID"
             eo == IF e.origin = "none" THEN "none" ELSE "object"
  <1>6. Published(r, i) = [req |-> r, ev |-> i, topic |-> RestTopic(u),
                           ctx |-> ctx, phys |-> up, origin |-> u.origin]
    BY DEF Published
  <1>7. Meant(r, body[r], i) = [req |-> r, ev |-> i, topic |-> RestTopic(e),
                                ctx |-> Path[r], phys |-> ep, origin |-> eo]
    BY DEF Meant
  <1>8. ctx = Path[r]
    BY <1>2
  <1>9. up = ep /\ up \in {"", "INVALID", "given"}
    <2>1. CASE e.oem
      BY <1>3, <2>1
    <2>2. CASE ~e.oem
      BY <1>3, <2>2
    <2> QED BY <2>1, <2>2
  <1>10. u.origin = eo /\ eo \in {"none", "object"}
    BY <1>3
  <1> HIDE DEF e, u, ctx, up, ep, eo
  <1>11. Published(r, i) = Meant(r, body[r], i)
    BY <1>4, <1>6, <1>7, <1>8, <1>9, <1>10
  <1>12. Published(r, i).topic = RestTopic(u)
    BY <1>6
  <1>13. Published(r, i).topic \in Topic => Published(r, i) \in Message
    <2>1. Path[r] \in Xnames
      BY DEF Xnames
    <2> SUFFICES ASSUME RestTopic(u) \in Topic PROVE Published(r, i) \in Message
      BY <1>12
    <2> DEFINE t == RestTopic(u)
               o == u.origin
    <2>2. t \in Topic /\ ctx \in Xnames /\ o \in {"none", "object"}
      BY <2>1, <1>8, <1>10
    <2> HIDE DEF t, o
    <2>3. [req |-> r, ev |-> i, topic |-> t, ctx |-> ctx, phys |-> up,
           origin |-> o] \in Message
      BY <2>2, <1>5, <1>9 DEF Message
    <2> QED BY <2>3, <1>6 DEF t, o
  <1> QED BY <1>4, <1>11, <1>12, <1>13 DEF e

LEMMA MeantFields ==
  ASSUME NEW r, NEW bd, NEW i
  PROVE  Meant(r, bd, i).req = r /\ Meant(r, bd, i).ev = i
  BY DEF Meant

LEMMA LogTypes ==
  ASSUME TypeOK, NEW b \in Brokers, NEW k \in DOMAIN log[b]
  PROVE  /\ log[b][k] \in Message
         /\ log[b][k].req \in Requests /\ log[b][k].ev \in Nat
  <1>1. log[b] \in Seq(Message)
    BY DEF TypeOK
  <1>2. log[b][k] \in Message
    BY <1>1
  <1> QED BY <1>2 DEF Message

LEMMA RequestTypes ==
  ASSUME TypeOK, NEW r \in Requests
  PROVE  /\ ev[r] \in Nat /\ broker[r] \in 1 .. NBrokers + 1
         /\ last[r] \in 0 .. NBrokers /\ NBrokers \in Nat
  BY SomeBrokers DEF TypeOK

(***************************************************************************)
(* Steps that give nothing to a broker.                                    *)
(***************************************************************************)
\* the walks of the requests go forwards
Forwards ==
  \A r \in Requests :
    Accepted(r) =>
      /\ Accepted(r)' /\ body'[r] = body[r] /\ ev[r] <= ev'[r]
      /\ pc'[r] = "write" /\ ev'[r] = ev[r]
           => pc[r] = "write" /\ broker[r] <= broker'[r]

LEMMA QuietLog ==
  ASSUME IInv, TypeOK', log' = log, Forwards
  PROVE  LogInv' /\ InOrder'
  <1>1. InOrder'
    BY DEF IInv, InOrder
  <1>2. ASSUME NEW b \in Brokers, NEW k \in DOMAIN log[b]
        PROVE  LET m == log[b][k] IN
               /\ Accepted(m.req)'
               /\ m.ev \in Wanted(body'[m.req], b)
               /\ m = Meant(m.req, body'[m.req], m.ev)
               /\ m.ev <= ev'[m.req]
               /\ pc'[m.req] = "write" /\ m.ev = ev'[m.req] => b < broker'[m.req]
    <2> DEFINE m == log[b][k]
               r == m.req
    <2>1. r \in Requests /\ m.ev \in Nat
      BY LogTypes DEF IInv
    <2>2. /\ Accepted(r) /\ m.ev \in Wanted(body[r], b)
          /\ m = Meant(r, body[r], m.ev)
          /\ m.ev <= ev[r]
          /\ pc[r] = "write" /\ m.ev = ev[r] => b < broker[r]
      BY DEF IInv, LogInv
    <2>3. ev[r] \in Nat /\ broker[r] \in Nat
      BY <2>1, RequestTypes DEF IInv
    <2>4. ev'[r] \in Nat /\ broker'[r] \in Nat
      BY <2>1, SomeBrokers DEF TypeOK
    <2>5. /\ Accepted(r)' /\ body'[r] = body[r] /\ ev[r] <= ev'[r]
          /\ pc'[r] = "write" /\ ev'[r] = ev[r]
               => pc[r] = "write" /\ broker[r] <= broker'[r]
      BY <2>1, <2>2 DEF Forwards
    <2>6. b \in Nat
      BY SomeBrokers DEF Brokers
    <2> HIDE DEF m, r
    <2>7. m.ev <= ev'[r] /\ (pc'[r] = "write" /\ m.ev = ev'[r] => b < broker'[r])
      BY <2>1, <2>2, <2>3, <2>4, <2>5, <2>6
    <2> QED BY <2>2, <2>5, <2>7 DEF m, r
  <1>3. LogInv'
    BY <1>2 DEF LogInv
  <1> QED BY <1>1, <1>3

LEMMA InitInv == Init => IInv
  <1> SUFFICES ASSUME Init PROVE IInv
    OBVIOUS
  <1>1. NoBody \in Body
    BY DEF NoBody, Body
  <1>2. TypeOK
    <2>1. body \in [Requests -> Body \cup {NoBody}]
      BY DEF Init
    <2>2. log \in [Brokers -> Seq(Message)]
      BY DEF Init
    <2>3. /\ loaded \in BOOLEAN /\ nconn \in 0 .. NBrokers
          /\ broker \in [Requests -> 1 .. NBrokers + 1]
          /\ last \in [Requests -> 0 .. NBrokers]
      <3>1. 0 \in 0 .. NBrokers /\ 1 \in 1 .. NBrokers + 1
        BY SomeBrokers
      <3> QED BY <3>1 DEF Init
    <2> QED BY <2>1, <2>2, <2>3 DEF Init, TypeOK
  <1>3. \A b \in Brokers : DOMAIN log[b] = {}
    BY DEF Init
  <1>4. ConnInv /\ ReqInv
    BY DEF Init, ConnInv, ReqInv, ReqAt, Accepted
  <1>5. LogInv /\ InOrder
    BY <1>3 DEF LogInv, InOrder
  <1>6. DoneInv
    BY DEF Init, DoneInv, DoneAt
  <1> QED BY <1>2, <1>4, <1>5, <1>6 DEF IInv

\* Nothing of a request changes: setupKafka and the probe, or a stutter.
LEMMA SetupInv ==
  ASSUME IInv, LoadBrokers \/ Connect \/ doReadiness \/ UNCHANGED vars
  PROVE  IInv'
  <1>0. UNCHANGED <<body, pc, ev, broker, last, probed, refused, log>>
    BY DEF LoadBrokers, Connect, doReadiness, vars, reqVars
  <1>1. TypeOK'
    <2>1. loaded' \in BOOLEAN /\ nconn' \in 0 .. NBrokers /\ ready' \in BOOLEAN
      <3>1. /\ loaded \in BOOLEAN /\ ready \in BOOLEAN
            /\ nconn \in 0 .. NBrokers /\ NBrokers \in Nat
        BY SomeBrokers DEF IInv, TypeOK
      <3>2. nconn' = nconn \/ (nconn < NBrokers /\ nconn' = nconn + 1)
        BY DEF LoadBrokers, Connect, doReadiness, vars, setupVars
      <3>3. loaded' \in {loaded, TRUE} /\ ready' \in {ready, TRUE}
        BY DEF LoadBrokers, Connect, doReadiness, vars, setupVars
      <3>4. nconn' \in 0 .. NBrokers
        BY <3>1, <3>2
      <3> QED BY <3>1, <3>3, <3>4
    <2> QED BY <1>0, <2>1 DEF IInv, TypeOK
  <1>2. ConnInv'
    <2>1. NBrokers \in Nat /\ nconn \in 0 .. NBrokers
      BY SomeBrokers DEF IInv, TypeOK
    <2> QED BY <1>0, <2>1 DEF IInv, ConnInv, LoadBrokers, Connect, doReadiness,
            vars, setupVars
  <1>3. ReqInv'
    BY <1>0 DEF IInv, ReqInv, ReqAt, Accepted
  <1>4. LogInv' /\ InOrder'
    BY <1>0 DEF IInv, LogInv, InOrder, Accepted
  <1>5. DoneInv'
    BY <1>0 DEF IInv, DoneInv, DoneAt, Behind
  <1> QED BY <1>1, <1>2, <1>3, <1>4, <1>5 DEF IInv

LEMMA ReceiveInv ==
  ASSUME IInv, NEW r \in Requests, NEW bd \in Bodies[r], Receive(r, bd)
  PROVE  IInv'
  <1>0. /\ pc[r] = "none" /\ body' = [body EXCEPT ![r] = bd]
        /\ pc' = [pc EXCEPT ![r] = IF Malformed(bd) THEN "400" ELSE "event"]
        /\ probed' = [probed EXCEPT ![r] = ready]
        /\ UNCHANGED <<loaded, nconn, ev, broker, last, refused, ready, log>>
    BY DEF Receive, setupVars
  <1>1. bd \in Body /\ bd.events \in Seq(PostedEvent)
    BY BodyType
  <1>2. TypeOK'
    BY <1>0, <1>1 DEF IInv, TypeOK, Answer
  <1>3. ConnInv'
    BY <1>0 DEF IInv, TypeOK, ConnInv
  <1>4. ev[r] = 0
    BY <1>0 DEF IInv, ReqInv, ReqAt, Accepted
  <1>5. \A q \in Requests : q # r => /\ pc'[q] = pc[q] /\ body'[q] = body[q]
                                     /\ probed'[q] = probed[q]
    BY <1>0 DEF IInv, TypeOK
  <1>6. /\ body'[r] = bd /\ pc'[r] \in {"400", "event"}
        /\ pc'[r] = "event" <=> ~Malformed(bd)
    BY <1>0 DEF IInv, TypeOK
  <1>7. ReqInv'
    <2> SUFFICES ASSUME NEW q \in Requests PROVE ReqAt(q)'
      BY DEF ReqInv
    <2>1. CASE q = r
      BY <2>1, <1>0, <1>1, <1>4, <1>6 DEF ReqAt, Accepted
    <2>2. CASE q # r
      BY <2>2, <1>0, <1>5 DEF IInv, ReqInv, ReqAt, Accepted
    <2> QED BY <2>1, <2>2
  <1>8. LogInv' /\ InOrder'
    <2>1. ~Accepted(r)
      BY <1>0 DEF Accepted
    <2>2. ASSUME NEW q \in Requests, Accepted(q)
          PROVE  /\ Accepted(q)' /\ body'[q] = body[q] /\ ev'[q] = ev[q]
                 /\ pc'[q] = pc[q] /\ broker'[q] = broker[q] /\ ev[q] \in Nat
                 /\ broker[q] \in Nat
      BY <1>0, <1>5, <2>1, <2>2, RequestTypes DEF Accepted, IInv
    <2>3. Forwards
      BY <2>2 DEF Forwards
    <2> QED BY <1>0, <1>2, <2>3, QuietLog
  <1>9. DoneInv'
    <2> SUFFICES ASSUME NEW q \in Requests, probed'[q], ~refused'[q],
                        pc'[q] \in {"event", "write", "200"},
                        NEW b \in Brokers, NEW i \in Wanted(body'[q], b),
                        Behind(q, b, i)'
                 PROVE  \E k \in DOMAIN log'[b] : log'[b][k] = Meant(q, body'[q], i)
      BY DEF DoneInv, DoneAt
    <2>1. CASE q = r
      <3>1. i \in Nat \ {0} /\ ev'[r] = 0
        BY <2>1, <1>0, <1>4, <1>6, BodyType DEF Wanted
      <3> QED BY <2>1, <3>1 DEF Behind
    <2>2. CASE q # r
      BY <2>2, <1>0, <1>5 DEF IInv, DoneInv, DoneAt, Behind
    <2> QED BY <2>1, <2>2
  <1> QED BY <1>2, <1>3, <1>7, <1>8, <1>9 DEF IInv

\* A request whose body cannot be read leaves nothing behind.
LEMMA ReceiveFailsInv ==
  ASSUME IInv, NEW r \in Requests, ReceiveFails(r)
  PROVE  IInv'
  <1>0. /\ pc[r] = "none" /\ pc' = [pc EXCEPT ![r] = "unread"]
        /\ probed' = [probed EXCEPT ![r] = ready]
        /\ UNCHANGED <<loaded, nconn, body, ev, broker, last, refused, ready, log>>
    BY DEF ReceiveFails, setupVars
  <1>1. /\ pc'[r] = "unread"
        /\ \A q \in Requests : q # r => pc'[q] = pc[q] /\ probed'[q] = probed[q]
    BY <1>0 DEF IInv, TypeOK
  <1>2. TypeOK'
    BY <1>0 DEF IInv, TypeOK, Answer
  <1>3. ConnInv'
    BY <1>0 DEF IInv, TypeOK, ConnInv
  <1>4. ReqInv'
    <2> SUFFICES ASSUME NEW q \in Requests PROVE ReqAt(q)'
      BY DEF ReqInv
    <2>1. CASE q = r
      BY <2>1, <1>0, <1>1 DEF IInv, ReqInv, ReqAt, Accepted
    <2>2. CASE q # r
      BY <2>2, <1>0, <1>1 DEF IInv, ReqInv, ReqAt, Accepted
    <2> QED BY <2>1, <2>2
  <1>5. LogInv' /\ InOrder'
    <2>1. ~Accepted(r)
      BY <1>0 DEF Accepted
    <2>2. ASSUME NEW q \in Requests, Accepted(q)
          PROVE  /\ Accepted(q)' /\ body'[q] = body[q] /\ ev'[q] = ev[q]
                 /\ pc'[q] = pc[q] /\ broker'[q] = broker[q] /\ ev[q] \in Nat
                 /\ broker[q] \in Nat
      BY <1>0, <1>1, <2>1, <2>2, RequestTypes DEF Accepted, IInv
    <2>3. Forwards
      BY <2>2 DEF Forwards
    <2> QED BY <1>0, <1>2, <2>3, QuietLog
  <1>6. DoneInv'
    BY <1>0, <1>1 DEF IInv, DoneInv, DoneAt, Behind
  <1> QED BY <1>2, <1>3, <1>4, <1>5, <1>6 DEF IInv

(***************************************************************************)
(* The goroutine of a request.                                             *)
(***************************************************************************)
\* Nothing but request r changes, and what brokers have they keep.
Alone(r) ==
  /\ UNCHANGED <<loaded, nconn, body, probed, ready>>
  /\ \A q \in Requests \ {r} :
       /\ pc'[q] = pc[q] /\ ev'[q] = ev[q] /\ broker'[q] = broker[q]
       /\ last'[q] = last[q] /\ refused'[q] = refused[q]
  /\ \A b \in Brokers : \A k \in DOMAIN log[b] :
       k \in DOMAIN log'[b] /\ log'[b][k] = log[b][k]

LEMMA AloneInv ==
  ASSUME IInv, TypeOK', NEW r \in Requests, Alone(r), ReqAt(r)', DoneAt(r)',
         LogInv', InOrder'
  PROVE  IInv'
  <1>1. ConnInv'
    BY DEF IInv, ConnInv, Alone
  <1>2. ReqInv'
    <2> SUFFICES ASSUME NEW q \in Requests \ {r} PROVE ReqAt(q)'
      BY DEF ReqInv
    <2> QED BY DEF IInv, ReqInv, ReqAt, Accepted, Alone
  <1>3. DoneInv'
    <2> SUFFICES ASSUME NEW q \in Requests \ {r}, probed'[q], ~refused'[q],
                        pc'[q] \in {"event", "write", "200"},
                        NEW b \in Brokers, NEW i \in Wanted(body'[q], b),
                        Behind(q, b, i)'
                 PROVE  \E k \in DOMAIN log'[b] : log'[b][k] = Meant(q, body'[q], i)
      BY DEF DoneInv, DoneAt
    <2>1. /\ probed[q] /\ ~refused[q] /\ pc[q] \in {"event", "write", "200"}
          /\ i \in Wanted(body[q], b) /\ Behind(q, b, i)
      BY DEF Alone, Behind
    <2>2. PICK k \in DOMAIN log[b] : log[b][k] = Meant(q, body[q], i)
      BY <2>1 DEF IInv, DoneInv, DoneAt
    <2> QED BY <2>2 DEF Alone
  <1> QED BY <1>1, <1>2, <1>3 DEF IInv

\* the same when nothing is given to a broker
LEMMA QuietInv ==
  ASSUME IInv, TypeOK', NEW r \in Requests, Accepted(r), Alone(r), log' = log,
         Accepted(r)', ev[r] <= ev'[r],
         pc'[r] = "write" /\ ev'[r] = ev[r]
           => pc[r] = "write" /\ broker[r] <= broker'[r],
         ReqAt(r)', DoneAt(r)'
  PROVE  IInv'
  <1>1. ASSUME NEW q \in Requests, Accepted(q)
        PROVE  /\ Accepted(q)' /\ body'[q] = body[q] /\ ev[q] <= ev'[q]
               /\ pc'[q] = "write" /\ ev'[q] = ev[q]
                    => pc[q] = "write" /\ broker[q] <= broker'[q]
    <2>1. CASE q = r
      BY <2>1 DEF Alone
    <2>2. CASE q # r
      <3>1. ev[q] \in Nat /\ broker[q] \in Nat
        BY RequestTypes DEF IInv
      <3> QED BY <1>1, <2>2, <3>1 DEF Alone, Accepted
    <2> QED BY <2>1, <2>2
  <1>2. Forwards
    BY <1>1 DEF Forwards
  <1> QED BY <1>2, QuietLog, AloneInv

LEMMA ParseInv ==
  ASSUME IInv, NEW r \in Requests, ParseEvent(r)
  PROVE  IInv'
  <1> DEFINE es == body[r].events
             i == ev[r] + 1
             to == IF TimestampPanics(es[i]) THEN "aborted"
                   ELSE IF RestTopic(es[i]) = NoTopic THEN "event" ELSE "write"
  <1>0. /\ pc[r] = "event" /\ Accepted(r)
        /\ UNCHANGED <<loaded, nconn, body, probed, refused, ready, log>>
    BY DEF ParseEvent, setupVars, Accepted
  <1>1. /\ body[r] \in Bodies[r] /\ ~Malformed(body[r]) /\ ev[r] <= Len(es)
        /\ ev[r] \in Nat /\ es \in Seq(PostedEvent)
    BY <1>0, RequestTypes, BodyType DEF IInv, ReqInv, ReqAt
  <1>2. pc \in [Requests -> {"none", "event", "write"} \cup Answer]
        /\ ev \in [Requests -> Nat] /\ broker \in [Requests -> 1 .. NBrokers + 1]
        /\ last \in [Requests -> 0 .. NBrokers]
    BY DEF IInv, TypeOK
  <1>3. CASE i > Len(es)
    <2>1. pc' = [pc EXCEPT ![r] = "200"] /\ UNCHANGED <<ev, broker, last>>
      BY <1>3 DEF ParseEvent
    <2>2. TypeOK'
      BY <1>0, <2>1 DEF IInv, TypeOK, Answer
    <2>3. Alone(r)
      BY <1>0, <1>2, <2>1 DEF Alone
    <2>4. pc'[r] = "200" /\ ev'[r] = ev[r] /\ ev[r] = Len(es)
      BY <1>1, <1>2, <1>3, <2>1
    <2>5. ReqAt(r)' /\ Accepted(r)'
      BY <1>0, <1>1, <2>4 DEF ReqAt, Accepted
    <2>6. DoneAt(r)'
      BY <1>0, <2>1, <2>4 DEF IInv, DoneInv, DoneAt, Behind
    <2> QED BY <1>0, <1>1, <2>2, <2>3, <2>4, <2>5, <2>6, QuietInv
  <1>4. CASE ~(i > Len(es))
    <2>1. /\ pc' = [pc EXCEPT ![r] = to]
          /\ ev' = [ev EXCEPT ![r] = i]
          /\ broker' = [broker EXCEPT ![r] = 1]
          /\ last' = [last EXCEPT ![r] = IF loaded THEN NBrokers ELSE 0]
      BY <1>4 DEF ParseEvent
    <2>2. to \in {"aborted", "event", "write"} /\ i \in Nat
      BY <1>1
    <2>3. TypeOK'
      <3>1. NBrokers \in Nat
        BY SomeBrokers
      <3>2. (IF loaded THEN NBrokers ELSE 0) \in 0 .. NBrokers
        BY <3>1
      <3>3. 1 \in 1 .. NBrokers + 1
        BY <3>1
      <3>4. /\ pc' \in [Requests -> {"none", "event", "write"} \cup Answer]
            /\ ev' \in [Requests -> Nat]
            /\ broker' \in [Requests -> 1 .. NBrokers + 1]
            /\ last' \in [Requests -> 0 .. NBrokers]
        BY <1>2, <2>1, <2>2, <3>2, <3>3 DEF Answer
      <3> QED BY <1>0, <3>4 DEF IInv, TypeOK
    <2>4. Alone(r)
      BY <1>0, <1>2, <2>1 DEF Alone
    <2>5. /\ pc'[r] = to /\ ev'[r] = i
          /\ last'[r] = IF loaded THEN NBrokers ELSE 0
      BY <1>2, <2>1
    <2>6. i \in DOMAIN es /\ i <= Len(es) /\ i >= 1
      BY <1>1, <1>4
    <2>7. ReqAt(r)' /\ Accepted(r)'
      <3>1. probed[r] => loaded
        BY DEF IInv, ConnInv
      <3> HIDE DEF i, to
      <3> QED BY <1>0, <1>1, <2>2, <2>5, <2>6, <3>1 DEF ReqAt, Accepted
    <2>8. DoneAt(r)'
      <3> SUFFICES ASSUME probed[r], ~refused[r], pc'[r] \in {"event", "write"},
                          NEW b \in Brokers, NEW n \in Wanted(body[r], b),
                          Behind(r, b, n)'
                   PROVE  \E k \in DOMAIN log[b] : log[b][k] = Meant(r, body[r], n)
        BY <1>0, <2>2, <2>5 DEF DoneAt
      <3>1. n \in Nat /\ n \in DOMAIN es /\ RestTopic(es[n]) \in Publishes[b]
        BY <1>1, BodyType DEF Wanted
      <3>2. b \in Nat /\ b >= 1
        BY SomeBrokers DEF Brokers
      <3>3. CASE n < i
        <4>1. Behind(r, b, n)
          BY <1>0, <1>1, <3>1, <3>3 DEF Behind
        <4> QED BY <1>0, <4>1 DEF IInv, DoneInv, DoneAt
      <3>4. CASE n = i
        <4>1. pc'[r] = "event"
          <5>1. broker'[r] = 1
            BY <1>2, <2>1
          <5> QED BY <2>5, <3>2, <3>4, <5>1 DEF Behind
        <4>2. RestTopic(es[i]) = NoTopic
          BY <2>5, <4>1
        <4> QED BY <3>1, <3>4, <4>2, PublishedTopics
      <3> QED BY <2>5, <3>3, <3>4 DEF Behind
    <2>9. ev[r] < ev'[r] /\ ev[r] <= ev'[r]
      BY <1>1, <2>5
    <2>10. ev'[r] # ev[r]
      BY <1>1, <2>5
    <2> QED BY <1>0, <2>3, <2>4, <2>7, <2>8, <2>9, <2>10, QuietInv
  <1> QED BY <1>3, <1>4

\* what a step of writeToKafka may rely on
LEMMA Writing ==
  ASSUME IInv, NEW r \in Requests, pc[r] = "write"
  PROVE  /\ Accepted(r)
         /\ body[r] \in Bodies[r] /\ ~Malformed(body[r])
         /\ ev[r] \in DOMAIN body[r].events /\ ev[r] \in Nat \ {0}
         /\ broker[r] \in Nat \ {0} /\ last[r] \in Nat /\ last[r] <= NBrokers
         /\ broker[r] <= last[r] => broker[r] \in Brokers
         /\ Current(r) = Meant(r, body[r], ev[r])
         /\ \A b \in Brokers : Current(r).topic \in Publishes[b] =>
              ev[r] \in Wanted(body[r], b) /\ Current(r) \in Message
         /\ \A b \in Brokers : ev[r] \in Wanted(body[r], b) =>
              Current(r).topic \in Publishes[b]
         /\ probed[r] => last[r] = NBrokers /\ nconn = NBrokers
  <1>1. /\ Accepted(r) /\ body[r] \in Bodies[r] /\ ~Malformed(body[r])
        /\ ev[r] <= Len(body[r].events) /\ ev[r] >= 1
        /\ probed[r] => last[r] = NBrokers /\ nconn = NBrokers
    BY DEF IInv, ReqInv, ReqAt, Accepted, ConnInv
  <1>2. /\ ev[r] \in Nat /\ broker[r] \in 1 .. NBrokers + 1
        /\ last[r] \in 0 .. NBrokers /\ NBrokers \in Nat
    BY RequestTypes DEF IInv
  <1>3. body[r].events \in Seq(PostedEvent)
    BY <1>1, BodyType
  <1>4. ev[r] \in DOMAIN body[r].events
    BY <1>1, <1>2, <1>3
  <1>5. broker[r] <= last[r] => broker[r] \in Brokers
    BY <1>2 DEF Brokers
  <1>6. /\ Current(r) = Meant(r, body[r], ev[r])
        /\ Current(r).topic = RestTopic(body[r].events[ev[r]])
        /\ Current(r).topic \in Topic => Current(r) \in Message
    BY <1>1, <1>4, PublishedIsMeant DEF Current
  <1>7. /\ \A b \in Brokers : Current(r).topic \in Publishes[b] =>
              ev[r] \in Wanted(body[r], b) /\ Current(r) \in Message
        /\ \A b \in Brokers : ev[r] \in Wanted(body[r], b) =>
              Current(r).topic \in Publishes[b]
    BY <1>4, <1>6, PublishedTopics DEF Wanted
  <1>8. /\ ev[r] \in Nat \ {0} /\ broker[r] \in Nat \ {0}
        /\ last[r] \in Nat /\ last[r] <= NBrokers
    BY <1>1, <1>2
  <1> QED BY <1>1, <1>4, <1>5, <1>6, <1>7, <1>8

LEMMA WriteEndInv ==
  ASSUME IInv, NEW r \in Requests, WriteEnd(r)
  PROVE  IInv'
  <1>0. /\ pc[r] = "write" /\ broker[r] > last[r]
        /\ pc' = [pc EXCEPT ![r] = "event"]
        /\ UNCHANGED <<loaded, nconn, body, ev, broker, last, probed, refused,
                       ready, log>>
    BY DEF WriteEnd, setupVars
  <1>1. pc \in [Requests -> {"none", "event", "write"} \cup Answer]
    BY DEF IInv, TypeOK
  <1>2. TypeOK'
    BY <1>0, <1>1 DEF IInv, TypeOK
  <1>3. Alone(r) /\ pc'[r] = "event"
    BY <1>0, <1>1 DEF Alone
  <1>4. ReqAt(r)' /\ Accepted(r)' /\ Accepted(r)
    BY <1>0, <1>3 DEF IInv, ReqInv, ReqAt, Accepted
  <1>5. DoneAt(r)'
    <2> SUFFICES ASSUME probed[r], ~refused[r],
                        NEW b \in Brokers, NEW n \in Wanted(body[r], b),
                        n < ev[r] \/ n = ev[r]
                 PROVE  \E k \in DOMAIN log[b] : log[b][k] = Meant(r, body[r], n)
      BY <1>0, <1>3 DEF DoneAt, Behind
    <2>1. b < broker[r]
      BY <1>0, Writing, SomeBrokers DEF Brokers
    <2>2. Behind(r, b, n)
      BY <2>1 DEF Behind
    <2> QED BY <1>0, <2>2 DEF IInv, DoneInv, DoneAt
  <1>6. ev[r] <= ev'[r]
    BY <1>0, RequestTypes DEF IInv
  <1> QED BY <1>0, <1>2, <1>3, <1>4, <1>5, <1>6, QuietInv

LEMMA WriteNilInv ==
  ASSUME IInv, NEW r \in Requests, WriteNil(r)
  PROVE  IInv'
  <1>0. /\ pc[r] = "write"
        /\ pc' = [pc EXCEPT ![r] = "aborted"]
        /\ UNCHANGED <<loaded, nconn, body, ev, broker, last, probed, refused,
                       ready, log>>
    BY DEF WriteNil, setupVars
  <1>1. pc \in [Requests -> {"none", "event", "write"} \cup Answer]
    BY DEF IInv, TypeOK
  <1>2. TypeOK'
    BY <1>0, <1>1 DEF IInv, TypeOK, Answer
  <1>3. Alone(r) /\ pc'[r] = "aborted"
    BY <1>0, <1>1 DEF Alone
  <1>4. ReqAt(r)' /\ Accepted(r)' /\ Accepted(r)
    BY <1>0, <1>3 DEF IInv, ReqInv, ReqAt, Accepted
  <1>5. DoneAt(r)'
    BY <1>3 DEF DoneAt
  <1>6. ev[r] <= ev'[r]
    BY <1>0, RequestTypes DEF IInv
  <1> QED BY <1>0, <1>2, <1>3, <1>4, <1>5, <1>6, QuietInv

\* The walk goes on without a message: the broker does not want it, or it
\* has refused it.
LEMMA PassInv ==
  ASSUME IInv, NEW r \in Requests, WriteSkip(r) \/ WriteRefused(r)
  PROVE  IInv'
  <1> DEFINE n == broker[r] + 1
  <1>0. /\ pc[r] = "write" /\ broker[r] <= last[r]
        /\ broker' = [broker EXCEPT ![r] = n]
        /\ UNCHANGED <<loaded, nconn, body, pc, ev, last, probed, ready, log>>
    BY DEF WriteSkip, WriteRefused, setupVars
  <1>1. /\ UNCHANGED refused /\ Current(r).topic \notin Publishes[broker[r]]
        \/ refused' = [refused EXCEPT ![r] = TRUE]
    BY DEF WriteSkip, WriteRefused
  <1>2. /\ broker \in [Requests -> 1 .. NBrokers + 1]
        /\ refused \in [Requests -> BOOLEAN]
    BY DEF IInv, TypeOK
  <1>3. broker[r] \in Nat /\ last[r] \in Nat /\ last[r] <= NBrokers
        /\ broker[r] \in Brokers /\ NBrokers \in Nat
    BY <1>0, Writing, SomeBrokers
  <1>4. n \in 1 .. NBrokers + 1 /\ broker[r] <= n
    BY <1>0, <1>3
  <1>5. broker' \in [Requests -> 1 .. NBrokers + 1]
    BY <1>0, <1>2, <1>4
  <1>6. refused' \in [Requests -> BOOLEAN]
    BY <1>1, <1>2
  <1>7. TypeOK'
    BY <1>0, <1>5, <1>6 DEF IInv, TypeOK
  <1>8. Alone(r) /\ broker'[r] = n
    BY <1>0, <1>1, <1>2 DEF Alone
  <1>9. ReqAt(r)' /\ Accepted(r)' /\ Accepted(r)
    BY <1>0 DEF IInv, ReqInv, ReqAt, Accepted
  <1>10. DoneAt(r)'
    <2> SUFFICES ASSUME probed[r], ~refused'[r],
                        NEW b \in Brokers, NEW j \in Wanted(body[r], b),
                        Behind(r, b, j)'
                 PROVE  \E k \in DOMAIN log[b] : log[b][k] = Meant(r, body[r], j)
      BY <1>0 DEF DoneAt
    <2>1. UNCHANGED refused /\ Current(r).topic \notin Publishes[broker[r]]
      BY <1>1, <1>2
    <2>2. b \in Nat
      BY SomeBrokers DEF Brokers
    <2>3. ~(j = ev[r] /\ b = broker[r])
      BY <1>0, <2>1, Writing
    <2>4. Behind(r, b, j)
      BY <1>0, <1>3, <1>8, <2>2, <2>3 DEF Behind
    <2> QED BY <1>0, <2>1, <2>4 DEF IInv, DoneInv, DoneAt
  <1>11. ev[r] <= ev'[r]
    BY <1>0, RequestTypes DEF IInv
  <1> HIDE DEF n
  <1> QED BY <1>0, <1>4, <1>7, <1>8, <1>9, <1>10, <1>11, QuietInv

\* the step that gives message m to broker b and to no one else
LEMMA Appended ==
  ASSUME TypeOK, NEW b \in Brokers, NEW m \in Message,
         log' = [log EXCEPT ![b] = Append(@, m)]
  PROVE  /\ log' \in [Brokers -> Seq(Message)]
         /\ \A c \in Brokers \ {b} : log'[c] = log[c]
         /\ \A k \in DOMAIN log[b] : k \in DOMAIN log'[b] /\ log'[b][k] = log[b][k]
         /\ \E l \in DOMAIN log'[b] :
              /\ log'[b][l] = m
              /\ \A k \in DOMAIN log'[b] : (k = l \/ k \in DOMAIN log[b]) /\ ~(l < k)
  <1> DEFINE l == Len(log[b]) + 1
  <1>1. log \in [Brokers -> Seq(Message)] /\ log[b] \in Seq(Message)
    BY DEF TypeOK
  <1>2. log'[b] = Append(log[b], m) /\ \A c \in Brokers \ {b} : log'[c] = log[c]
    BY <1>1
  <1>3. Append(log[b], m) \in Seq(Message)
    BY <1>1
  <1>4. log' \in [Brokers -> Seq(Message)]
    BY <1>1, <1>3
  <1>5. /\ DOMAIN log[b] = 1 .. l - 1 /\ l \in Nat \ {0}
        /\ DOMAIN log'[b] = 1 .. l
        /\ \A k \in 1 .. l - 1 : log'[b][k] = log[b][k]
        /\ log'[b][l] = m
    BY <1>1, <1>2
  <1> HIDE DEF l
  <1>6. /\ l \in DOMAIN log'[b] /\ log'[b][l] = m
        /\ \A k \in DOMAIN log'[b] : (k = l \/ k \in DOMAIN log[b]) /\ ~(l < k)
    BY <1>5
  <1>7. \A k \in DOMAIN log[b] : k \in DOMAIN log'[b] /\ log'[b][k] = log[b][k]
    BY <1>5
  <1> QED BY <1>2, <1>4, <1>6, <1>7

LEMMA WriteInv ==
  ASSUME IInv, NEW r \in Requests, Write(r)
  PROVE  IInv'
  <1> DEFINE b == broker[r]
             n == b + 1
             m == Current(r)
  <1>0. /\ pc[r] = "write" /\ b <= last[r] /\ m.topic \in Publishes[b]
        /\ log' = [log EXCEPT ![b] = Append(@, m)]
        /\ broker' = [broker EXCEPT ![r] = n]
        /\ UNCHANGED <<loaded, nconn, body, pc, ev, last, probed, refused, ready>>
    BY DEF Write, setupVars
  <1>1. broker \in [Requests -> 1 .. NBrokers + 1] /\ TypeOK
    BY DEF IInv, TypeOK
  <1>2. /\ b \in Brokers /\ b \in Nat /\ last[r] <= NBrokers /\ last[r] \in Nat
        /\ m \in Message /\ m = Meant(r, body[r], ev[r])
        /\ ev[r] \in Wanted(body[r], b) /\ ev[r] \in Nat
    BY <1>0, Writing
  <1>3. m.req = r /\ m.ev = ev[r]
    BY <1>2, MeantFields
  <1>a. log' = [log EXCEPT ![b] = Append(@, m)]
    BY <1>0
  <1> HIDE DEF m
  <1>b. PICK l \in DOMAIN log'[b] :
          /\ log'[b][l] = m
          /\ \A k \in DOMAIN log'[b] : (k = l \/ k \in DOMAIN log[b]) /\ ~(l < k)
    <2>1. b \in Brokers /\ m \in Message /\ TypeOK
      BY <1>1, <1>2
    <2> HIDE DEF b
    <2> QED BY <1>a, <2>1, Appended
  <1>4. /\ log' \in [Brokers -> Seq(Message)]
        /\ \A c \in Brokers \ {b} : log'[c] = log[c]
        /\ \A k \in DOMAIN log[b] : k \in DOMAIN log'[b] /\ log'[b][k] = log[b][k]
    <2>1. log' \in [Brokers -> Seq(Message)]
      BY <1>a, <1>1, <1>2, Appended
    <2>2. \A c \in Brokers \ {b} : log'[c] = log[c]
      BY <1>a, <1>1, <1>2, Appended
    <2>3. \A k \in DOMAIN log[b] : k \in DOMAIN log'[b] /\ log'[b][k] = log[b][k]
      BY <1>a, <1>1, <1>2, Appended
    <2> QED BY <2>1, <2>2, <2>3
  <1>5. n \in 1 .. NBrokers + 1 /\ NBrokers \in Nat
    BY <1>0, <1>2, SomeBrokers
  <1>6. broker' \in [Requests -> 1 .. NBrokers + 1]
    BY <1>0, <1>1, <1>5
  <1>7. TypeOK'
    BY <1>0, <1>4, <1>6 DEF IInv, TypeOK
  <1>8. broker'[r] = n /\ \A q \in Requests \ {r} : broker'[q] = broker[q]
    BY <1>0, <1>1
  <1>9. Alone(r)
    <2>1. \A c \in Brokers : \A k \in DOMAIN log[c] :
            k \in DOMAIN log'[c] /\ log'[c][k] = log[c][k]
      <3> SUFFICES ASSUME NEW c \in Brokers, NEW k \in DOMAIN log[c]
                   PROVE  k \in DOMAIN log'[c] /\ log'[c][k] = log[c][k]
        OBVIOUS
      <3>1. CASE c = b
        BY <3>1, <1>4
      <3>2. CASE c # b
        BY <3>2, <1>4
      <3> QED BY <3>1, <3>2
    <2> QED BY <1>0, <1>8, <2>1 DEF Alone
  <1>10. ReqAt(r)'
    BY <1>0 DEF IInv, ReqInv, ReqAt, Accepted
  <1>11. ASSUME NEW c \in Brokers, NEW k \in DOMAIN log'[c]
         PROVE  \/ k \in DOMAIN log[c] /\ log'[c][k] = log[c][k]
                \/ c = b /\ k = l /\ log'[c][k] = m
    BY <1>4, <1>b, <1>11
  <1>12. LogInv'
    <2> SUFFICES ASSUME NEW c \in Brokers, NEW k \in DOMAIN log'[c]
                 PROVE  LET x == log'[c][k] IN
                        /\ pc[x.req] \in {"event", "write", "200", "aborted"}
                        /\ x.ev \in Wanted(body[x.req], c)
                        /\ x = Meant(x.req, body[x.req], x.ev)
                        /\ x.ev <= ev[x.req]
                        /\ pc[x.req] = "write" /\ x.ev = ev[x.req]
                             => c < broker'[x.req]
      BY <1>0 DEF LogInv, Accepted
    <2>1. CASE k \in DOMAIN log[c] /\ log'[c][k] = log[c][k]
      <3> DEFINE x == log[c][k]
      <3>1. /\ Accepted(x.req) /\ x.ev \in Wanted(body[x.req], c)
            /\ x = Meant(x.req, body[x.req], x.ev)
            /\ x.ev <= ev[x.req]
            /\ pc[x.req] = "write" /\ x.ev = ev[x.req] => c < broker[x.req]
        BY <2>1 DEF IInv, LogInv
      <3>2. x.req \in Requests
        BY <2>1, <1>1, LogTypes
      <3>3. c \in Nat
        BY SomeBrokers DEF Brokers
      <3> HIDE DEF x
      <3>4. c < broker[x.req] => c < broker'[x.req]
        BY <1>2, <1>8, <3>2, <3>3
      <3> QED BY <2>1, <3>1, <3>4 DEF x, Accepted
    <2>2. CASE c = b /\ log'[c][k] = m
      <3>2. c < broker'[r]
        BY <1>2, <1>8, <2>2
      <3>3. ev[r] <= ev[r]
        BY <1>2
      <3> QED BY <1>0, <1>2, <1>3, <2>2, <3>2, <3>3
    <2> QED BY <2>1, <2>2, <1>11
  <1>13. InOrder'
    <2> SUFFICES ASSUME NEW c \in Brokers, NEW i \in DOMAIN log'[c],
                        NEW j \in DOMAIN log'[c],
                        i < j, log'[c][i].req = log'[c][j].req
                 PROVE  log'[c][i].ev < log'[c][j].ev
      BY DEF InOrder
    <2>1. CASE /\ i \in DOMAIN log[c] /\ log'[c][i] = log[c][i]
               /\ j \in DOMAIN log[c] /\ log'[c][j] = log[c][j]
      BY <2>1 DEF IInv, InOrder
    <2>2. CASE /\ i \in DOMAIN log[c] /\ log'[c][i] = log[c][i]
               /\ c = b /\ j = l /\ log'[c][j] = m
      <3>1. log[c][i].req = r /\ log[c][i].ev \in Nat
        BY <2>2, <1>1, <1>3, LogTypes
      <3>2. /\ log[c][i].ev <= ev[r]
            /\ log[c][i].ev = ev[r] => b < broker[r]
        BY <1>0, <2>2, <3>1 DEF IInv, LogInv
      <3>3. log[c][i].ev < ev[r]
        BY <1>2, <3>1, <3>2
      <3> QED BY <1>3, <2>2, <3>3
    <2>3. CASE c = b /\ i = l
      BY <1>b, <2>3
    <2> QED BY <2>1, <2>2, <2>3, <1>11
  <1>14. DoneAt(r)'
    <2> SUFFICES ASSUME probed[r], ~refused[r],
                        NEW c \in Brokers, NEW j \in Wanted(body[r], c),
                        Behind(r, c, j)'
                 PROVE  \E k \in DOMAIN log'[c] : log'[c][k] = Meant(r, body[r], j)
      BY <1>0 DEF DoneAt
    <2>1. c \in Nat
      BY SomeBrokers DEF Brokers
    <2>2. CASE j = ev[r] /\ c = b
      BY <1>2, <1>b, <2>2
    <2>3. CASE ~(j = ev[r] /\ c = b)
      <3>1. Behind(r, c, j)
        BY <1>0, <1>2, <1>8, <2>1, <2>3 DEF Behind
      <3>2. PICK k \in DOMAIN log[c] : log[c][k] = Meant(r, body[r], j)
        BY <1>0, <3>1 DEF IInv, DoneInv, DoneAt
      <3> QED BY <1>9, <3>2 DEF Alone
    <2> QED BY <2>2, <2>3
  <1> QED BY <1>7, <1>9, <1>10, <1>12, <1>13, <1>14, AloneInv

LEMMA NextInv == IInv /\ [Next]_vars => IInv'
  <1> SUFFICES ASSUME IInv, [Next]_vars PROVE IInv'
    OBVIOUS
  <1>1. CASE LoadBrokers \/ Connect \/ doReadiness \/ Done \/ UNCHANGED vars
    BY <1>1, SetupInv DEF Done
  <1>2. ASSUME NEW r \in Requests, RequestStep(r) PROVE IInv'
    BY <1>2, ParseInv, WriteEndInv, WriteNilInv, PassInv, WriteInv DEF RequestStep
  <1>3. ASSUME NEW r \in Requests, NEW bd \in Bodies[r], Receive(r, bd)
        PROVE  IInv'
    BY <1>3, ReceiveInv
  <1>4. ASSUME NEW r \in Requests, ReceiveFails(r) PROVE IInv'
    BY <1>4, ReceiveFailsInv
  <1> QED BY <1>1, <1>2, <1>3, <1>4 DEF Next

\* Requests, refusals and setupKafka, however they interleave, keep the
\* handlers, the producers and the brokers' logs consistent (rest.go 118-247,
\* kafka.go 45-179).
THEOREM Invariant == Spec => []IInv
  BY InitInv, NextInv, PTL DEF Spec

\* Every variable has its type; in particular nothing but well-formed
\* messages with a topic reaches a producer.
THEOREM TypeCorrect == Spec => []TypeOK
  BY Invariant, PTL DEF IInv

\* The brokers get the events of a request at most once and in the order of
\* its body, whatever other requests and setupKafka do meanwhile.
THEOREM DeliveredInOrder == Spec => []InOrder
  BY Invariant, PTL DEF IInv

\* Once the readiness probe has answered 204, a request that is answered 200
\* and that no producer refused has all its events, and nothing else, at the
\* brokers that publish their topics.
THEOREM ReadyMeansDelivered == Spec => []ReadyDelivers
  <1>1. IInv => ReadyDelivers
    <2> SUFFICES ASSUME IInv, NEW r \in Requests, probed[r], pc[r] = "200",
                        ~refused[r], NEW b \in Brokers
                 PROVE  Given(r, b) = Demand(r, body[r], b)
      BY DEF ReadyDelivers
    <2>1. /\ body[r] \in Bodies[r] /\ ev[r] = Len(body[r].events)
      BY DEF IInv, ReqInv, ReqAt, Accepted
    <2>2. body[r].events \in Seq(PostedEvent)
      BY <2>1, BodyType
    <2>3. ASSUME NEW m \in Given(r, b) PROVE m \in Demand(r, body[r], b)
      <3>1. PICK k \in DOMAIN log[b] : m = log[b][k] /\ m.req = r
        BY DEF Given
      <3>2. m.ev \in Wanted(body[r], b) /\ m = Meant(r, body[r], m.ev)
        BY <3>1 DEF IInv, LogInv
      <3> QED BY <3>2 DEF Demand
    <2>4. ASSUME NEW m \in Demand(r, body[r], b) PROVE m \in Given(r, b)
      <3>1. PICK i \in Wanted(body[r], b) : m = Meant(r, body[r], i)
        BY DEF Demand
      <3>2. i \in 1 .. Len(body[r].events)
        BY <2>2 DEF Wanted
      <3>3. Len(body[r].events) \in Nat
        BY <2>2
      <3>4. i < ev[r] \/ i = ev[r]
        BY <2>1, <3>2, <3>3
      <3>5. Behind(r, b, i)
        BY <3>4 DEF Behind
      <3>6. PICK k \in DOMAIN log[b] : log[b][k] = m
        BY <3>1, <3>5 DEF IInv, DoneInv, DoneAt
      <3>7. m.req = r
        BY <3>1, MeantFields
      <3> QED BY <3>6, <3>7 DEF Given
    <2> QED BY <2>3, <2>4
  <1> QED BY <1>1, Invariant, PTL

\* A request that comes after readiness is never given up half-way, as long
\* as the collector keeps the timestamps it is given.
LEMMA NotAbortedNext ==
  ASSUME ~IgnoreProvidedTimestamp
  PROVE  IInv /\ NotAborted /\ [Next]_vars => NotAborted'
  <1> SUFFICES ASSUME IInv, NotAborted, [Next]_vars PROVE NotAborted'
    OBVIOUS
  <1>1. CASE LoadBrokers \/ Connect \/ doReadiness \/ Done \/ UNCHANGED vars
    BY <1>1 DEF LoadBrokers, Connect, doReadiness, Done, vars, reqVars, NotAborted
  <1>2. ASSUME NEW r \in Requests, RequestStep(r) PROVE NotAborted'
    <2>1. UNCHANGED probed
      BY <1>2 DEF RequestStep, ParseEvent, WriteEnd, WriteSkip, WriteNil, Write,
         WriteRefused
    <2>2. pc \in [Requests -> {"none", "event", "write"} \cup Answer]
      BY DEF IInv, TypeOK
    <2>3. CASE ~WriteNil(r)
      <3>1. \/ pc' = pc
            \/ \E to \in {"200", "event", "write"} : pc' = [pc EXCEPT ![r] = to]
        BY <1>2, <2>3 DEF RequestStep, ParseEvent, TimestampPanics, WriteEnd,
           WriteSkip, Write, WriteRefused
      <3> QED BY <2>1, <2>2, <3>1 DEF NotAborted
    <2>4. CASE WriteNil(r)
      <3>1. pc' = [pc EXCEPT ![r] = "aborted"]
        BY <2>4 DEF WriteNil
      <3>2. ~probed[r]
        <4>1. pc[r] = "write" /\ broker[r] <= last[r] /\ broker[r] > nconn
          BY <2>4 DEF WriteNil
        <4> QED BY <4>1, Writing, SomeBrokers
      <3> QED BY <2>1, <2>2, <3>1, <3>2 DEF NotAborted
    <2> QED BY <2>3, <2>4
  <1>3. ASSUME NEW r \in Requests,
               ReceiveFails(r) \/ \E bd \in Bodies[r] : Receive(r, bd)
        PROVE  NotAborted'
    <2>1. /\ pc \in [Requests -> {"none", "event", "write"} \cup Answer]
          /\ probed \in [Requests -> BOOLEAN]
      BY DEF IInv, TypeOK
    <2>2. \E to \in {"400", "unread", "event"} : pc' = [pc EXCEPT ![r] = to]
      BY <1>3 DEF Receive, ReceiveFails
    <2>3. probed' = [probed EXCEPT ![r] = ready]
      BY <1>3 DEF Receive, ReceiveFails
    <2>4. \A q \in Requests : q # r => pc'[q] = pc[q] /\ probed'[q] = probed[q]
      BY <2>1, <2>2, <2>3
    <2>5. pc'[r] # "aborted"
      BY <2>1, <2>2
    <2> QED BY <2>4, <2>5 DEF NotAborted
  <1> QED BY <1>1, <1>2, <1>3 DEF Next

LEMMA NotAbortedInv ==
  ASSUME ~IgnoreProvidedTimestamp
  PROVE  Spec => [](IInv /\ NotAborted)
  <1>1. Init => NotAborted
    BY DEF Init, NotAborted
  <1>2. IInv /\ NotAborted /\ [Next]_vars => (IInv /\ NotAborted)'
    BY NextInv, NotAbortedNext
  <1> QED BY <1>1, <1>2, InitInv, PTL DEF Spec

\* Neither a producer that is nil nor an event without Oem ends a request
\* that came after the probe had answered 204, unless the collector is told
\* to ignore the timestamps it is given (rest.go 161).
THEOREM NoneAborted ==
  ASSUME ~IgnoreProvidedTimestamp
  PROVE  Spec => []NotAborted
  BY NotAbortedInv, PTL

(***************************************************************************)
(* EventIngress implements EventDelivery.                                  *)
(***************************************************************************)
Due(r, b) == IF Open(r) THEN {Meant(r, body[r], i) : i \in Ahead(r, b)} ELSE {}

LEMMA OwedFacts ==
  /\ StillOwed = [r \in Requests |-> [b \in Brokers |-> Due(r, b)]]
  /\ StillOwed' = [r \in Requests |-> [b \in Brokers |-> Due(r, b)']]
  /\ \A r \in Requests, b \in Brokers : StillOwed[r][b] = Due(r, b)
  BY DEF StillOwed, Due

LEMMA AheadIds ==
  ASSUME IInv, NEW r \in Requests, Accepted(r), NEW b \in Brokers
  PROVE  /\ Wanted(body[r], b) \subseteq 1 .. Len(body[r].events)
         /\ Len(body[r].events) \in Nat /\ b \in Nat \ {0} /\ ev[r] \in Nat
  <1>1. body[r].events \in Seq(PostedEvent) /\ ev[r] \in Nat
    BY BodyType, RequestTypes DEF IInv, ReqInv, ReqAt
  <1> QED BY <1>1, SomeBrokers DEF Wanted, Brokers

\* what the abstract specification sees of a step of request r alone
LEMMA AloneSeen ==
  ASSUME IInv, NEW r \in Requests, Alone(r)
  PROVE  /\ probed' = probed
         /\ StillOwed' = [StillOwed EXCEPT ![r] = [b \in Brokers |-> Due(r, b)']]
         /\ RequestState' = [RequestState EXCEPT ![r] = RequestState'[r]]
  <1>1. \A q \in Requests \ {r} : RequestState'[q] = RequestState[q]
    BY DEF Alone, RequestState, Open
  <1>2. /\ RequestState = [q \in Requests |-> RequestState[q]]
        /\ RequestState' = [q \in Requests |-> RequestState'[q]]
    BY DEF RequestState
  <1>3. ASSUME NEW q \in Requests \ {r}, NEW b \in Brokers
        PROVE  Due(q, b)' = Due(q, b)
    <2>1. Open(q)' = Open(q)
      BY DEF Alone, Open
    <2>2. Ahead(q, b)' = Ahead(q, b)
      BY DEF Alone, Ahead
    <2>3. body'[q] = body[q]
      BY DEF Alone
    <2> QED BY <2>1, <2>2, <2>3 DEF Due
  <1>4. \A q \in Requests \ {r} :
          [b \in Brokers |-> Due(q, b)'] = [b \in Brokers |-> Due(q, b)]
    BY <1>3
  <1>5. StillOwed' = [StillOwed EXCEPT ![r] = [b \in Brokers |-> Due(r, b)']]
    BY <1>4, OwedFacts
  <1> QED BY <1>1, <1>2, <1>5 DEF Alone

\* A step after which every broker is owed what it was owed is invisible.
LEMMA Unseen ==
  ASSUME IInv, NEW r \in Requests, Alone(r), log' = log, Open(r), Open(r)',
         \A b \in Brokers : Ahead(r, b)' = Ahead(r, b)
  PROVE  UNCHANGED Delivery!vars
  <1>1. \A b \in Brokers : Due(r, b)' = Due(r, b)
    BY DEF Due, Alone
  <1>2. [b \in Brokers |-> Due(r, b)'] = StillOwed[r]
    BY <1>1, OwedFacts
  <1>3. StillOwed' = StillOwed
    BY <1>2, AloneSeen, OwedFacts
  <1>4. RequestState[r] = "open" /\ RequestState'[r] = "open"
    BY DEF RequestState, Open
  <1>5. RequestState' = RequestState
    <2>1. RequestState' = [RequestState EXCEPT ![r] = RequestState[r]]
      BY <1>4, AloneSeen
    <2>2. RequestState = [q \in Requests |-> RequestState[q]]
      BY DEF RequestState
    <2> QED BY <2>1, <2>2
  <1> QED BY <1>3, <1>5, AloneSeen DEF Delivery!vars

LEMMA StepAlone ==
  ASSUME IInv, NEW r \in Requests,
         \/ ParseEvent(r) \/ WriteEnd(r) \/ WriteSkip(r) \/ WriteNil(r)
         \/ WriteRefused(r)
  PROVE  Alone(r) /\ log' = log
  <1>1. UNCHANGED <<loaded, nconn, body, probed, ready, log>>
    BY DEF ParseEvent, WriteEnd, WriteSkip, WriteNil, WriteRefused, setupVars
  <1>2. DOMAIN pc = Requests /\ DOMAIN ev = Requests /\ DOMAIN broker = Requests
        /\ DOMAIN last = Requests /\ DOMAIN refused = Requests
    BY DEF IInv, TypeOK
  <1>3. /\ \E x : pc' = [pc EXCEPT ![r] = x] \/ pc' = pc
        /\ \E x : ev' = [ev EXCEPT ![r] = x] \/ ev' = ev
        /\ \E x : broker' = [broker EXCEPT ![r] = x] \/ broker' = broker
        /\ \E x : last' = [last EXCEPT ![r] = x] \/ last' = last
        /\ \E x : refused' = [refused EXCEPT ![r] = x] \/ refused' = refused
    BY DEF ParseEvent, WriteEnd, WriteSkip, WriteNil, WriteRefused
  <1>4. \A q \in Requests \ {r} :
          /\ pc'[q] = pc[q] /\ ev'[q] = ev[q] /\ broker'[q] = broker[q]
          /\ last'[q] = last[q] /\ refused'[q] = refused[q]
    BY <1>2, <1>3
  <1> QED BY <1>1, <1>4 DEF Alone

\* A request ends: nothing is owed any more, or it was not covered.
LEMMA EndSeen ==
  ASSUME IInv, NEW r \in Requests, Alone(r), log' = log, Open(r),
         pc'[r] \in Answer,
         probed[r] => \A b \in Brokers : Ahead(r, b) = {}
  PROVE  Delivery!End(r)
  <1>1. RequestState[r] = "open" /\ RequestState'[r] = "ended"
    BY DEF RequestState, Open, Answer
  <1>2. RequestState' = [RequestState EXCEPT ![r] = "ended"]
    BY <1>1, AloneSeen
  <1>3. \A b \in Brokers : Due(r, b)' = {}
    BY DEF Due, Open, Answer
  <1>4. [b \in Brokers |-> Due(r, b)'] = Delivery!Nothing
    BY <1>3 DEF Delivery!Nothing
  <1>5. StillOwed' = [StillOwed EXCEPT ![r] = Delivery!Nothing]
    BY <1>4, AloneSeen
  <1>6. probed[r] => StillOwed[r] = Delivery!Nothing
    <2> SUFFICES ASSUME probed[r] PROVE StillOwed[r] = Delivery!Nothing
      OBVIOUS
    <2>1. \A b \in Brokers : Due(r, b) = {}
      BY DEF Due
    <2> QED BY <2>1, OwedFacts DEF Delivery!Nothing
  <1>7. probed' = probed
    BY AloneSeen
  <1> QED BY <1>1, <1>2, <1>5, <1>6, <1>7 DEF Delivery!End

\* The event at hand is not given to the brokers B.
LEMMA LoseSeen ==
  ASSUME IInv, NEW r \in Requests, Alone(r), log' = log, Open(r), Open(r)',
         NEW B \in SUBSET Brokers, B # {}, NEW n,
         \A b \in B : /\ n \in Ahead(r, b) /\ \A i \in Ahead(r, b) : n <= i
                      /\ Ahead(r, b)' = Ahead(r, b) \ {n},
         \A b \in Brokers \ B : Ahead(r, b)' = Ahead(r, b),
         probed[r] => Refusals /\ \E b \in Brokers : B = {b}
  PROVE  Delivery!Lose(r, B)
  <1> DEFINE old == StillOwed[r]
             new == [b \in Brokers |-> IF b \in B THEN {m \in old[b] : m.ev # n}
                                       ELSE old[b]]
  <1>1. RequestState[r] = "open" /\ RequestState'[r] = "open"
    BY DEF RequestState, Open
  <1>2. RequestState' = RequestState
    <2>1. RequestState' = [RequestState EXCEPT ![r] = RequestState[r]]
      BY <1>1, AloneSeen
    <2>2. RequestState = [q \in Requests |-> RequestState[q]]
      BY DEF RequestState
    <2> QED BY <2>1, <2>2
  <1>3. \A b \in Brokers :
          /\ old[b] = {Meant(r, body[r], i) : i \in Ahead(r, b)}
          /\ Due(r, b)' = {Meant(r, body[r], i) : i \in Ahead(r, b)'}
    BY OwedFacts DEF Due, Alone
  <1>4. \A i : Meant(r, body[r], i).ev = i
    BY MeantFields
  <1>5. ASSUME NEW b \in B
        PROVE  /\ Due(r, b)' = {m \in old[b] : m.ev # n}
               /\ \E m \in old[b] : m.ev = n /\ Delivery!IsFirst(m, old[b])
    <2>1. Due(r, b)' = {m \in old[b] : m.ev # n}
      <3> HIDE DEF old
      <3> QED BY <1>3, <1>4
    <2>2. Meant(r, body[r], n) \in old[b]
      BY <1>3
    <2>3. \A m \in old[b] : n <= m.ev
      <3> HIDE DEF old
      <3> QED BY <1>3, <1>4
    <2> QED BY <1>4, <2>1, <2>2, <2>3 DEF Delivery!IsFirst
  <1>6. \A b \in Brokers : Due(r, b)' = new[b]
    <2> SUFFICES ASSUME NEW b \in Brokers PROVE Due(r, b)' = new[b]
      OBVIOUS
    <2>1. CASE b \in B
      BY <2>1, <1>5
    <2>2. CASE b \notin B
      BY <2>2, <1>3
    <2> QED BY <2>1, <2>2
  <1>7. [b \in Brokers |-> Due(r, b)'] = new
    BY <1>6
  <1>8. StillOwed' = [StillOwed EXCEPT ![r] = new]
    BY <1>7, AloneSeen
  <1>9. n \in {m.ev : m \in UNION {StillOwed[r][b] : b \in B}}
    BY <1>5
  <1>10. \A b \in B : \E m \in StillOwed[r][b] :
            m.ev = n /\ Delivery!IsFirst(m, StillOwed[r][b])
    BY <1>5
  <1>11. StillOwed' = [StillOwed EXCEPT ![r] =
            [b \in Brokers |-> IF b \in B THEN {m \in @[b] : m.ev # n} ELSE @[b]]]
    BY <1>8
  <1>12. probed' = probed
    BY AloneSeen
  <1> QED BY <1>1, <1>2, <1>9, <1>10, <1>11, <1>12 DEF Delivery!Lose

LEMMA ParseSeen ==
  ASSUME ~IgnoreProvidedTimestamp, IInv, NEW r \in Requests, ParseEvent(r)
  PROVE  \/ UNCHANGED Delivery!vars \/ Delivery!End(r)
         \/ \E B \in SUBSET Brokers : Delivery!Lose(r, B)
  <1> DEFINE es == body[r].events
             i == ev[r] + 1
  <1>0. Alone(r) /\ log' = log /\ pc[r] = "event" /\ body' = body
    BY StepAlone DEF ParseEvent
  <1>1. Open(r) /\ Accepted(r)
    BY <1>0 DEF Open, Accepted
  <1>2. /\ body[r] \in Bodies[r] /\ ev[r] <= Len(es) /\ ev[r] \in Nat
        /\ es \in Seq(PostedEvent)
    BY <1>1, RequestTypes, BodyType DEF IInv, ReqInv, ReqAt
  <1>3. DOMAIN pc = Requests /\ DOMAIN ev = Requests /\ DOMAIN broker = Requests
        /\ DOMAIN last = Requests
    BY DEF IInv, TypeOK
  <1>4. \A b \in Brokers :
          /\ Wanted(body[r], b) \subseteq 1 .. Len(es)
          /\ Len(es) \in Nat /\ b \in Nat \ {0}
    BY <1>1, AheadIds
  <1>5. \A b \in Brokers : Ahead(r, b) = {k \in Wanted(body[r], b) : k > ev[r]}
    BY <1>0 DEF Ahead
  <1>8. \A b \in Brokers : \A k \in Wanted(body[r], b) :
          /\ k > ev[r] <=> k > i \/ k = i
          /\ k > ev[r] => i <= k
          /\ k > i => k # i
    BY <1>2, <1>4
  <1>6. CASE i > Len(es)
    <2>1. pc' = [pc EXCEPT ![r] = "200"]
      BY <1>6 DEF ParseEvent
    <2>2. pc'[r] \in Answer
      BY <1>3, <2>1 DEF Answer
    <2>3. \A b \in Brokers : Ahead(r, b) = {}
      BY <1>2, <1>4, <1>5, <1>6
    <2> QED BY <1>0, <1>1, <2>2, <2>3, EndSeen
  <1>7. CASE ~(i > Len(es))
    <2>1. /\ pc'[r] = IF RestTopic(es[i]) = NoTopic THEN "event" ELSE "write"
          /\ ev'[r] = i /\ broker'[r] = 1
          /\ last'[r] = IF loaded THEN NBrokers ELSE 0
      BY <1>3, <1>7 DEF ParseEvent, TimestampPanics
    <2>2. Open(r)'
      BY <2>1 DEF Open
    <2>3. CASE pc'[r] = "event"
      <3>1. \A b \in Brokers : i \notin Wanted(body[r], b)
        BY <2>1, <2>3, PublishedTopics DEF Wanted
      <3>2. \A b \in Brokers : Ahead(r, b)' = {k \in Wanted(body[r], b) : k > i}
        BY <1>0, <2>1, <2>3 DEF Ahead
      <3>3. \A b \in Brokers : Ahead(r, b)' = Ahead(r, b)
        BY <1>5, <1>8, <3>1, <3>2
      <3> QED BY <1>0, <1>1, <2>2, <3>3, Unseen
    <2>4. CASE pc'[r] = "write" /\ loaded
      <3>1. \A b \in Brokers : 1 <= b /\ b <= NBrokers
        BY SomeBrokers DEF Brokers
      <3>2. \A b \in Brokers :
              Ahead(r, b)' = {k \in Wanted(body[r], b) : k > i \/ k = i}
        BY <1>0, <2>1, <2>4, <3>1 DEF Ahead
      <3>3. \A b \in Brokers : Ahead(r, b)' = Ahead(r, b)
        BY <1>5, <1>8, <3>2
      <3> QED BY <1>0, <1>1, <2>2, <3>3, Unseen
    <2>5. CASE pc'[r] = "write" /\ ~loaded
      <3> DEFINE B == {b \in Brokers : i \in Wanted(body[r], b)}
      <3>1. \A b \in Brokers : Ahead(r, b)' = {k \in Wanted(body[r], b) : k > i}
        <4>1. \A b \in Brokers : ~(b <= 0)
          BY <1>4
        <4> QED BY <1>0, <2>1, <2>5, <4>1 DEF Ahead
      <3>2. \A b \in Brokers \ B : Ahead(r, b)' = Ahead(r, b)
        BY <1>5, <1>8, <3>1
      <3>3. \A b \in B : /\ i \in Ahead(r, b) /\ \A k \in Ahead(r, b) : i <= k
                         /\ Ahead(r, b)' = Ahead(r, b) \ {i}
        <4> SUFFICES ASSUME NEW b \in B
                     PROVE  /\ i \in Ahead(r, b) /\ \A k \in Ahead(r, b) : i <= k
                            /\ Ahead(r, b)' = Ahead(r, b) \ {i}
          OBVIOUS
        <4>1. b \in Brokers /\ i \in Wanted(body[r], b)
          OBVIOUS
        <4> HIDE DEF i
        <4> QED BY <1>5, <1>8, <3>1, <4>1
      <3>4. ~probed[r]
        BY <2>5 DEF IInv, ConnInv
      <3>5. CASE B = {}
        BY <1>0, <1>1, <2>2, <3>2, <3>5, Unseen
      <3>6. CASE B # {}
        <4> HIDE DEF B, i
        <4>1. B \in SUBSET Brokers
          BY DEF B
        <4> QED BY <1>0, <1>1, <2>2, <3>2, <3>3, <3>4, <3>6, <4>1, LoseSeen
      <3> QED BY <3>5, <3>6
    <2> QED BY <2>1, <2>3, <2>4, <2>5
  <1> QED BY <1>6, <1>7

\* the walk at the event at hand passes the broker it is at
LEMMA PassAhead ==
  ASSUME IInv, NEW r \in Requests, pc[r] = "write", broker[r] <= last[r],
         broker' = [broker EXCEPT ![r] = @ + 1],
         UNCHANGED <<pc, ev, last, body>>,
         NEW b \in Brokers, b = broker[r]
  PROVE  /\ \A c \in Brokers \ {b} : Ahead(r, c)' = Ahead(r, c)
         /\ \A i \in Ahead(r, b) : ev[r] <= i
         /\ Ahead(r, b)' = Ahead(r, b) \ {ev[r]}
         /\ ev[r] \in Wanted(body[r], b) => ev[r] \in Ahead(r, b)
  <1>1. Accepted(r) /\ ev[r] \in Nat /\ last[r] \in Nat /\ b \in Nat
    BY Writing
  <1>2. broker'[r] = b + 1
    BY DEF IInv, TypeOK
  <1>3. ASSUME NEW c \in Brokers
        PROVE  c \in Nat /\ Wanted(body[r], c) \subseteq Nat
    <2>1. Wanted(body[r], c) \subseteq 1 .. Len(body[r].events)
      BY <1>1, AheadIds
    <2>2. c \in Nat
      BY <1>1, AheadIds
    <2> QED BY <2>1, <2>2
  <1>4. \A c \in Brokers : c # b => (b + 1 <= c <=> b <= c)
    BY <1>1, <1>3
  <1>5. ~(b + 1 <= b) /\ b <= b /\ ev[r] <= ev[r]
    BY <1>1
  <1>6. \A c \in Brokers : \A i \in Wanted(body[r], c) :
          i > ev[r] => i # ev[r] /\ ev[r] <= i
    BY <1>1, <1>3
  <1>7. \A c \in Brokers \ {b} : Ahead(r, c)' = Ahead(r, c)
    BY <1>2, <1>4 DEF Ahead
  <1>8. Ahead(r, b) = {i \in Wanted(body[r], b) : i > ev[r] \/ i = ev[r]}
    BY <1>5 DEF Ahead
  <1>9. Ahead(r, b)' = {i \in Wanted(body[r], b) : i > ev[r]}
    BY <1>2, <1>5 DEF Ahead
  <1> QED BY <1>5, <1>6, <1>7, <1>8, <1>9

LEMMA WriteSeen ==
  ASSUME IInv, NEW r \in Requests, Write(r)
  PROVE  \E b \in Brokers : Delivery!Deliver(r, b)
  <1> DEFINE m == Current(r)
  <1>0. /\ pc[r] = "write" /\ broker[r] <= last[r]
        /\ broker' = [broker EXCEPT ![r] = @ + 1]
        /\ UNCHANGED <<loaded, nconn, pc, ev, last, body, probed, refused, ready>>
    BY DEF Write, setupVars
  <1>1. PICK b \in Brokers : b = broker[r]
    BY <1>0, Writing
  <1>2. /\ m = Meant(r, body[r], ev[r]) /\ m \in Message
        /\ ev[r] \in Wanted(body[r], b)
        /\ log' = [log EXCEPT ![b] = Append(@, m)]
    BY <1>0, <1>1, Writing DEF Write
  <1>3. /\ \A c \in Brokers \ {b} : Ahead(r, c)' = Ahead(r, c)
        /\ \A i \in Ahead(r, b) : ev[r] <= i
        /\ Ahead(r, b)' = Ahead(r, b) \ {ev[r]}
        /\ ev[r] \in Ahead(r, b)
    BY <1>0, <1>1, <1>2, PassAhead
  <1> HIDE DEF m
  <1>4. Alone(r)
    <2>1. \A q \in Requests \ {r} : broker'[q] = broker[q]
      BY <1>0 DEF IInv, TypeOK
    <2>2. ASSUME NEW c \in Brokers, NEW k \in DOMAIN log[c]
          PROVE  k \in DOMAIN log'[c] /\ log'[c][k] = log[c][k]
      BY <1>2, Appended DEF IInv
    <2> QED BY <1>0, <2>1, <2>2 DEF Alone
  <1>5. Open(r) /\ Open(r)'
    BY <1>0 DEF Open
  <1>6. RequestState' = RequestState /\ RequestState[r] = "open"
    BY <1>0, <1>5 DEF RequestState, Open
  <1>7. \A i : Meant(r, body[r], i).ev = i
    BY MeantFields
  <1>8. \A c \in Brokers :
          /\ Due(r, c) = {Meant(r, body[r], i) : i \in Ahead(r, c)}
          /\ Due(r, c)' = {Meant(r, body[r], i) : i \in Ahead(r, c)'}
    BY <1>0, <1>5 DEF Due
  <1>9. /\ m \in Due(r, b) /\ m.ev = ev[r]
        /\ \A x \in Due(r, b) : m.ev <= x.ev
    BY <1>2, <1>3, <1>7, <1>8
  <1>10. Due(r, b)' = Due(r, b) \ {m}
    <2>1. \A i : Meant(r, body[r], i) = m => i = ev[r]
      BY <1>2, <1>7
    <2> QED BY <1>2, <1>3, <1>8, <2>1
  <1>11. \A c \in Brokers \ {b} : Due(r, c)' = Due(r, c)
    BY <1>3, <1>8
  <1>12. [c \in Brokers |-> Due(r, c)'] = [StillOwed[r] EXCEPT ![b] = @ \ {m}]
    BY <1>10, <1>11, OwedFacts
  <1>13. StillOwed' = [StillOwed EXCEPT ![r][b] = @ \ {m}]
    BY <1>4, <1>12, AloneSeen
  <1>14. m \in StillOwed[r][b] /\ Delivery!IsFirst(m, StillOwed[r][b])
    BY <1>9, OwedFacts DEF Delivery!IsFirst
  <1>15. Delivery!Deliver(r, b)
    BY <1>0, <1>2, <1>6, <1>13, <1>14 DEF Delivery!Deliver
  <1> QED BY <1>15

\* The walk passes a broker that does not want the event, or that refuses it.
LEMMA PassSeen ==
  ASSUME IInv, NEW r \in Requests, WriteSkip(r) \/ WriteRefused(r)
  PROVE  \/ UNCHANGED Delivery!vars
         \/ \E B \in SUBSET Brokers : Delivery!Lose(r, B)
  <1>0. /\ pc[r] = "write" /\ broker[r] <= last[r]
        /\ broker' = [broker EXCEPT ![r] = @ + 1]
        /\ UNCHANGED <<pc, ev, last, body>>
    BY DEF WriteSkip, WriteRefused
  <1>1. PICK b \in Brokers : b = broker[r]
    BY <1>0, Writing
  <1>2. /\ \A c \in Brokers \ {b} : Ahead(r, c)' = Ahead(r, c)
        /\ \A i \in Ahead(r, b) : ev[r] <= i
        /\ Ahead(r, b)' = Ahead(r, b) \ {ev[r]}
        /\ ev[r] \in Wanted(body[r], b) => ev[r] \in Ahead(r, b)
    BY <1>0, <1>1, PassAhead
  <1>3. Alone(r) /\ log' = log /\ Open(r) /\ Open(r)'
    BY <1>0, StepAlone DEF Open
  <1>4. CASE WriteSkip(r)
    <2>1. ev[r] \notin Wanted(body[r], b)
      BY <1>0, <1>1, <1>4, Writing DEF WriteSkip
    <2>2. Ahead(r, b)' = Ahead(r, b)
      BY <1>2, <2>1 DEF Ahead
    <2> QED BY <1>2, <1>3, <2>2, Unseen
  <1>5. CASE WriteRefused(r)
    <2>1. ev[r] \in Wanted(body[r], b) /\ Refusals
      BY <1>0, <1>1, <1>5, Writing DEF WriteRefused
    <2> DEFINE B == {b}
    <2>2. B \in SUBSET Brokers /\ B # {}
      OBVIOUS
    <2>3. \A c \in B : /\ ev[r] \in Ahead(r, c) /\ \A i \in Ahead(r, c) : ev[r] <= i
                       /\ Ahead(r, c)' = Ahead(r, c) \ {ev[r]}
      BY <1>2, <2>1
    <2>4. Delivery!Lose(r, B)
      BY <1>2, <1>3, <2>1, <2>2, <2>3, LoseSeen
    <2> QED BY <2>2, <2>4
  <1> QED BY <1>4, <1>5

LEMMA ReceiveFailsSeen ==
  ASSUME IInv, NEW r \in Requests, ReceiveFails(r)
  PROVE  Delivery!Submit(r)
  <1>0. /\ pc[r] = "none" /\ pc' = [pc EXCEPT ![r] = "unread"]
        /\ probed' = [probed EXCEPT ![r] = ready]
        /\ UNCHANGED <<body, ev, broker, last, log>>
    BY DEF ReceiveFails
  <1>1. DOMAIN pc = Requests /\ ready \in BOOLEAN
    BY DEF IInv, TypeOK
  <1>2. pc'[r] = "unread" /\ \A q \in Requests \ {r} : pc'[q] = pc[q]
    BY <1>0, <1>1
  <1>3. \A q \in Requests, b \in Brokers : Due(q, b)' = Due(q, b)
    BY <1>0, <1>2 DEF Due, Open, Ahead
  <1>4. \A q \in Requests :
          [b \in Brokers |-> Due(q, b)'] = [b \in Brokers |-> Due(q, b)]
    BY <1>3
  <1>5. StillOwed' = StillOwed
    BY <1>4, OwedFacts
  <1>6. /\ RequestState[r] = "none" /\ RequestState'[r] = "ended"
        /\ \A q \in Requests \ {r} : RequestState'[q] = RequestState[q]
    BY <1>0, <1>2 DEF RequestState, Open
  <1>7. RequestState' = [RequestState EXCEPT ![r] = "ended"]
    <2>1. /\ RequestState = [q \in Requests |-> RequestState[q]]
          /\ RequestState' = [q \in Requests |-> RequestState'[q]]
      BY DEF RequestState
    <2> QED BY <1>6, <2>1
  <1> QED BY <1>0, <1>1, <1>5, <1>6, <1>7 DEF Delivery!Submit

LEMMA ReceiveSeen ==
  ASSUME IInv, NEW r \in Requests, NEW bd \in Bodies[r], Receive(r, bd)
  PROVE  Delivery!Submit(r)
  <1>0. /\ pc[r] = "none" /\ body' = [body EXCEPT ![r] = bd]
        /\ pc' = [pc EXCEPT ![r] = IF Malformed(bd) THEN "400" ELSE "event"]
        /\ probed' = [probed EXCEPT ![r] = ready]
        /\ UNCHANGED <<ev, broker, last, log>>
    BY DEF Receive
  <1>1. DOMAIN pc = Requests /\ DOMAIN body = Requests /\ ready \in BOOLEAN
    BY DEF IInv, TypeOK
  <1>2. \A q \in Requests \ {r} : pc'[q] = pc[q] /\ body'[q] = body[q]
    BY <1>0, <1>1
  <1>3. /\ body'[r] = bd
        /\ pc'[r] = IF Malformed(bd) THEN "400" ELSE "event"
    BY <1>0, <1>1
  <1>4. \A q \in Requests \ {r} : \A b \in Brokers : Due(q, b)' = Due(q, b)
    BY <1>0, <1>2 DEF Due, Open, Ahead
  <1>5. \A q \in Requests \ {r} :
          [b \in Brokers |-> Due(q, b)'] = [b \in Brokers |-> Due(q, b)]
    BY <1>4
  <1>6. StillOwed' = [StillOwed EXCEPT ![r] = [b \in Brokers |-> Due(r, b)']]
    BY <1>5, OwedFacts
  <1>7. /\ RequestState[r] = "none"
        /\ \A q \in Requests \ {r} : RequestState'[q] = RequestState[q]
        /\ RequestState'[r] = IF Malformed(bd) THEN "ended" ELSE "open"
    BY <1>0, <1>2, <1>3 DEF RequestState, Open
  <1>8. RequestState' = [RequestState EXCEPT ![r] =
                           IF Malformed(bd) THEN "ended" ELSE "open"]
    <2>1. /\ RequestState = [q \in Requests |-> RequestState[q]]
          /\ RequestState' = [q \in Requests |-> RequestState'[q]]
      BY DEF RequestState
    <2> QED BY <1>7, <2>1
  <1>9. CASE Malformed(bd)
    <2>1. \A b \in Brokers : Due(r, b)' = {} /\ Due(r, b) = {}
      BY <1>0, <1>3, <1>9 DEF Due, Open
    <2>2. [b \in Brokers |-> Due(r, b)'] = StillOwed[r]
      BY <2>1, OwedFacts
    <2>3. StillOwed' = StillOwed
      BY <1>6, <2>2, OwedFacts
    <2> QED BY <1>0, <1>1, <1>7, <1>8, <1>9, <2>3 DEF Delivery!Submit
  <1>10. CASE ~Malformed(bd)
    <2> DEFINE d == [b \in Brokers |-> Demand(r, bd, b)]
    <2>1. ev[r] = 0 /\ ev'[r] = 0
      BY <1>0 DEF IInv, ReqInv, ReqAt, Accepted
    <2>2. ASSUME NEW b \in Brokers PROVE Due(r, b)' = Demand(r, bd, b)
      <3>1. \A i \in Wanted(bd, b) : i > 0
        <4>1. DOMAIN bd.events \subseteq Nat \ {0}
          BY BodyType
        <4> QED BY <4>1 DEF Wanted
      <3>2. Ahead(r, b)' = Wanted(bd, b)
        BY <1>3, <2>1, <3>1 DEF Ahead
      <3>3. Open(r)'
        BY <1>3, <1>10 DEF Open
      <3> QED BY <1>3, <3>2, <3>3 DEF Due, Demand
    <2>3. [b \in Brokers |-> Due(r, b)'] = d
      BY <2>2
    <2>4. d \in {[b \in Brokers |-> Demand(r, x, b)] : x \in Bodies[r]}
      OBVIOUS
    <2> HIDE DEF d
    <2> QED BY <1>0, <1>1, <1>6, <1>7, <1>8, <1>10, <2>3, <2>4
        DEF Delivery!Submit
  <1> QED BY <1>9, <1>10

\* The REST server and its producers implement the ideal delivery: what is
\* given to a broker is the next event the request owes it, and nothing of a
\* request that came after readiness is lost but what that broker refuses.
THEOREM DeliveryRefined ==
  ASSUME ~IgnoreProvidedTimestamp
  PROVE  Spec => Delivers
  <1>1. Init => Delivery!Init
    <2> SUFFICES ASSUME Init PROVE Delivery!Init
      OBVIOUS
    <2>1. \A r \in Requests : pc[r] = "none"
      BY DEF Init
    <2>2. RequestState = [r \in Requests |-> "none"]
      BY <2>1 DEF RequestState
    <2>3. \A r \in Requests, b \in Brokers : Due(r, b) = {}
      BY <2>1 DEF Due, Open
    <2>4. StillOwed = [r \in Requests |-> Delivery!Nothing]
      BY <2>3, OwedFacts DEF Delivery!Nothing
    <2> QED BY <2>2, <2>4 DEF Init, Delivery!Init
  <1>2. IInv /\ [Next]_vars => [Delivery!Next]_(Delivery!vars)
    <2> SUFFICES ASSUME IInv, [Next]_vars
                 PROVE  Delivery!Next \/ UNCHANGED Delivery!vars
      OBVIOUS
    <2>1. CASE LoadBrokers \/ Connect \/ doReadiness \/ Done \/ UNCHANGED vars
      <3>1. UNCHANGED <<body, pc, ev, broker, last, probed, log>>
        BY <2>1 DEF LoadBrokers, Connect, doReadiness, Done, vars, reqVars
      <3>2. RequestState' = RequestState
        BY <3>1 DEF RequestState, Open
      <3>3. \A r \in Requests, b \in Brokers : Ahead(r, b)' = Ahead(r, b)
        BY <3>1 DEF Ahead
      <3>4. StillOwed' = StillOwed
        BY <3>1, <3>3 DEF StillOwed, Open
      <3> QED BY <3>1, <3>2, <3>4 DEF Delivery!vars
    <2>2. ASSUME NEW r \in Requests, RequestStep(r)
          PROVE  Delivery!Next \/ UNCHANGED Delivery!vars
      <3>1. CASE ParseEvent(r)
        BY <3>1, ParseSeen DEF Delivery!Next, Delivery!Serve
      <3>2. CASE WriteEnd(r)
        <4>1. Alone(r) /\ log' = log /\ Open(r) /\ Open(r)'
          <5>1. pc[r] = "write" /\ pc' = [pc EXCEPT ![r] = "event"]
            BY <3>2 DEF WriteEnd
          <5>2. pc'[r] = "event"
            BY <5>1 DEF IInv, TypeOK
          <5> QED BY <3>2, <5>1, <5>2, StepAlone DEF Open
        <4>2. \A b \in Brokers : Ahead(r, b)' = Ahead(r, b)
          <5>1. pc'[r] = "event" /\ UNCHANGED <<body, ev>> /\ pc[r] = "write"
                /\ broker[r] > last[r]
            BY <3>2 DEF WriteEnd, IInv, TypeOK
          <5>2. \A b \in Brokers : ~(broker[r] <= b /\ b <= last[r])
            BY <5>1, Writing, SomeBrokers DEF Brokers
          <5> QED BY <5>1, <5>2 DEF Ahead
        <4> QED BY <4>1, <4>2, Unseen
      <3>3. CASE WriteSkip(r) \/ WriteRefused(r)
        BY <3>3, PassSeen DEF Delivery!Next, Delivery!Serve
      <3>4. CASE WriteNil(r)
        <4>1. /\ pc[r] = "write" /\ broker[r] <= last[r] /\ broker[r] > nconn
              /\ pc' = [pc EXCEPT ![r] = "aborted"]
          BY <3>4 DEF WriteNil
        <4>2. pc'[r] \in Answer
          BY <4>1 DEF IInv, TypeOK, Answer
        <4>3. ~probed[r]
          BY <4>1, Writing, SomeBrokers
        <4>4. Delivery!End(r)
          BY <3>4, <4>1, <4>2, <4>3, StepAlone, EndSeen DEF Open
        <4> QED BY <4>4 DEF Delivery!Next, Delivery!Serve
      <3>5. CASE Write(r)
        BY <3>5, WriteSeen DEF Delivery!Next, Delivery!Serve
      <3> QED BY <2>2, <3>1, <3>2, <3>3, <3>4, <3>5 DEF RequestStep
    <2>3. ASSUME NEW r \in Requests, NEW bd \in Bodies[r], Receive(r, bd)
          PROVE  Delivery!Next
      BY <2>3, ReceiveSeen DEF Delivery!Next
    <2>4. ASSUME NEW r \in Requests, ReceiveFails(r) PROVE Delivery!Next
      BY <2>4, ReceiveFailsSeen DEF Delivery!Next
    <2> QED BY <2>1, <2>2, <2>3, <2>4 DEF Next
  <1> QED BY <1>1, <1>2, Invariant, PTL DEF Spec, Delivers, Delivery!Spec
===============================================================================
