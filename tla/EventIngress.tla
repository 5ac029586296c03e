----------------------------- MODULE EventIngress -----------------------------
(***************************************************************************)
(* The way of an event from a BMC's POST to Kafka (cmd/hmcollector/rest.go *)
(* and kafka.go): parseRequest, the topic an event is routed to,           *)
(* writeToKafka, the readiness probe, and setupKafka, which makes the      *)
(* producers while requests are already being served.                      *)
(*                                                                         *)
(* The REST server runs one goroutine per request; a panic in one is       *)
(* recovered by net/http and only ends that request.                       *)
(***************************************************************************)
EXTENDS Topics, Naturals, Sequences

CONSTANTS
  NBrokers,    \* brokers in the configuration file, in its order
  Publishes,   \* TopicsToPublish of every broker
  Requests,    \* the POSTs BMCs make (bound on their number)
  Path,        \* the last segment of every request's URL path: the xname
               \* the collector put into the subscription's destination
  Bodies,      \* Bodies[r]: the bodies the request may have
  IgnoreProvidedTimestamp,  \* flag ignore_provided_timestamp
  Refusals     \* whether a producer's queue may be full

Brokers == 1 .. NBrokers

(***************************************************************************)
(* Bodies.  Events is an array of events, a single one (Paradise BMCs),    *)
(* not there or something else.  Of an event only what the code looks at   *)
(* is kept: MessageId, Oem, the PhysicalContext of its sensors and whether *)
(* OriginOfCondition is an object, a string or of a wrong type.            *)
(***************************************************************************)
PostedEvent ==
  [registry : Registry, sensor : Sensor, oem : BOOLEAN,
   phys : {"", "INVALID", "given"},
   origin : {"none", "object", "string", "number"}]
Xnames == {Path[r] : r \in Requests}
Body == [json : BOOLEAN, ctx : {""} \cup Xnames,
         form : {"array", "object", "missing", "scalar"},
         events : Seq(PostedEvent)]

\* what unmarshalEvents refuses: one event it cannot read refuses them all
Malformed(b) ==
  \/ ~b.json \/ b.form \in {"missing", "scalar"}
  \/ \E i \in DOMAIN b.events : b.events[i].origin = "number"

\* a string as origin becomes an object
unmarshalEvent(e) ==
  [e EXCEPT !.origin = IF @ = "string" THEN "object" ELSE @]

ASSUME IngressAssumption ==
  /\ NBrokers \in Nat \ {0}
  /\ Publishes \in [Brokers -> SUBSET Topic]
  /\ Bodies \in [Requests -> SUBSET Body]
  /\ \A r \in Requests : \A b \in Bodies[r] :
       /\ b.form = "object" => Len(b.events) = 1
       \* a BMC gives the Context of the subscription, or leaves it out;
       \* the collector subscribes with the xname in both places
       /\ b.ctx \in {"", Path[r]}
  /\ IgnoreProvidedTimestamp \in BOOLEAN /\ Refusals \in BOOLEAN

VARIABLES
  loaded,    \* kafkaBrokers has been read from the configuration
  nconn,     \* brokers setupKafka has made a producer for
  body,      \* the body of every request
  pc,        \* where the goroutine of every request is
  ev,        \* index of the event it is at
  broker,    \* the broker writeToKafka is at
  last,      \* the last broker it will visit
  probed,    \* readiness had been reported when the request came
  ready,     \* doReadiness has answered 204
  refused,   \* a producer refused an event of the request
  log        \* what the producers were given: [broker -> sequence]

setupVars == <<loaded, nconn>>
reqVars == <<body, pc, ev, broker, last, probed, refused>>
vars == <<setupVars, reqVars, ready, log>>

NoBody == [json |-> FALSE, ctx |-> "", form |-> "missing", events |-> <<>>]
Answer == {"200", "400", "unread", "aborted"}
Message == [req : Requests, ev : Nat \ {0}, topic : Topic,
            ctx : Xnames, phys : {"", "INVALID", "given"},
            origin : {"none", "object"}]

TypeOK ==
  /\ loaded \in BOOLEAN /\ nconn \in 0 .. NBrokers
  /\ body \in [Requests -> Body \cup {NoBody}]
  /\ pc \in [Requests -> {"none", "event", "write"} \cup Answer]
  /\ ev \in [Requests -> Nat]
  /\ broker \in [Requests -> 1 .. NBrokers + 1]
  /\ last \in [Requests -> 0 .. NBrokers]
  /\ probed \in [Requests -> BOOLEAN] /\ refused \in [Requests -> BOOLEAN]
  /\ ready \in BOOLEAN
  /\ log \in [Brokers -> Seq(Message)]

(***************************************************************************)
(* setupKafka and doReadiness.                                             *)
(***************************************************************************)
LoadBrokers ==
  /\ ~loaded
  /\ loaded' = TRUE
  /\ UNCHANGED <<nconn, reqVars, ready, log>>

\* Mutant: the loop over the brokers goes one too far.
Connect_Extra ==
  /\ loaded /\ nconn <= NBrokers
  /\ nconn' = nconn + 1
  /\ UNCHANGED <<loaded, reqVars, ready, log>>

\* NewProducer succeeds for the next broker; a failed attempt is repeated
Connect ==
  /\ loaded /\ nconn < NBrokers
  /\ nconn' = nconn + 1
  /\ UNCHANGED <<loaded, reqVars, ready, log>>

\* Mutant: one producer is enough.
doReadiness_Any ==
  /\ loaded /\ nconn > 0
  /\ ready' = TRUE
  /\ UNCHANGED <<setupVars, reqVars, log>>

\* the probe answers 204: there are brokers and all have a producer
doReadiness ==
  /\ loaded /\ nconn = NBrokers
  /\ ready' = TRUE
  /\ UNCHANGED <<setupVars, reqVars, log>>

(***************************************************************************)
(* parseRequest.                                                           *)
(***************************************************************************)
Receive(r, b) ==
  /\ pc[r] = "none"
  /\ body' = [body EXCEPT ![r] = b]
  /\ pc' = [pc EXCEPT ![r] = IF Malformed(b) THEN "400" ELSE "event"]
  /\ probed' = [probed EXCEPT ![r] = ready]
  /\ UNCHANGED <<setupVars, ev, broker, last, refused, ready, log>>

\* the body cannot be read to its end: the handler returns
ReceiveFails(r) ==
  /\ pc[r] = "none"
  /\ pc' = [pc EXCEPT ![r] = "unread"]
  /\ probed' = [probed EXCEPT ![r] = ready]
  /\ UNCHANGED <<setupVars, body, ev, broker, last, refused, ready, log>>

\* Overriding the timestamps dereferences Oem before it is checked for nil.
TimestampPanics(e) == IgnoreProvidedTimestamp /\ ~e.oem

\* Mutant: an event of unknown sensor type ends the request's loop.
ParseEvent_Return(r) ==
  LET i == ev[r] + 1 IN
  /\ pc[r] = "event"
  /\ IF i > Len(body[r].events) \/ RestTopic(body[r].events[i]) = NoTopic
     THEN pc' = [pc EXCEPT ![r] = "200"] /\ UNCHANGED <<ev, broker, last>>
     ELSE /\ pc' = [pc EXCEPT ![r] = IF TimestampPanics(body[r].events[i])
                                     THEN "aborted" ELSE "write"]
          /\ ev' = [ev EXCEPT ![r] = i]
          /\ broker' = [broker EXCEPT ![r] = 1]
          /\ last' = [last EXCEPT ![r] = IF loaded THEN NBrokers ELSE 0]
  /\ UNCHANGED <<setupVars, body, probed, refused, ready, log>>

\* the next event, up to the call of writeToKafka, which ranges over the
\* brokers known at that moment; no event left: the handler returns
ParseEvent(r) ==
  LET i == ev[r] + 1 IN
  /\ pc[r] = "event"
  /\ IF i > Len(body[r].events)
     THEN pc' = [pc EXCEPT ![r] = "200"] /\ UNCHANGED <<ev, broker, last>>
     ELSE /\ pc' = [pc EXCEPT ![r] =
                      IF TimestampPanics(body[r].events[i]) THEN "aborted"
                      ELSE IF RestTopic(body[r].events[i]) = NoTopic THEN "event"
                      ELSE "write"]
          /\ ev' = [ev EXCEPT ![r] = i]
          /\ broker' = [broker EXCEPT ![r] = 1]
          /\ last' = [last EXCEPT ![r] = IF loaded THEN NBrokers ELSE 0]
  /\ UNCHANGED <<setupVars, body, probed, refused, ready, log>>

\* a missing Context is taken from the path, a missing PhysicalContext is
\* marked
Published(r, i) ==
  LET e == unmarshalEvent(body[r].events[i])
  IN  [req |-> r, ev |-> i, topic |-> RestTopic(e),
       ctx |-> IF body[r].ctx = "" THEN Path[r] ELSE body[r].ctx,
       phys |-> IF e.oem /\ e.phys = "" THEN "INVALID" ELSE e.phys,
       origin |-> e.origin]

Current(r) == Published(r, ev[r])

(***************************************************************************)
(* writeToKafka, one broker per step.                                      *)
(***************************************************************************)
\* all brokers visited: back to parseRequest's loop
WriteEnd(r) ==
  /\ pc[r] = "write" /\ broker[r] > last[r]
  /\ pc' = [pc EXCEPT ![r] = "event"]
  /\ UNCHANGED <<setupVars, body, ev, broker, last, probed, refused, ready, log>>

\* the broker does not publish the topic
WriteSkip(r) ==
  /\ pc[r] = "write" /\ broker[r] <= last[r]
  /\ Current(r).topic \notin Publishes[broker[r]]
  /\ broker' = [broker EXCEPT ![r] = @ + 1]
  /\ UNCHANGED <<setupVars, body, pc, ev, last, probed, refused, ready, log>>

\* Mutant: the handler waits for the producer.
WriteNil_Wait(r) ==
  /\ pc[r] = "write" /\ broker[r] <= last[r]
  /\ Current(r).topic \in Publishes[broker[r]]
  /\ broker[r] > nconn
  /\ UNCHANGED vars

\* its producer is still nil: Produce panics
WriteNil(r) ==
  /\ pc[r] = "write" /\ broker[r] <= last[r]
  /\ Current(r).topic \in Publishes[broker[r]]
  /\ broker[r] > nconn
  /\ pc' = [pc EXCEPT ![r] = "aborted"]
  /\ UNCHANGED <<setupVars, body, ev, broker, last, probed, refused, ready, log>>

\* Mutant: the message is produced twice.
Write_Twice(r) ==
  /\ pc[r] = "write" /\ broker[r] <= last[r]
  /\ Current(r).topic \in Publishes[broker[r]]
  /\ broker[r] <= nconn
  /\ log' = [log EXCEPT ![broker[r]] = @ \o <<Current(r), Current(r)>>]
  /\ broker' = [broker EXCEPT ![r] = @ + 1]
  /\ UNCHANGED <<setupVars, body, pc, ev, last, probed, refused, ready>>

\* Produce takes the event
Write(r) ==
  /\ pc[r] = "write" /\ broker[r] <= last[r]
  /\ Current(r).topic \in Publishes[broker[r]]
  /\ broker[r] <= nconn
  /\ log' = [log EXCEPT ![broker[r]] = Append(@, Current(r))]
  /\ broker' = [broker EXCEPT ![r] = @ + 1]
  /\ UNCHANGED <<setupVars, body, pc, ev, last, probed, refused, ready>>

\* Mutant: the walk ends with the broker that refuses.
WriteRefused_Return(r) ==
  /\ Refusals
  /\ pc[r] = "write" /\ broker[r] <= last[r]
  /\ Current(r).topic \in Publishes[broker[r]]
  /\ broker[r] <= nconn
  /\ refused' = [refused EXCEPT ![r] = TRUE]
  /\ broker' = [broker EXCEPT ![r] = last[r] + 1]
  /\ UNCHANGED <<setupVars, body, pc, ev, last, probed, ready, log>>

\* Produce fails: logged, and the walk goes on
WriteRefused(r) ==
  /\ Refusals
  /\ pc[r] = "write" /\ broker[r] <= last[r]
  /\ Current(r).topic \in Publishes[broker[r]]
  /\ broker[r] <= nconn
  /\ refused' = [refused EXCEPT ![r] = TRUE]
  /\ broker' = [broker EXCEPT ![r] = @ + 1]
  /\ UNCHANGED <<setupVars, body, pc, ev, last, probed, ready, log>>

Init ==
  /\ loaded = FALSE /\ nconn = 0
  /\ body = [r \in Requests |-> NoBody]
  /\ pc = [r \in Requests |-> "none"]
  /\ ev = [r \in Requests |-> 0]
  /\ broker = [r \in Requests |-> 1]
  /\ last = [r \in Requests |-> 0]
  /\ probed = [r \in Requests |-> FALSE]
  /\ refused = [r \in Requests |-> FALSE]
  /\ ready = FALSE
  /\ log = [b \in Brokers |-> <<>>]

RequestStep(r) ==
  \/ ParseEvent(r) \/ WriteEnd(r) \/ WriteSkip(r) \/ WriteNil(r)
  \/ Write(r) \/ WriteRefused(r)

\* every request has been answered
Done ==
  /\ ready /\ \A r \in Requests : pc[r] \in Answer
  /\ UNCHANGED vars

Next ==
  \/ LoadBrokers
  \/ Connect
  \/ doReadiness
  \/ \E r \in Requests : \/ RequestStep(r) \/ ReceiveFails(r)
                         \/ \E b \in Bodies[r] : Receive(r, b)
  \/ Done

Spec == Init /\ [][Next]_vars

\* The goroutine of a request is scheduled.  Nothing makes a broker accept
\* connections or a BMC send.
FairSpec == Spec /\ \A r \in Requests : WF_vars(RequestStep(r))

(***************************************************************************)
(* Properties.                                                             *)
(***************************************************************************)
\* What should come of event i of body bd of request r: it is attributed to the
\* endpoint whose subscription it came through, its sensors have a context,
\* and its origin is there in whatever form it was given.
Meant(r, bd, i) ==
  LET e == bd.events[i]
  IN  [req |-> r, ev |-> i, topic |-> RestTopic(e), ctx |-> Path[r],
       phys |-> IF e.phys # "" \/ ~e.oem THEN e.phys ELSE "INVALID",
       origin |-> IF e.origin = "none" THEN "none" ELSE "object"]

\* what broker b should get of it
Wanted(bd, b) ==
  {i \in DOMAIN bd.events : RestTopic(bd.events[i]) \in Publishes[b]}
Demand(r, bd, b) == {Meant(r, bd, i) : i \in Wanted(bd, b)}

Given(r, b) == {log[b][k] : k \in {k \in DOMAIN log[b] : log[b][k].req = r}}

\* "If the Kafka bus isn't good, then return not ready since any incoming
\* data will be dropped." (rest.go 254): once ready was reported nothing is.
\* A request that came after it and was answered has all its events, and
\* nothing else, at every broker that publishes their topics; InOrder says
\* that they are there once and in the order of the body.
ReadyDelivers ==
  \A r \in Requests :
    (probed[r] /\ pc[r] = "200" /\ ~refused[r]) =>
      \A b \in Brokers : Given(r, b) = Demand(r, body[r], b)

\* Whatever happens to a request, the brokers get each of its events at most
\* once and in the order of the body, also while producers are being made
\* and while other requests write (rest.go 158-236, kafka.go 59-89).
InOrder ==
  \A b \in Brokers : \A i, j \in DOMAIN log[b] :
    i < j /\ log[b][i].req = log[b][j].req => log[b][i].ev < log[b][j].ev

\* "we have to check each Event to determine what topic it needs to go on"
\* (rest.go 156): a well-formed request that comes after ready was reported
\* is not given up half-way, by a producer that is nil or by an event that
\* lacks an optional part.
NotAborted == \A r \in Requests : probed[r] => pc[r] # "aborted"

(***************************************************************************)
(* EventIngress implements EventDelivery.  Owed to broker b are the events *)
(* after the one at hand, and that one as long as the walk over the        *)
(* brokers has not passed b.                                               *)
(***************************************************************************)
Ahead(r, b) ==
  {i \in Wanted(body[r], b) :
     \/ i > ev[r]
     \/ i = ev[r] /\ pc[r] = "write" /\ broker[r] <= b /\ b <= last[r]}

Open(r) == pc[r] \in {"event", "write"}

RequestState ==
  [r \in Requests |-> IF pc[r] = "none" THEN "none"
                      ELSE IF Open(r) THEN "open" ELSE "ended"]
StillOwed ==
  [r \in Requests |-> [b \in Brokers |->
     IF Open(r) THEN {Meant(r, body[r], i) : i \in Ahead(r, b)} ELSE {}]]

Delivery == INSTANCE EventDelivery WITH
  Demands <- [r \in Requests |->
                {[b \in Brokers |-> Demand(r, bd, b)] : bd \in Bodies[r]}],
  state <- RequestState,
  covered <- probed,
  owed <- StillOwed

\* The server and its producers behave like the ideal delivery: in order, at
\* most once, nothing of a covered request lost but what a broker refuses,
\* to that broker alone (rest.go 118-237, kafka.go 45-91).
Delivers == Delivery!Spec

\* Every request that is accepted comes to an end, also if it meets a broker
\* that has no producer yet (rest.go 118-237, kafka.go 59-91).
RequestsEnd == Delivery!Ends
==============================================================================
