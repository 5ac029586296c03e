------------------------------- MODULE Telemetry -------------------------------
(***************************************************************************)
(* The way of polled telemetry from the endpoints to Kafka: the part of    *)
(* collectData after its checks, the channel jsonPayloads, the processData *)
(* goroutines and writeToKafka (polling.go, kafka.go), with what the River *)
(* collectors make of the payloads.                                        *)
(*                                                                         *)
(* doPolling starts after setupKafka has returned, so every broker has a   *)
(* producer.  Which endpoints are polled, and when, is module Polling's;   *)
(* here an endpoint is polled by one worker at a time.                     *)
(***************************************************************************)
EXTENDS Topics, RiverCollectors, FiniteSetsExt

CONSTANTS
  Fleets,      \* the functions endpoint |-> vendor to be looked at
  Urls,        \* Urls[v][t]: what a collector polls for a telemetry type
  Payloads,    \* Payloads[v][u]: what an endpoint of the vendor may answer
  MaxPolls,    \* polls of an endpoint of each vendor (bound)
  Processors,  \* the processData goroutines, NumWorkers = 30 in the code
  Capacity,    \* of jsonPayloads, 10000 in the code
  NBrokers,    \* Kafka brokers
  Publishes,   \* TopicsToPublish of every broker
  MaxFaults    \* failed requests and refused messages (bound)

Brokers == 1 .. NBrokers
AllUrls == UNION {Urls[v][t] : v \in Vendor, t \in TelemetryType}
TelemetryTypes == <<"Power", "Thermal">>

ASSUME TelemetryAssumption ==
  /\ \A f \in Fleets : \A e \in DOMAIN f : f[e] \in Vendor
  /\ MaxPolls \in [Vendor -> Nat] /\ MaxFaults \in Nat
  /\ IsFiniteSet(Processors)
  /\ Capacity \in Nat \ {0} /\ NBrokers \in Nat \ {0}
  /\ Publishes \in [Brokers -> SUBSET Topic]
  /\ \A v \in Vendor, t \in TelemetryType : \A u \in Urls[v][t] :
       \A p \in Payloads[v][u] \ {Undecodable} :
         /\ p \in Decoded(v, t)
         /\ p \in Mains => \A keys \in {p.PolyPhasePowerWatts, p.PolyPhaseVoltage,
                                      p.PolyPhaseCurrentAmps} : IsFiniteSet(keys)
  /\ Urls["hpepdu"]["Thermal"] = {}
  /\ \A v \in Vendor \ {"hpepdu"}, t \in TelemetryType :
       \A u, w \in Urls[v][t] : u = w

VARIABLES
  fleet,     \* the vendor of every endpoint; never changes
  poll,      \* the worker that polls each endpoint
  npolls,    \* polls of each endpoint so far
  lastPowerState,  \* Sensors of each PDU's collector
  answers,   \* the payloads collectData got and the events made of them, in
             \* order (history)
  sent,      \* what was sent on jsonPayloads, in order (history); answer and
             \* at tell which event of which answer it is
  taken,     \* how many of them have been received from it
  proc,      \* the processData goroutines
  log,       \* the bag of what each broker's producer was given, by their
             \* places in sent
  refused,   \* what its Produce refused
  panicked,  \* a worker panicked, the process is gone
  nfaults    \* faults so far

vars == <<fleet, poll, npolls, lastPowerState, answers, sent, taken, proc, log,
          refused, panicked, nfaults>>

Endpoints == DOMAIN fleet
\* events are being sent, from next on; answer is the one they were made of
IdlePoll == [type |-> 0, urls |-> {}, events |-> <<>>, next |-> 1, answer |-> 0]
AllSent(e) == poll[e].next > Len(poll[e].events)
IdleProcessor == [msg |-> 0, broker |-> 1]
InFlight == (taken + 1) .. Len(sent)

TypeOK ==
  /\ fleet \in Fleets
  /\ \A e \in Endpoints :
       /\ poll[e].type \in 0 .. Len(TelemetryTypes)
       /\ poll[e].urls \subseteq AllUrls
       /\ poll[e].next \in 1 .. Len(poll[e].events) + 1
       /\ poll[e].answer \in 0 .. Len(answers)
  /\ \A e \in Endpoints : npolls[e] \in 0 .. MaxPolls[fleet[e]]
  /\ taken \in 0 .. Len(sent) /\ Cardinality(InFlight) <= Capacity
  /\ \A p \in Processors : /\ proc[p].msg \in 0 .. taken
                           /\ proc[p].broker \in Brokers
  /\ \A b \in Brokers : BagToSet(log[b]) \cup refused[b] \subseteq 1 .. taken
  /\ panicked \in BOOLEAN /\ nfaults \in 0 .. MaxFaults

(***************************************************************************)
(* collectData, after smaOK and LastContacted have been checked.           *)
(***************************************************************************)
UrlsFor(e, type) ==
  [IdlePoll EXCEPT !.type = type, !.urls = Urls[fleet[e]][TelemetryTypes[type]]]

StartPoll(e) ==
  /\ poll[e].type = 0 /\ npolls[e] < MaxPolls[fleet[e]]
  /\ poll' = [poll EXCEPT ![e] = UrlsFor(e, 1)]
  /\ npolls' = [npolls EXCEPT ![e] = @ + 1]
  /\ UNCHANGED <<fleet, lastPowerState, answers, sent, taken, proc, log, refused,
                 panicked, nfaults>>

\* no URL left: the next telemetry type, and after the last one the worker
\* takes another endpoint.  PDUs have no URLs for Thermal.
NextType(e) ==
  /\ poll[e].type # 0 /\ poll[e].urls = {} /\ AllSent(e)
  /\ poll' = [poll EXCEPT ![e] = IF @.type = Len(TelemetryTypes) THEN IdlePoll
                                 ELSE UrlsFor(e, @.type + 1)]
  /\ UNCHANGED <<fleet, npolls, lastPowerState, answers, sent, taken, proc, log,
                 refused, panicked, nfaults>>

\* the request fails: on to the next URL
RequestFails(e, u) ==
  /\ nfaults < MaxFaults
  /\ AllSent(e) /\ u \in poll[e].urls
  /\ poll' = [poll EXCEPT ![e] = [poll[e] EXCEPT !.urls = @ \ {u}]]
  /\ nfaults' = nfaults + 1
  /\ UNCHANGED <<fleet, npolls, lastPowerState, answers, sent, taken, proc, log,
                 refused, panicked>>

\* what the outlet's sensor remembers after the payload
Remember(e, p) ==
  IF fleet[e] = "hpepdu" /\ p # Undecodable /\ p.Name = "Outlet"
     /\ p.Oid \in DOMAIN lastPowerState[e]
  THEN [lastPowerState EXCEPT ![e][p.Oid] = p.PowerState]
  ELSE lastPowerState

Got(e, u, p, evs) == [ep |-> e, poll |-> npolls[e], url |-> u,
                      type |-> TelemetryTypes[poll[e].type], payload |-> p,
                      events |-> evs]

\* An answer of any status is parsed.  Nothing but this worker uses the
\* PDU's sensors meanwhile.
Answer(e, u, p) ==
  LET v == fleet[e] t == TelemetryTypes[poll[e].type] IN
  /\ AllSent(e) /\ u \in poll[e].urls
  /\ p \in Payloads[v][u]
  /\ IF Panics(v, t, p)
     THEN /\ answers' = Append(answers, Got(e, u, p, <<>>))
          /\ panicked' = TRUE /\ UNCHANGED <<poll, lastPowerState>>
     ELSE /\ \E evs \in GetEventsForPayload(v, t, p, lastPowerState[e]) :
               /\ answers' = Append(answers, Got(e, u, p, evs))
               /\ poll' = [poll EXCEPT ![e] = [poll[e] EXCEPT !.urls = @ \ {u},
                             !.events = evs, !.next = 1, !.answer = Len(answers) + 1]]
          /\ lastPowerState' = Remember(e, p)
          /\ UNCHANGED panicked
  /\ UNCHANGED <<fleet, npolls, sent, taken, proc, log, refused, nfaults>>

Message(e) ==
  LET ev == poll[e].events[poll[e].next] IN
  [ev |-> ev, topic |-> PollTopic(ev.id), answer |-> poll[e].answer,
   at |-> poll[e].next]

\* Mutant: the channel has no bound.
Send_NoBlock(e) ==
  LET ev == poll[e].events[poll[e].next] IN
  /\ ~AllSent(e)
  /\ IF PollTopic(ev.id) = NoTopic THEN UNCHANGED sent
     ELSE sent' = Append(sent, Message(e))
  /\ poll' = [poll EXCEPT ![e] = [poll[e] EXCEPT !.next = @ + 1]]
  /\ UNCHANGED <<fleet, npolls, lastPowerState, answers, taken, proc, log, refused,
                 panicked, nfaults>>

\* the next event goes on the channel, unless its MessageId is unknown;
\* blocks while the channel is full
Send(e) ==
  LET ev == poll[e].events[poll[e].next] IN
  /\ ~AllSent(e)
  /\ IF PollTopic(ev.id) = NoTopic THEN UNCHANGED sent
     ELSE /\ Cardinality(InFlight) < Capacity
          /\ sent' = Append(sent, Message(e))
  /\ poll' = [poll EXCEPT ![e] = [poll[e] EXCEPT !.next = @ + 1]]
  /\ UNCHANGED <<fleet, npolls, lastPowerState, answers, taken, proc, log, refused,
                 panicked, nfaults>>

(***************************************************************************)
(* processData and writeToKafka, one broker per step.                      *)
(***************************************************************************)
\* Mutant: the write is left to a goroutine that shares the loop variable.
Take_Overwrite(p) ==
  /\ InFlight # {}
  /\ taken' = taken + 1
  /\ proc' = [proc EXCEPT ![p] = [@ EXCEPT !.msg = taken + 1]]
  /\ UNCHANGED <<fleet, poll, npolls, lastPowerState, answers, sent, log, refused,
                 panicked, nfaults>>

\* a message from the channel
Take(p) ==
  /\ proc[p] = IdleProcessor /\ InFlight # {}
  /\ taken' = taken + 1
  /\ proc' = [proc EXCEPT ![p] = [@ EXCEPT !.msg = taken + 1]]
  /\ UNCHANGED <<fleet, poll, npolls, lastPowerState, answers, sent, log, refused,
                 panicked, nfaults>>

Wants(p) ==
  /\ proc[p].msg # 0
  /\ sent[proc[p].msg].topic \in Publishes[proc[p].broker]

\* on to the next broker; after the last one, to the next message
NextBroker(p) ==
  proc' = [proc EXCEPT ![p] = IF @.broker = NBrokers THEN IdleProcessor
                              ELSE [proc[p] EXCEPT !.broker = @ + 1]]

WriteSkip(p) ==
  /\ proc[p].msg # 0 /\ ~Wants(p)
  /\ NextBroker(p)
  /\ UNCHANGED <<fleet, poll, npolls, lastPowerState, answers, sent, taken, log,
                 refused, panicked, nfaults>>

Write(p) ==
  /\ Wants(p)
  /\ log' = [log EXCEPT ![proc[p].broker] = @ (+) SetToBag({proc[p].msg})]
  /\ NextBroker(p)
  /\ UNCHANGED <<fleet, poll, npolls, lastPowerState, answers, sent, taken, refused,
                 panicked, nfaults>>

\* Mutant: the message is tried again with the same broker.
WriteRefused_Again(p) ==
  /\ nfaults < MaxFaults
  /\ Wants(p)
  /\ refused' = [refused EXCEPT ![proc[p].broker] = @ \cup {proc[p].msg}]
  /\ nfaults' = nfaults + 1
  /\ UNCHANGED <<fleet, poll, npolls, lastPowerState, answers, sent, taken, proc,
                 log, panicked>>

\* Produce fails: logged, and the message is not tried again
WriteRefused(p) ==
  /\ nfaults < MaxFaults
  /\ Wants(p)
  /\ refused' = [refused EXCEPT ![proc[p].broker] = @ \cup {proc[p].msg}]
  /\ NextBroker(p)
  /\ nfaults' = nfaults + 1
  /\ UNCHANGED <<fleet, poll, npolls, lastPowerState, answers, sent, taken, log,
                 panicked>>

Init ==
  /\ fleet \in Fleets
  /\ poll = [e \in Endpoints |-> IdlePoll]
  /\ npolls = [e \in Endpoints |-> 0]
  /\ lastPowerState =
       [e \in Endpoints |->
          [o \in IF fleet[e] = "hpepdu" THEN Urls["hpepdu"]["Power"] ELSE {} |-> ""]]
  /\ answers = <<>> /\ sent = <<>> /\ taken = 0
  /\ proc = [p \in Processors |-> IdleProcessor]
  /\ log = [b \in Brokers |-> EmptyBag] /\ refused = [b \in Brokers |-> {}]
  /\ panicked = FALSE /\ nfaults = 0

CollectStep(e) ==
  \/ StartPoll(e) \/ NextType(e) \/ Send(e)
  \/ \E u \in poll[e].urls :
       RequestFails(e, u) \/ \E p \in Payloads[fleet[e]][u] : Answer(e, u, p)
ProcessStep(p) == Take(p) \/ WriteSkip(p) \/ Write(p) \/ WriteRefused(p)

\* everything polled has been passed on
Quiet ==
  /\ \A e \in Endpoints : poll[e] = IdlePoll
  /\ \A p \in Processors : proc[p] = IdleProcessor
  /\ InFlight = {}

Done ==
  /\ panicked \/ (Quiet /\ \A e \in Endpoints : npolls[e] = MaxPolls[fleet[e]])
  /\ UNCHANGED vars

Next ==
  \/ /\ ~panicked
     /\ \/ \E e \in Endpoints : CollectStep(e)
        \/ \E p \in Processors : ProcessStep(p)
  \/ Done

Spec == Init /\ [][Next]_vars

(***************************************************************************)
(* Properties.                                                             *)
(***************************************************************************)
\* payloads the collectors cannot handle
WellFormed(a) ==
  a.payload # Undecodable =>
    CASE fleet[a.ep] = "intel" /\ a.type = "Power" ->
           \A i \in DOMAIN a.payload.Voltages :
             Text[a.payload.Voltages[i].Name].len >= 3
      [] fleet[a.ep] = "hpepdu" ->
           /\ a.payload.Name # "number"
           /\ a.payload.Name = "Outlet" => OidNumber[a.payload.Oid] # NotANumber
      [] OTHER -> TRUE

\* the arrays whose elements a vendor's telemetry consists of, and the
\* quantity each element is read for
Quantities(v) ==
  CASE v = "gigabyte" -> [PowerControl |-> "Power", Voltages |-> "Voltage",
                          Fans |-> "Fan", Temperatures |-> "Temperature"]
    [] v = "intel" -> [PowerControl |-> "Power", PowerSupplies |-> "Voltage",
                       Voltages |-> "Voltage", Temperatures |-> "Temperature"]
    [] v = "hpe" -> [PowerControl |-> "Power", PowerSupplies |-> "Voltage",
                     Fans |-> "Fan", Temperatures |-> "Temperature"]
    [] v = "openbmc" -> [PowerControl |-> "Power", PowerSupplies |-> "Power",
                         Voltages |-> "Voltage", Fans |-> "Fan",
                         Temperatures |-> "Temperature"]
\* nodes list other controls too, which only HPE's are all reported of
Controls(v) ==
  CASE v = "gigabyte" -> {"Chassis Power Control", "Server Power Control"}
    [] v = "intel" -> {"Server Power Control"}
    [] v = "openbmc" -> {"Chassis Power Control"}
    [] v = "hpe" -> Names

\* the state an outlet of a PDU was in the last time it was seen before the
\* k-th answer
StateBefore(e, outlet, k) ==
  LET before == {j \in 1 .. k - 1 :
                   /\ answers[j].ep = e /\ answers[j].payload # Undecodable
                   /\ answers[j].payload.Name = "Outlet"
                   /\ answers[j].payload.Oid = outlet}
  IN IF before = {} THEN "" ELSE answers[Max(before)].payload.PowerState

\* what a payload should give, [quantity, array, at] for every reading, when
\* the outlet it is about was in the state before
Item(q, array, at) == [q |-> q, array |-> array, at |-> at]
Meant(v, p, before) ==
  IF v # "hpepdu"
  THEN UNION {{Item(Quantities(v)[x], x, i) :
                 i \in {i \in DOMAIN p[x] : x = "PowerControl" =>
                                              p[x][i].Name \in Controls(v)}} :
              x \in DOMAIN Quantities(v) \cap DOMAIN p}
  ELSE CASE p.Name = "Outlet" ->
              {Item(q, "Outlet", p.Oid) : q \in {"Power", "Current", "Voltage", "Energy"}}
              \cup IF p.Oid \in Urls[v]["Power"] /\ before # p.PowerState
                   THEN {Item("ResourcePowerStateChanged", p.Oid, p.PowerState)}
                   ELSE {}
         [] p.Name = "Branch" ->
              {Item(q, "Branch", p.letter) : q \in {"Current", "Energy"}}
         [] p.Name = "Mains" ->
              {Item("Power", "Mains", n) : n \in p.PolyPhasePowerWatts}
              \cup {Item("Voltage", "Mains", n) : n \in p.PolyPhaseVoltage}
              \cup {Item("Current", "Mains", n) : n \in p.PolyPhaseCurrentAmps}
         [] OTHER -> {}
Expected(k) ==
  LET a == answers[k] IN
  IF a.payload = Undecodable THEN {}
  ELSE Meant(fleet[a.ep], a.payload, StateBefore(a.ep, a.payload.Oid, k))

\* the items of an event, in order
Items(ev) ==
  IF ev.args # <<>> THEN <<Item(ev.id, ev.args[1], ev.args[2])>>
  ELSE [i \in DOMAIN ev.sensors |->
          Item(ev.id, ev.sensors[i].value.array, ev.sensors[i].value.at)]

\* the places <<message, item>> of what broker b got on a topic of the k-th
\* answer
Places(k, b, t) ==
  UNION {{<<n, i>> : i \in DOMAIN Items(sent[n].ev)} :
         n \in {n \in BagToSet(log[b]) : sent[n].topic = t /\ sent[n].answer = k}}
ItemAt(x) == Items(sent[x[1]].ev)[x[2]]

\* Once everything polled has been passed on, every reading of every answer
\* is with every broker that publishes its topic exactly once, on the topic
\* parseRequest would have put it on, had the BMC sent it itself; so is every
\* change of an outlet's power state, and nothing else is (polling.go 108-162,
\* rest.go 180-231).  Unless a payload is broken the process is still there.
Delivered ==
  ((panicked \/ Quiet) /\ \A k \in DOMAIN answers : WellFormed(answers[k])) =>
    /\ ~panicked
    /\ \A k \in DOMAIN answers, b \in Brokers : \A t \in Publishes[b] :
         (\A n \in refused[b] : sent[n].answer # k) =>
             /\ \A n \in BagToSet(log[b]) : log[b][n] = 1
             /\ \A x, y \in Places(k, b, t) : ItemAt(x) = ItemAt(y) => x = y
             /\ {ItemAt(x) : x \in Places(k, b, t)} =
                  {x \in Expected(k) : RestTopic(AsSent(x.q)) = t}

\* Whichever goroutine took a message, and whatever the others wrote
\* meanwhile: when it is through with it the message is with every broker
\* that publishes its topic once, or was refused there, and with no other
\* (kafka.go 58-88).
PassedOnOnce ==
  \A n \in 1 .. taken : (\A p \in Processors : proc[p].msg # n) =>
    \A b \in Brokers :
      /\ n \in BagToSet(log[b]) \cup refused[b] <=> sent[n].topic \in Publishes[b]
      /\ n \in refused[b] => n \notin BagToSet(log[b])
      /\ n \in BagToSet(log[b]) => log[b][n] = 1

\* MemberIds, or the names where there are none, tell an array's elements
\* apart, and fit the index
Clean(v, p) ==
  LET Distinct(array, Key(_)) ==
        \A i, j \in DOMAIN array : Key(array[i]) = Key(array[j]) => i = j
      ById(array) == /\ \A i \in DOMAIN array :
                          array[i].MemberId \in 0 .. 255
                     /\ Distinct(array, LAMBDA x : x.MemberId)
      Short(n) == IF v = "intel" THEN Text[n].rest ELSE n
  IN p # Undecodable =>
       \A x \in DOMAIN p :
         CASE x \in {"PowerControl", "PowerSupplies", "Fans"} -> ById(p[x])
           [] x = "Voltages" -> Distinct(p[x], LAMBDA y : Short(y.Name))
           [] x = "Temperatures" -> Distinct(p[x], LAMBDA y : y.Name)
           [] OTHER -> TRUE

\* the resources of a PDU have numbers that tell them apart: one answer of a
\* poll is about an outlet, a branch or the mains
PduClean(a, c) ==
  LET p == a.payload q == c.payload IN
  (p # Undecodable /\ q # Undecodable /\ p.Name = q.Name) =>
    CASE p.Name = "Outlet" -> Index(OidNumber[p.Oid]) # Index(OidNumber[q.Oid])
      [] p.Name = "Branch" -> p.letter # q.letter
      [] p.Name = "Mains" -> FALSE
      [] OTHER -> TRUE
SamePoll(a, c) == a.ep = c.ep /\ a.poll = c.poll

\* A consumer can tell the readings of one poll apart: on a topic, two with
\* the same MessageId, contexts and Index are the same reading, if the BMC's
\* own names tell them apart (the Index of every CrayJSONPayload).
Distinguishable ==
  (/\ Quiet
   /\ \A k \in DOMAIN answers : Clean(fleet[answers[k].ep], answers[k].payload)
   /\ \A k, l \in DOMAIN answers :
        (k # l /\ SamePoll(answers[k], answers[l]) /\ fleet[answers[k].ep] = "hpepdu")
          => PduClean(answers[k], answers[l])) =>
    \A b \in Brokers : \A i, j \in BagToSet(log[b]) :
      LET m == sent[i] n == sent[j] IN
      (m.ev.id = n.ev.id /\ SamePoll(answers[m.answer], answers[n.answer])) =>
        \A x \in Range(m.ev.sensors), y \in Range(n.ev.sensors) :
          [x EXCEPT !.value = 0] = [y EXCEPT !.value = 0] => x.value = y.value

\* Thirty processData goroutines share one channel (polling.go 465-468), so
\* events overtake each other, but never by more than the number of them:
\* whenever a broker gets a message, at most one message per other goroutine
\* that was queued before it is still missing there.
BoundedDisorder ==
  [][\A b \in Brokers : \A new \in BagToSet(log'[b]) \ BagToSet(log[b]) :
       Cardinality({n \in 1 .. new - 1 :
                      /\ sent[n].topic \in Publishes[b]
                      /\ n \notin BagToSet(log[b]) \cup refused[b]})
         < Cardinality(Processors)]_vars
================================================================================
