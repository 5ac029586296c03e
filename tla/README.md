# A TLA+ development of hmcollector

hmcollector (Cray-HPE/hms-hmcollector) subscribes to the Redfish events of the
BMCs of a system, receives those events over HTTP, polls the hardware that
cannot send telemetry, and puts everything on Kafka.  It is one Go process
with some thirty to several hundred goroutines that share a handful of maps,
slices, flags and channels, mostly without locks, and that talk to BMCs, HSM,
Vault and Kafka, each of which may be slow, fail or change under it.  The unit
tests of the repository cover one pure function (`appendUniqueRegPrefix`) and
one HTTP helper; the modules here are about the rest: what the goroutines do to
each other and what failures leave behind.

`PROJECT.json` lists the components, every run, the source lines behind every
definition, the mutants that show a property can fail, the findings, the
hazards and the theorems.

## 1. Inventory

| Component | Source | State | Operations | Modelled in |
|---|---|---|---|---|
| Subscription manager | `cmd/hmcollector/rf_subscriptions.go` | map of `RFSub` records (status and prefix groups behind pointers), two channels, the BMCs' own subscription stores | scan, subscribe, verify, prune, patch, delete | `RFSubscriptions` |
| Process life cycle | `hmcollector.go` (`main`), `vault.go`, `kafka.go` | `Running`, `WaitGroup`, shutdown channels, producers | start-up, signal, flush | `Lifecycle` |
| Polling | `polling.go` | slices `endpoints` and `nonPolledEndpoints`, `LastContacted`, two channels | classify, poll, skip | `Polling` |
| SMA monitor | `kafka.go` | `smaOK` | connectivity check every 30 s | `Polling` |
| PDU power states | `river_collector/hpepdu.go` | `Sensors` map | compare, store, report | `Polling` (racing workers), `RiverCollectors` (payloads) |
| Event ingress | `rest.go`, `kafka.go` | `kafkaBrokers`, producers | receive, route, write, readiness | `EventIngress` |
| HSM refresh | `hmcollector.go`, `smd_api.go` | `HSMEndpoints` | add, bring up to date, skip | `EndpointAccess` (in `Polling` and `RFSubscriptions` as one step) |
| Redfish requests and credentials | `http.go`, `vault.go` | `User`, `Password` of the shared record | request, refresh, repeat | `EndpointAccess` |
| Redfish type cache | `cache.go`, `rf.go` | type and discovery timestamp per endpoint | read, write | `EndpointAccess` |
| HTTP client, CA roll | `hmcollector.go` | `rfClient`, `rfClientLock`, the watcher | make, register, use, replace | `EndpointAccess` |
| River collectors | `river_collector/*.go` | none but the PDU's `Sensors` | payload to events | `RiverCollectors` |
| Telemetry path | `polling.go`, `kafka.go` | channel `jsonPayloads`, 30 `processData` goroutines | parse, queue, write | `Telemetry` |
| Topics | `polling.go`, `rest.go` | none | MessageId to topic, twice | `Topics` |
| Health pages, logging, flags, profiling, tools | | | | not modelled (section 9) |

How they interact.  `doUpdateHSMEndpoints` fills `HSMEndpoints`;
`doRFSubscribe` and `monitorPollingEndpoints` each take snapshots of it and
keep lists of their own, which nothing ever shortens.  All of them, and the
workers they start, use the same endpoint records through `doHTTPAction`.
Workers and the REST server end in `writeToKafka`, which walks over the
producers `setupKafka` is still making when the first requests come.  `main`
and the signal handler tie the loops together with three unbuffered channels
and a `WaitGroup`.

Which behaviours are hard:

* *Concurrency without locks*: `*sub.Status` has three writers; `PrefixGroups`
  is appended to and ranged over; `User` and `Password` are two writes; the
  PDU `Sensors` map is shared by workers.
* *Check, then act by id*: subscriptions are listed, read, then deleted or
  patched by separate requests, on a BMC that may be exchanged in between.
* *Failures in the middle*: one group of two, one probe of four, one event of
  several, a client that cannot be made after the lock was taken.
* *Two implementations of one rule*: the topic of an event is decided in
  `collectData` for polled telemetry and in `parseRequest` for what BMCs send.
* *Payloads of five vendors*: indices of eight bits, names that are cut, maps
  in random order, slices indexed without a look at their length.
* *Ending*: sends on unbuffered channels to loops that may have left, channels
  closed under their senders, requests still being served.

What makes each component correct:

* subscription manager: every endpoint ends up with its subscriptions, once;
  nothing of another service is touched; no record is forgotten in a state
  nobody looks at;
* life cycle: a signal ends the process, and what was accepted is flushed;
* polling: every pollable endpoint is polled, by one worker at a time if it is
  a PDU, and power states are reported when they change and not otherwise;
* ingress: what is accepted after readiness reaches every broker that
  publishes its topic, in order;
* telemetry: every reading of every answer reaches every broker that wants
  it, once, on the topic a BMC's own event would have gone to, and can be told
  from the others;
* access: credentials recover, actions end, the type follows the hardware, the
  client follows the CA bundle.

## 2. Modules

    SubscriptionStore   implemented by RFSubscriptions
    RFSubscriptions  <- MCRFSubscriptions
                     <- RFSubscriptionsProofs <- SubscriptionOnceProofs
    Lifecycle        <- MCLifecycle,       LifecycleProofs
    Polling          <- MCPolling,         PollingProofs
    Topics           <- EventIngress, Telemetry
    EventDelivery       implemented by EventIngress
    EventIngress     <- MCEventIngress,    EventIngressProofs
    RiverCollectors  <- Telemetry
    Telemetry        <- MCTelemetry
                     <- CollectorProofs <- TelemetryProofs
    EndpointAccess   <- MCEndpointAccess,  EndpointAccessProofs

Each component module has the state as VARIABLES, one action per operation (or
per step, where other goroutines can come in between), `Next`, `Spec` and, when
there is a liveness property, `FairSpec`.  The `MC` modules only give values to
constants.  `SubscriptionStore` and `EventDelivery` are abstract specifications:
they say what others see of a component, and the component's module instantiates
them with a refinement mapping.  `Topics` and `RiverCollectors` have operators
only.  The operators called `X_Something` with a comment *Mutant* are
variants of `X` with a plausible bug in it; no specification uses them.

### RFSubscriptions

A record of the code's `RFSub` is an element of `Recs`; `status` and
`prefixGroups` are what its pointers point to, so that a record that was
replaced in `doRFSubscribe`'s map can still be written by its goroutine.
`proc` has the frame of every goroutine: its program counter, the groups left,
the ids left of a listing, the id at hand.  One record has one goroutine, so it
is named after the record; verifiers have names of their own.

| Model | Code |
|---|---|
| `ScanStart`, `ScanSkip`, `ScanQueue`, `ScanVerify` | `doRFSubscribe` 610-677 |
| `SubRecv`, `PruneList`, `PruneGet`, `PruneDelete` | `rfSubscribe` 460-515 |
| `DupList`, `DupGet`, `DupPrune`, `DupPatch`, `FixDelete` | `isDupRFSubscription`, `fixSubscriptionMismatch` 225-347, run by workers and verifiers alike |
| `WorkerReturn`, `GetEventTypes`, `Post`, `AppendGroup`, `WorkerDone` | `rfSubscribe` 519-577 |
| `VerifySkip`, `VerifyRecv`, `VerifyRange`, `VerifierReturn`, `VerifierDone` | `rfVerifySub` 376-417 |
| `Replace`, `ForeignSubscribe`, `HSMDiscover` | the BMC is reset or exchanged, another service subscribes, HSM discovers |

A subscription is `[base, x, ctx, pfx]`: scheme and host of its destination,
last segment of its path, context, registry prefixes.  Names are reduced to
being an xname or not and to their normal form (`x01` and `x1` are two
spellings of one xname).  Faults are named (`get`, `post`, `postlost`, ...); a
run says which may happen and how many.

`SubscriptionStore` is what the BMCs see: a collector that adds only what it
makes, mends the context only of what is addressed to itself for this endpoint,
and removes only that and what is stale, each looked at in the moment of the
change.  The mapping is the identity on `subs`; what is left out is everything
else, and with it the time between listing, reading, patching and deleting.
`StoreAsPromised` says that `RFSubscriptions` implements it if ids are not
reused.

### Lifecycle

`main`, `handler`, `loop`, `rest`, `poller` and `worker` are the program
counters of the goroutines of those names; `wg` is the counter of the
`WaitGroup`.  The body of a loop is one step.  `LoopShutdown` is the
rendezvous of the handler's send and the loop's receive; `LoopTimer` is the
other branch of the `select`.  `buffered` counts what every producer has
taken and not delivered.  `RestQuiesce` models what `http.Server.Shutdown`
does with a nil context: nothing when no connection is active, a panic
otherwise.

### Polling

`ScanStart` ... `ScanEnd` are one round of `monitorPollingEndpoints`; `prober`
holds the goroutines that classify an endpoint, one GET per step; `PollRound`,
`PollSend`, `PollSleep` are `doPolling`; `Gate`, `NextUrl`, `HttpAnswer`,
`HttpUseless` (an answer no event can be made of, which counts as contact all
the same), `HttpError`, `ParseOutlet`, `StoreOutlet`, `QueueEvent` are
`collectData` with `parseOutletPayload`.  What is known of an outlet is read,
stored and put on the channel in three steps, because the collector returns its
events to the worker before that sends them: `lastPowerState` is what is stored
and `lastEvent` what was queued last.  The chain of model tests is abstracted
to the collector it picks.  `SensorsAt` gives every PDU the sensors behind its
collections; no two endpoints share one, since a sensor's URL is its
endpoint's.  `LastContacted` is a Boolean, "less than `pduPollingInterval`
ago", which `Age` ends.  `prompt` is an assumption on the environment, chosen
once per behaviour: the PDUs answer within the intervals, or they may be
slower. `monitored` is chosen once too: whether one of the brokers is SMA's, so
that `setupKafka` starts `monitorSMA`; if not, `smaOK` stays false.

### EventIngress and EventDelivery

A body is a record of what `unmarshalEvents` and `parseRequest` look at:
whether it is JSON, whether it has a context (the path of the request has it
otherwise), whether `Events` is an array, one object or missing, and the
events.  An event is the registry of its MessageId, its last word, whether its
sensors have a PhysicalContext, whether it has an `Oem` part and how
`OriginOfCondition` is given (a string, an object, something unreadable).
`Bodies` has the bodies of each request: the collector subscribes with the
xname in the path of the destination and in the Context, so a body has the
Context of its path or none. `Receive` reads and decodes the whole body, so
that one unreadable event refuses it before anything is written; `ReceiveFails`
is a body that cannot be read to its end, for which the handler returns without
a status.  `ParseEvent` is the loop body of `parseRequest` up to
`writeToKafka`, of which every broker is a step of its own, because
`setupKafka` may make the next producer in between.

`EventDelivery` has requests, what each owes every broker, and the brokers'
logs; it has no producers and no walk.  A covered request (one that came after
readiness was reported) loses a message only to the broker that refuses it and
ends when nothing is owed; every request ends.  What is owed is a set of
messages that bear their place in the body, and a broker is given the first of
them.  The refinement mapping is `StillOwed`: what `Demand` says of the body,
which is written without the operators of the handler, less what the walk has
passed.  `Delivers` is the safety of the refinement, `RequestsEnd` its
liveness.

### RiverCollectors, Topics and Telemetry

`RiverCollectors` has one operator per collector and telemetry type.  A payload
keeps its arrays and of an element what names it; a value is the place it was
read from (`Reading`), so that one can see which reading ends up where.
`Index` is `ParseUint(.., 10, 8)` with its error ignored; `ParseBranch` gives
the set of results that the order of a Go map allows; `Panics` names the
payloads that end the process.

`Topics` has the two switches: `PollTopic` of `collectData` and `RestTopic` of
`parseRequest`.  `Telemetry` composes them with the channel, the `processData`
goroutines and `writeToKafka`, one broker per step.  `answers` is the history
of what was answered and of the events made of it, `sent` that of the channel,
each message with the answer and the place in its events it came from; `taken`
is how far the channel was received, `log` the bag of what a producer was
given.  Which endpoints are polled and when is left to `Polling`.

### EndpointAccess

`caller` holds goroutines in `doHTTPAction`, called for its own sake (`plain`)
or by `GetRedfishType` (`type`).  Credentials are generations, 0 the empty ones
that Vault gives for an endpoint without a secret (`NoSecret`, an endpoint that
becomes known all the same; `Locked` are those for which Vault fails with an
error); `sent` is what a request was authorised with, `prev` what the code
calls previous.  The two fields of a record are read and written one after the
other everywhere.  The read lock is held in state `http`; a waiting writer
keeps new readers out, as Go's `RWMutex` does.  `ca` has the life of the
Redfish client: `CreateClient` and `CreateFails` are the attempts at start-up,
`Register` and `RegisterFails` the registration of the watcher, `caChangeCB`,
`RollLock`, `RollDone` and `RollFails` the callback.  A client is the
generation of the bundle it was made from.  `failed` (the last attempt to make
or watch failed, and was logged), `unseen` (the client was out of date when the
watch began, which nothing tells) and `unusable` are history.  `Quiet` is an
assumption on HSM: it rediscovers no endpoint while its type is being looked
up.

## 3. Runs that pass

| Run | Instance | Shows |
|---|---|---|
| `sub_safety` | 1 endpoint, 2 records, 1 verifier, 3 ids never given out twice, any one fault of eleven kinds | `TypeOK`; `PendingHasWorker`: no endpoint stays PENDING with nobody working on it; `VerifyErrorKept`: a verifier's ERROR is not overwritten; `ForeignUntouched`: no step of the collector changes another service's subscription; `RightKept`: none of them changes, deletes or picks for a change one that is as it should be and that nobody had picked; `StoreAsPromised`: the refinement of `SubscriptionStore` |
| `sub_once` | hardware that arrives with stale subscriptions, a PDU beside it, one failed or lost POST, refused PATCH or foreign subscription | `StalePruned`: the stale ones are deleted in the end; `NoDuplicateSubs`: with these faults no second subscription is made; others make it false (section 4) |
| `sub_restored` | BMC reset or exchanged at any moment, a BMC that drops contexts | `Subscribed`: the endpoint gets its subscriptions back and keeps them |
| `lc_shutdown` | every flag setting, a signal at any moment | `TypeOK` (the WaitGroup never goes below 0), `FlushAfterStop`, `LoopsStop`: all started loops end, `IngressEnds`: an ingress-only collector ends |
| `poll_monitor` | node and PDU, 2 classifications at a time, garbled answers to probes and polls, endpoints that HSM drops | `TypeOK`, `PolledOnce`, `EventuallyPolled` |
| `poll_power` | 1 PDU prompt or slow, 2 workers, changes of power, lost SMA, failed and useless polls, failed probes | of prompt PDUs `OnePollerPerPDU` and `NoRepeat`; if SMA is among the brokers, `PowerStateReported`: what is stored of an outlet ends up true, of slow PDUs too, and of prompt ones the last report also |
| `in_events` | 2 requests, 2 brokers, 6 bodies of up to two events, bodies that break off, refusals | `TypeOK`, `ReadyDelivers`, `InOrder`, `NotAborted`; `Delivers`: the refinement of `EventDelivery`; `RequestsEnd`: every accepted request comes to an end |
| `tel_delivery` | 1 endpoint of any vendor, payloads of up to two elements per array, 2 processors, a channel of 1, a broker without the topic of energy, one failed request or refused message | `Delivered`: every reading is at the broker once, on the topic `parseRequest` would choose, and only broken payloads end the process; `Distinguishable`: no two readings look the same; `PassedOnOnce`: what a goroutine is through with is at every broker that publishes its topic, once, and at no other; `BoundedDisorder`: a message is overtaken only by what the other processors hold |
| `ea_credentials` | 2 callers, an endpoint whose secret comes to Vault late, changing credentials, a CA roll, a failure of BMC or Vault | `CredentialsRecover`: once Vault and BMC agree so does the record; `ActionsEnd`: no action is repeated for ever or waits for ever |
| `ea_upkeep` | 2 endpoints, one for which Vault always fails, 2 callers, exchanges, rediscoveries, `Quiet`, CA rolls, two attempts at the first client, failures of BMC, Vault and client creation | `TypeOK`; `TypeFollowsHardware`: the type ends up right, or Unknown if an answer since the last discovery could not be used; `CacheRight`: no entry of the cache gives an old type the timestamp of a new discovery; `EventuallyKnown`; `RollCompletes`; `StaleClientNoticed`: no change of the watched bundle is lost, a client that is no longer of the bundle has its roll to come or under way, or the last attempt failed and was logged; `ClientFollowsBundle`: the client ends up made from the current bundle, unless the last attempt failed or the bundle changed between the first client and the watch |

## 4. Where code and comments disagree

Two runs state what a comment of the repository says, and TLC finds a
behaviour of the code that violates it.

| Run | What happens |
|---|---|
| `lc_hang` | the handler's send waits for a loop that has already left because `Running` is false: the process does not end |
| `lc_closed_channel` | a worker sends on the channel `doPolling` has closed: panic, buffered events are lost |

The passing runs say which faults and assumptions their properties need.
Leaving those makes TLC show the behaviours below; each line gives the
property and the change of constants.

| Property | Change | What happens |
|---|---|---|
| `NoDuplicateSubs` | `sub_safety` with it as invariant, `Faults = {"get"}` | one failed GET makes the status ERROR while the goroutine goes on (527); the scan loop starts a second one, and both POST |
| `NoDuplicateSubs` | `~ReuseIds`, stores without duplicates, two verifiers, 4 ids, and one of the faults `NeverTwice` excludes | duplicates come of one failed read, of one exchange of hardware, of one POST that is executed twice, of one failed probe of an endpoint that answers https only, of two reads that are answered 404, and of a PATCH that fails in transport together with one that is refused |
| `Subscribed` | `sub_restored` with `Faults = {"post"}`, `Stores <- EmptyStore` | `postRFSubscription` returns `err`, which is nil, and not `postErr` (124): a failed POST counts as done and the group is not in `PrefixGroups`, so nothing looks for it; only an exchange of hardware or a restart repairs it, although 587 says "If a subscription for an endpoint is missing [...] it signals the rfSubscribe() goroutine to create it" |
| `Subscribed` | the same with `Faults = {"get"}` | the COMPLETE at the end of the goroutine (575) overwrites the ERROR of a group, for ever if no scan came in between |
| `StoreAsPromised` | `sub_safety` with `ReuseIds = TRUE` | the DELETE or PATCH of an old listing hits what the exchanged BMC keeps under the same id |
| `VerifyOnlyWhenSetUp` | `sub_safety` with it as invariant | the status is COMPLETE after the first of two groups (536), so verification reads `PrefixGroups` while they grow |
| `DeletesOnlyWrongXname` | `sub_safety` with it as property, `ReuseIds = TRUE` | the DELETE goes by id (183): on an exchanged BMC it hits a subscription that was never looked at |
| `RightKept` without `~Picked` | `sub_safety` | of two goroutines that found the same wrong context one mends it, and the DELETE of the other removes the subscription that is now right |
| `BufferedFlushed` | `lc_closed_channel` with `Configs <- RestOnly`, `MaxRequests = 2` | requests are still served while main flushes; `Shutdown(nil)` panics on them (hmcollector.go 433) |
| `OnePollerPerPDU` without `prompt` | `poll_power` | a slow PDU is given to a second worker, since `LastContacted` is only set by an answer (polling.go 74, 99) |
| `ReportedLast`, `NoRepeat` without `prompt` | `poll_power` with it as property | two workers of a slow PDU store On and Off in one order (hpepdu.go 173) and queue the events in the other (polling.go 149): what is stored is right, and what was reported last stays wrong until the outlet changes again |
| `EventuallyPolled` | `poll_monitor` with `Faults = {"probe"}` | one failed probe and a pollable endpoint is ignored until restart (polling.go 430) |
| `GoneForgotten` | `poll_monitor` with it as property | what HSM drops is polled for ever (polling.go 175) |
| `NotAborted` | `in_events` with `IgnoreProvidedTimestamp = TRUE` | an event without `Oem` panics the handler (rest.go 161) |
| `GivesUpOnSame` | `ea_credentials` with it as property | credentials refreshed by another goroutine are taken for the refused ones (http.go 80) |
| `TypeFollowsHardware`, `CacheRight` | `ea_upkeep` with `Quiet = FALSE` | a type learnt before a rediscovery is cached under the new timestamp (rf.go 113) |
| `PowerStateReported` without `monitored` in its premise | `poll_power` | without a broker whose address contains `sma.svc` nothing is ever polled (kafka.go 183); a log line says only "No brokers to ping" |
| `ClientFollowsBundle`, `StaleClientNoticed` without `unseen` | `ea_upkeep` | a bundle that changes between `createRFClient` and `CAUpdateRegister` is seen by neither (hmcollector.go 361, 385): nothing is logged, and nothing rolls until it changes again |
| `ClientFollowsBundle` without `failed` | `ea_upkeep` | a roll that fails is not tried again (315) |
| `Delivered` without `WellFormed` | `tel_delivery` | a voltage of an Intel node with a name of fewer than three characters (intel.go 106), an outlet whose `@odata.id` has no number (hpepdu.go 74) or a `Name` that is not a string ends the process |
| `Distinguishable` without `Clean` | `tel_delivery` | MemberIds from 255 on share one index, and texts share 0 (gigabyte.go 64) |
| `Distinguishable` without `PduClean` | `tel_delivery` with outlets numbered 300 and 301 at the `hpepdu` endpoint | outlets whose numbers are 255 or more share one index (hpepdu.go 74) |

## 5. Bounds and why they are enough

* One subscribed endpoint is enough for the questions asked, because records
  of different endpoints share only the channels, and the proofs of section 7
  are for any number of them.  Two records per endpoint let a new worker run beside an
  old one; a third could only be made after another fault.
* Two workers or callers give every pairwise race; the properties about
  goroutines are all about two of them.
* `MaxFaults` bounds what the environment does, in number and not in time: a
  fault can happen at any step.  One fault is enough for every violation
  except those that need a change to follow another.
* `QueueCap`, `ChanCap` (1000 and 10000 in the code) are 1 or 2 so that the
  full channel and the full producer are reached.
* Two brokers in `in_events`: the first connected, the second not.  The run of
  the life cycle has one broker, worker, endpoint and request at a time, which
  every race of the shutdown needs at most one of; its safety properties are
  proved for any number.
* `tel_delivery` has one endpoint at a time, since endpoints share only the
  channel, and the disorder on it is bounded by the processors.  Payloads take
  every value of up to two elements in one array at a time; MemberIds are 254,
  255, 256 and text; a PDU is polled twice, so that power states change and
  repeat.  One broker that lacks a topic shows both branches of `writeToKafka`;
  `in_events` has two.
* The six bodies of `in_events`: no JSON, an event that cannot be read behind
  one that can, a single object with its origin as a string and no context of
  its own, telemetry with and without a topic, a PhysicalContext that is missing
  and one that is given, one event for each broker alone.  A body without
  `Events` is refused like one that is not JSON.
* `StartTries` (10) is 2 in `ea_upkeep`, so that one failure is repaired
  and two are not.
* `AnyStore` of `sub_safety` has a store for every kind of subscription the
  collector looks at: none, one of other hardware, one without a context, one of
  another service, one whose context is wrong in two ways of being mended.
* The PDU of `poll_power` has an outlet and nothing else, so that three changes
  and failures fit in; the one of `poll_monitor` has a resource in each of its
  collections.
* The endpoint of `ea_credentials` has no secret in Vault at first.  Until one
  comes, which counts as no fault, all requests are refused; it is a change of
  credentials of its own, and one more event may come before or after it.
* Types and the client share `ea_upkeep`: the requests of the lookups hold the
  lock a roll waits for.  Its two events let a roll be followed by another, or
  fail.
* `SubCheckFreq` (20) is small so that verification rounds come often.
* `SubIds` is small enough that a BMC can be full, and then refuses the POST.

## 6. Fairness

Weak fairness of a goroutine's steps: Go's scheduler runs every goroutine that
can run, requests have timeouts (`httpTimeout`, retries are bounded), timers
fire.  No fairness of signals, requests from BMCs, changes of hardware, HSM,
Vault or broker, successful connections, or deliveries by Kafka: nothing makes
them happen.  Strong fairness is used in two places: of `Age` in `Polling`
(time passes for every PDU, although polling it again and again interrupts the
action) and of `Call` in `EndpointAccess` (every endpoint is used again and
again by verification and polling).  `FairSpec` of `EventIngress` is weak
fairness of the steps of every request: each of them is served by a goroutine
of net/http that waits for nothing but the producers' local queues.  The
watcher of the CA bundle and its callback are weakly fair, the registration and
the creation of the client are steps of `main`.  In `Lifecycle`, `Flush` is
enabled when its timeout passes even if the producer is not empty
(`FlushTimesOut`).

## 7. Proofs

Eight modules hold theorems that TLAPS checks for every value of the constants
that satisfies the assumption named in the component's module:
`ConstantsAssumption` (RFSubscriptions), `ConfigAssumption` (Lifecycle),
`PollingAssumption`, `IngressAssumption`, `AccessAssumption` and
`TelemetryAssumption` (with `CollectorAssumption` of RiverCollectors).  They
say what sort of thing each constant is, and the facts of the code behind
them: sensors belong to one endpoint, a body has the Context of its path or
none, a single object in `Events` is one event, a node has one URL for each
telemetry type and a PDU none for Thermal, a payload has the form its
collector decodes it into.  Where a theorem needs more it says so
itself: `~ReuseIds` (a BMC gives no subscription id out twice),
`~IgnoreProvidedTimestamp` (the flag is not set), `Quiet` (HSM discovers
nothing while a type is looked up), and for `NeverTwice` the `MildFaults` and
`OneEach` explained below.  The runs have instances with and without
these, and section 4 says what happens without.

| Theorem | Statement | Argument |
|---|---|---|
| `RFSubscriptionsProofs!TypeCorrect` | `Spec => []TypeOK` | `TypeInv`: `TypeOK` and, for every goroutine, that a frame that is not idle has a record, its own in the case of a worker, and the id its program counter needs.  `TypeOK` alone is not inductive: it would let a goroutine without a record act on an endpoint |
| `PendingServed` | `Spec => []PendingHasWorker` | the same invariant with the property itself: a record leaves the channel in the step that starts its goroutine, and a goroutine ends in the step that writes its status |
| `ErrorKept` | `Spec => VerifyErrorKept` | who writes a status: the worker of the record, which is idle, a verifier, which only writes ERROR, and the scan loop, which takes a record that is not current |
| `ForeignSafe` | `~ReuseIds`: `Spec => ForeignUntouched` | `OursInv`: the id a goroutine is about to delete or patch belongs to a subscription that is the collector's own or stale, or to none, and was given out before, so that no new subscription can take it |
| `RightLeftAlone` | `Spec => RightKept` | a step changes only the subscription its goroutine has picked, and reading one that is right picks nothing; since `RightKept` speaks of the ids that are picked, BMCs may even reuse them |
| `StoreRefined` | `~ReuseIds`: `Spec => StoreAsPromised` | the mapping is the identity on `subs`, so every step has to be a step of the store: by `OursInv` a PATCH finds its own address or nothing, a DELETE its own, a stale one or nothing, in the moment it arrives; a POST that is executed twice adds two |
| `SubscriptionOnceProofs!NeverTwice` | `~ReuseIds`, `MildFaults`, `OneEach`: `Spec => []NoDuplicateSubs` | see below |
| `LifecycleProofs!TypeCorrect` | `Spec => []TypeOK` | `IInv` below; the point is that `wg` never becomes negative |
| `FlushLast` | `Spec => []FlushAfterStop` | `IInv`: `wg` is the number of the REST server, poller and subscriber that have not called Done (`Counted`), main starts the latter two once (`NotStarted`), only the handler stops the REST server (`HandlerFirst`), and `wg` stays 0 once main has seen it 0 |
| `PollingProofs!TypeCorrect`, `PolledAtMostOnce` | `Spec => []TypeOK`, `[]PolledOnce` | `ScanInv`: an endpoint being classified is in neither list and behind the scan, once, and none is while the monitor sleeps; so an append adds what is in no list.  `PolledOnce` alone would let two classifications of one endpoint run |
| `PromptPDUHasOnePoller` | `Spec => []OnePollerPerPDU` | `PromptInv`: of a prompt PDU at most one poll is without an answer, and then the PDU is not in the rest of the round (`RoundInv`: nothing is there twice); after an answer it counts as contacted recently, and `Gate` turns the next worker away |
| `EventsTellOfChanges` | `Spec => NoRepeat` | `PowerInv`: what a worker is about to store differs from what is stored, what it is about to queue is stored and was not queued last, and what is stored was queued last or is about to be.  This needs the PDU to have one worker, and `SensorInv`: the outlet is one of that worker's PDU, so that workers of other PDUs cannot store it |
| `EventIngressProofs!TypeCorrect`, `DeliveredInOrder` | `Spec => []TypeOK`, `[]InOrder` | `LogInv`: what a broker has of a request was meant for it and lies behind the walk; what is appended lies at the walk, hence after it |
| `ReadyMeansDelivered` | `Spec => []ReadyDelivers` | `ConnInv`: a request that came after readiness walks over all brokers, since producers are made once and for all; `DoneInv`: what such a request has behind it and no producer refused is in the log |
| `NoneAborted` | `~IgnoreProvidedTimestamp`: `Spec => []NotAborted` | a handler panics on a producer that is not there, which `ConnInv` excludes, or where it replaces a timestamp, which the flag does |
| `DeliveryRefined` | `~IgnoreProvidedTimestamp`: `Spec => Delivers` | one lemma per action of the handler: `StillOwed` loses what a write gives and the log gains it, a step to the next broker or event leaves it as it is, and where it is empty the request may end |
| `EndpointAccessProofs!TypeCorrect` | `Spec => []TypeOK` | `CountInv`: generations of credentials and bundle and HSM's attempts are bounded by the number of events so far, and not only by their last value |
| `StaleClientIsNoticed` | `Spec => []StaleClientNoticed`, which is about clients that were up to date when the watch began | `RollInv`: the watcher knows no bundle that is still to come, and without a watcher a failure was logged and there is no roll; so what a roll has read and the bundle that replaces it meanwhile differ for the watcher too |
| `CacheNamesHardware` | `Quiet`: `Spec => []CacheRight` | `LookupInv`: attempts reach HSM, its answer, the record and the cache in this order; `FoundInv`: what a lookup is about to write is the type of the hardware HSM has seen |
| `TelemetryProofs!TypeCorrect` | `Spec => []TypeOK` | `ChannelInv` and `PollInv`: never more is on the channel than it holds |
| `EachPassedOnOnce` | `Spec => []PassedOnOnce` | `HoldInv`: no two goroutines hold one message; `AheadInv`: it has not reached the brokers ahead of its walk; `PlaceInv`: at those behind it was dealt with once |
| `DisorderIsBounded` | `Spec => BoundedDisorder` | by `PlaceInv` every message queued earlier and missing at the broker is held by a goroutine, by `HoldInv` by one of its own, which is not the writing one: an injection into the other processors |
| `EverythingDelivered` | `Spec => []Delivered` | see below |
| `ReadingsToldApart` | `Spec => []Distinguishable` | see below |

**`NeverTwice`.**  The code looks for a subscription of a group and posts one if
there is none, in separate requests; what protects the gap is that an endpoint
has one worker at a time.  A second one is started when the scan loop finds
ERROR in the record, so what has to hold is that nobody writes ERROR into the
record of a worker that is queued or running (`SoleInv`), and for this that a
verifier never misses a subscription that was there when its record became
subscribed.  `OnceInv` is `ControlInv` with four parts about the store.
`ControlInv` has `SoleInv` (a record that is queued or worked on is its
endpoint's current one and is not ERROR, so an endpoint has one worker),
`QueueInv` (nothing is queued twice, and what is queued has no worker yet) and
`EarlyInv` (no group is noted in a record before the first has been looked
for).  The others are `UniqueInv` (the store has no duplicates), `LookInv` (a
verifier looks only for groups its record has noted), `SearchInv` (while a
worker runs, what a search has still to read contains every copy there is; a
worker about to post has none in the store; a verifier beside a worker says
"dup") and `HeldInv` (what a running worker has noted is in the store).
Each hypothesis is needed:

* `~ReuseIds`: with two verifiers the late DELETE of one by an id that was given
  out again removes what the other has found;
* `MildFaults`: a POST may fail or lose its answer, a PATCH be refused, a DELETE
  fail and another service subscribe, and these are the only faults.  Each
  other kind gives duplicates (section 4): a failed or 404 read and a failed
  probe are taken for "not there"; after a PATCH that failed in transport the
  DELETE that follows it may remove what another goroutine has mended, a
  verifier calls it missing while a worker runs, and a second worker is
  started; exchanged hardware may bring a copy between search and POST; a POST
  that is executed twice makes two;
* `OneEach`: stores start without duplicates and other services do not send
  their events to the collector: two subscriptions of one group with wrong
  contexts would both be mended.

**`EverythingDelivered`.**  The invariant follows a reading from the answer to
the brokers.  `AnswersInv`: the events of an answer are those its collector
makes of the payload with the power states it had seen, which by `RememberInv`
are those of the last answers about the same outlets.  `SentInv` and
`ProgressInv`: what was made of an answer is on the channel once, or is yet to
be sent by the worker that got it (`WorkInv`).  `PlaceInv` has the rest of the
way.  What the events of a payload are is `CollectorsMake` in
`CollectorProofs`: for every vendor, for arrays of any length and maps of any
size, the events have every reading of `Meant` in one place and nothing else.
It is proved array by array: the sensors of an array read it once, an event of
sensors makes their items, events behind each other make the items of both.
The filters and the sorted keys are `Ascending`, whose existence for every
finite set is proved from the well-foundedness of the naturals.

**`ReadingsToldApart`.**  The same walk over the arrays with another question
(`Tells`): in each the Index (`Index` is injective up to 255) or the name tells
elements apart, and where two arrays share a MessageId their contexts differ.
That a poll asks each URL once (`OnceInv` of `TelemetryProofs`), nodes have one
URL per type and the MessageIds of the two types differ leaves only the
resources of a PDU, which `PduClean` is about: outlets
have different indices (the code caps them at 255), branches different letters,
and there is one mains resource, since the phases of two would share indices.

Each inductive invariant was checked by TLC as an invariant of the component's
runs before it was proved.

Only model-checked:

* everything that must happen in the end (`Subscribed`, `StalePruned`,
  `LoopsStop`, `IngressEnds`, `EventuallyPolled`, `PowerStateReported`,
  `RequestsEnd`, `CredentialsRecover`, `ActionsEnd`, `RollCompletes`,
  `ClientFollowsBundle`, `TypeFollowsHardware`, `EventuallyKnown`): liveness
  under fairness is outside the reach of the prover.

The safety properties of the passing runs, invariants and action properties, are
all proved.

## 8. Plan

What is modelled is complete but for section 9.  What could still be added:

1. The lock discipline behind `RollCompletes`: a writer that waits lets no new
   reader in, and no holder of the read lock waits for it again.
2. The safety parts of `EventuallyPolled` and `PowerStateReported`: an endpoint
   HSM has reported is to be scanned, being classified or in a list; what is
   stored of any PDU is what some answer said.

## 9. Not modelled, and abstractions to keep in mind

* The values in payloads, timestamps, formatting, logging, flags, health pages
  (`doHealth` and `doLiveness` only read), `pprof`, the `kafka_tool` and
  `echo_server` programs (tools of their own, not parts of the collector),
  vendored code.
* A collector without a CA bundle (`caURI` empty): there is then nothing to
  follow.  The watcher of hms_certs is modelled from how it is used: it compares
  what it reads with what it read last and waits for the callback.
* Names and numbers in payloads are members of small sets with the facts the
  collectors look at: their length, what follows the third character, the last
  number in them.
* Torn reads of Go slices, strings and maps.  A race is modelled as the
  interleaving of whole reads and writes; what the Go memory model allows
  beyond that (a torn slice header in `doPolling`, a concurrent map write
  panic on a PDU's sensors) is in the list of hazards.
* `kafkaBrokers` appears in one step; the moment in which the JSON decoder has
  filled part of the slice is left out.
* The retrying HTTP client is one exchange, except that a POST may be executed
  twice (fault `postretried`).
* `ScanQueue` is the new entry of `doRFSubscribe`'s map, its PENDING and the
  blocking send in one step.  The map is a variable of the one goroutine that
  waits in that send, and nobody has the new record before it is received, so
  that an entry whose send still blocks looks to all others like none.
* Time: a timer fires whenever its goroutine waits for it.
* Panics of the REST server's goroutines end only their request (net/http
  recovers them); panics of other goroutines end the process.
