------------------------------- MODULE Polling -------------------------------
(***************************************************************************)
(* River telemetry polling (cmd/hmcollector/polling.go): the monitor that  *)
(* finds out which endpoints can be polled and with which collector, the   *)
(* poller that queues all of them every interval, the pool of collectData  *)
(* workers, the SMA connectivity check that pauses them (kafka.go) and the *)
(* power state every PDU outlet was last seen in (river_collector).        *)
(*                                                                         *)
(* Telemetry values are left out; the power state changes a PDU poll       *)
(* reports are kept.  LastContacted is the fact "contacted less than       *)
(* pduPollingInterval ago", which Age ends.                                *)
(***************************************************************************)
EXTENDS Naturals, Sequences, FiniteSets, SequencesExt

CONSTANTS
  Endpoints,   \* IDs of the Redfish endpoints HSM may report
  PDUs,        \* those GetHMSType calls CabinetPDUController
  Answers,     \* what every endpoint answers to every probe
  SensorsAt,   \* the sensors behind the collections of every endpoint
  Outlets,     \* the sensors with a power state
  Probers,     \* goroutines that classify an endpoint (bound on the live ones)
  Workers,     \* the collectData goroutines, NumWorkers = 30 in the code
  Prompts,     \* the values prompt may have
  Faults,      \* the kinds of event the environment may cause
  MaxFaults,   \* how many of them
  NoEndpoint   \* nil

(***************************************************************************)
(* Probes: the GETs that tell what an endpoint is, in the code's order.    *)
(* The model of an endpoint is abstracted to the collector the chain of    *)
(* prefix and equality tests in lines 376-411 picks for it; "other" is a   *)
(* model no test recognises.                                               *)
(***************************************************************************)
\* Mutant: OpenBMC is checked before HPE.
NodeProbes_OpenBmcFirst ==
  <<"Systems/Self", "RackMount/Baseboard", "Chassis/BMC_0", "Chassis/1">>

NodeProbes ==
  <<"Systems/Self", "RackMount/Baseboard", "Chassis/1", "Chassis/BMC_0">>
PduProbes == <<"RackPDUs/1", "Outlets", "Branches", "Mains">>
Probe == Range(NodeProbes) \cup Range(PduProbes)

Collector == {"gigabyte", "intel", "hpe", "openbmc", "cis"}
Model == Collector \cup {"other"}
NoAnswer == "404"

\* what the answer to a probe is looked for: a PDU can only be made by cis, a
\* node never is
Recognised(p) == IF p = "RackPDUs/1" THEN {"cis"} ELSE Collector \ {"cis"}

NodeUrls == {"Power", "Thermal"}
Collections == {"Outlets", "Branches", "Mains"}
SensorsOf(e) == UNION {SensorsAt[e][p] : p \in Collections}
Sensors == UNION {SensorsOf(e) : e \in Endpoints}

ASSUME PollingAssumption ==
  /\ PDUs \subseteq Endpoints /\ NoEndpoint \notin Endpoints
  /\ Answers \in [Endpoints -> [Probe -> Model \cup {NoAnswer}]]
  /\ \A e \in Endpoints : DOMAIN SensorsAt[e] = Collections
  /\ \A e \in Endpoints \ PDUs : SensorsOf(e) = {}
  /\ \A e, f \in Endpoints : e # f => SensorsOf(e) \cap SensorsOf(f) = {}
  /\ Outlets \subseteq Sensors /\ Sensors \cap NodeUrls = {}
  /\ Prompts \subseteq BOOLEAN /\ MaxFaults \in Nat

PowerState == {"", "On", "Off"}

Prober == [ep : Endpoints \cup {NoEndpoint}, left : Seq(Probe),
           model : Model, sensors : SUBSET Sensors]
IdleProber == [ep |-> NoEndpoint, left |-> <<>>, model |-> "other",
               sensors |-> {}]

Worker == [ep : Endpoints \cup {NoEndpoint},
           pc : {"idle", "gate", "next", "http", "parse", "store", "queue"},
           urls : SUBSET (Sensors \cup NodeUrls),
           url : Sensors \cup NodeUrls \cup {NoEndpoint},
           got : PowerState,   \* the outlet state in the last answer
           heard : BOOLEAN]    \* this poll has had an answer
IdleWorker == [ep |-> NoEndpoint, pc |-> "idle", urls |-> {},
               url |-> NoEndpoint, got |-> "", heard |-> FALSE]

VARIABLES
  prompt,        \* PDUs answer within the polling intervals; never changes
  monitored,     \* a broker's address contains sma.svc; never changes
  reported,      \* what HSM lists at present
  HSMEndpoints,  \* keys of the map of that name
  monitor,       \* where monitorPollingEndpoints is
  toScan,        \* what is left of its snapshot of HSMEndpoints
  prober,        \* the classifying goroutines
  endpoints,     \* the slice of EndpointWithCollector
  nonPolled,     \* the slice nonPolledEndpoints
  poller,        \* where doPolling is
  round,         \* what is left of its copy of endpoints
  worker,        \* the collectData goroutines
  recent,        \* LastContacted is less than pduPollingInterval ago
  smaOK,         \* the global of that name
  smaUp,         \* whether the SMA broker accepts connections
  outlet,        \* the power state of every outlet
  lastPowerState, \* what HPEPDUSensor.LastPowerState holds for it
  lastEvent,     \* the power state event last queued for Kafka
  nfaults        \* environment events so far

config == <<prompt, monitored>>
envVars == <<config, reported, smaUp, outlet, nfaults>>
monVars == <<monitor, toScan, prober, endpoints, nonPolled>>
pollVars == <<poller, round>>
stateVars == <<lastPowerState, lastEvent>>
vars == <<envVars, HSMEndpoints, monVars, pollVars, worker, recent, smaOK,
          stateVars>>

Polled == {endpoints[i].ep : i \in DOMAIN endpoints}
Ignored == Range(nonPolled)

Entry == [ep : Endpoints, sensors : SUBSET Sensors, col : Collector]

TypeOK ==
  /\ prompt \in BOOLEAN /\ monitored \in BOOLEAN
  /\ reported \subseteq Endpoints /\ HSMEndpoints \subseteq Endpoints
  /\ monitor \in {"scan", "sleep"} /\ toScan \subseteq Endpoints
  /\ prober \in [Probers -> Prober]
  /\ endpoints \in Seq(Entry) /\ nonPolled \in Seq(Endpoints)
  /\ poller \in {"send", "sleep"} /\ round \in Seq(Entry)
  /\ worker \in [Workers -> Worker]
  /\ recent \in [Endpoints -> BOOLEAN]
  /\ smaOK \in BOOLEAN /\ smaUp \in BOOLEAN
  /\ outlet \in [Outlets -> {"On", "Off"}]
  /\ lastPowerState \in [Outlets -> PowerState]
  /\ lastEvent \in [Outlets -> PowerState]
  /\ nfaults \in 0 .. MaxFaults

Fault(kind) == kind \in Faults /\ nfaults < MaxFaults /\ nfaults' = nfaults + 1

(***************************************************************************)
(* monitorPollingEndpoints.                                                *)
(***************************************************************************)
\* doUpdateHSMEndpoints adds what HSM lists and never removes anything
UpdateHSMEndpoints ==
  /\ ~(reported \subseteq HSMEndpoints)
  /\ HSMEndpoints' = HSMEndpoints \cup reported
  /\ UNCHANGED <<envVars, monVars, pollVars, worker, recent, smaOK, stateVars>>

\* the select's timer: the next scan starts with a snapshot of the map
ScanStart ==
  /\ monitor = "sleep"
  /\ monitor' = "scan"
  /\ toScan' = HSMEndpoints
  /\ UNCHANGED <<envVars, HSMEndpoints, prober, endpoints, nonPolled, pollVars,
                 worker, recent, smaOK, stateVars>>

ScanKnown(e) ==
  /\ monitor = "scan" /\ e \in toScan
  /\ e \in Polled \cup Ignored
  /\ toScan' = toScan \ {e}
  /\ UNCHANGED <<envVars, HSMEndpoints, monitor, prober, endpoints, nonPolled,
                 pollVars, worker, recent, smaOK, stateVars>>

\* an endpoint neither polled nor ignored gets a goroutine
ScanNew(e, g) ==
  /\ monitor = "scan" /\ e \in toScan
  /\ e \notin Polled \cup Ignored
  /\ prober[g] = IdleProber
  /\ prober' = [prober EXCEPT ![g] =
       [ep |-> e, left |-> IF e \in PDUs THEN PduProbes ELSE NodeProbes,
        model |-> "other", sensors |-> {}]]
  /\ toScan' = toScan \ {e}
  /\ UNCHANGED <<envVars, HSMEndpoints, monitor, endpoints, nonPolled, pollVars,
                 worker, recent, smaOK, stateVars>>

\* Mutant: the goroutines are not waited for.
ScanEnd_NoWait ==
  /\ monitor = "scan" /\ toScan = {}
  /\ monitor' = "sleep"
  /\ UNCHANGED <<envVars, HSMEndpoints, toScan, prober, endpoints, nonPolled,
                 pollVars, worker, recent, smaOK, stateVars>>

\* endpointWaitGroup.Wait()
ScanEnd ==
  /\ monitor = "scan" /\ toScan = {}
  /\ \A g \in Probers : prober[g] = IdleProber
  /\ monitor' = "sleep"
  /\ UNCHANGED <<envVars, HSMEndpoints, toScan, prober, endpoints, nonPolled,
                 pollVars, worker, recent, smaOK, stateVars>>

\* A 200 answer: the model replaces the one an earlier probe found, also when
\* it is none there is a collector for; the members of a PDU collection are
\* added to the sensor map.  A PDU not made by cis is not asked further.
Answered(c, p) ==
  LET a == Answers[c.ep][p] IN
  IF p \in Collections
  THEN [c EXCEPT !.left = Tail(@), !.sensors = @ \cup SensorsAt[c.ep][p]]
  ELSE [c EXCEPT !.model = IF a = NoAnswer THEN @
                           ELSE IF a \in Recognised(p) THEN a ELSE "other",
                 !.left = IF p = "RackPDUs/1" /\ a # "cis" THEN <<>> ELSE Tail(@)]

ProbeAnswered(g) ==
  /\ prober[g].left # <<>>
  /\ prober' = [prober EXCEPT ![g] = Answered(@, Head(@.left))]
  /\ UNCHANGED <<envVars, HSMEndpoints, monitor, toScan, endpoints, nonPolled,
                 pollVars, worker, recent, smaOK, stateVars>>

\* the request fails or its status is not 200: the probe tells nothing
ProbeFails(g) ==
  /\ Fault("probe")
  /\ prober[g].left # <<>>
  /\ prober' = [prober EXCEPT ![g].left =
                  IF Head(@) = "RackPDUs/1" THEN <<>> ELSE Tail(@)]
  /\ UNCHANGED <<config, reported, smaUp, outlet, HSMEndpoints, monitor, toScan,
                 endpoints, nonPolled, pollVars, worker, recent, smaOK,
                 stateVars>>

\* the payload cannot be decoded: the goroutine returns, and the endpoint
\* is in neither list
ProbeGarbled(g) ==
  /\ Fault("garbled")
  /\ prober[g].left # <<>>
  /\ prober' = [prober EXCEPT ![g] = IdleProber]
  /\ UNCHANGED <<config, reported, smaUp, outlet, HSMEndpoints, monitor, toScan,
                 endpoints, nonPolled, pollVars, worker, recent, smaOK,
                 stateVars>>

\* under endpointMutex
Classify(g) ==
  LET c == prober[g] IN
  /\ c.ep # NoEndpoint /\ c.left = <<>>
  /\ IF c.model \in Collector
     THEN /\ endpoints' = Append(endpoints, [ep |-> c.ep, sensors |-> c.sensors,
                                             col |-> c.model])
          /\ recent' = [recent EXCEPT ![c.ep] = TRUE]
          /\ UNCHANGED nonPolled
     ELSE /\ nonPolled' = Append(nonPolled, c.ep)
          /\ UNCHANGED <<endpoints, recent>>
  /\ prober' = [prober EXCEPT ![g] = IdleProber]
  /\ UNCHANGED <<envVars, HSMEndpoints, monitor, toScan, pollVars, worker,
                 smaOK, stateVars>>

(***************************************************************************)
(* doPolling.                                                              *)
(***************************************************************************)
Busy(w, e) == worker[w].ep = e
Goto(w, f) == worker' = [worker EXCEPT ![w] = f]

\* With prompt, a PDU's first answer comes before the next round.
PollRound ==
  /\ poller = "sleep"
  /\ prompt => \A e \in PDUs, w \in Workers : Busy(w, e) => worker[w].heard
  /\ poller' = "send"
  /\ round' = endpoints
  /\ UNCHANGED <<envVars, HSMEndpoints, monVars, worker, recent, smaOK,
                 stateVars>>

PollSend(w) ==
  /\ poller = "send" /\ round # <<>>
  /\ worker[w].pc = "idle"
  /\ Goto(w, [IdleWorker EXCEPT !.ep = Head(round).ep, !.pc = "gate",
                !.urls = IF Head(round).col = "cis" THEN Head(round).sensors
                         ELSE NodeUrls])
  /\ round' = Tail(round)
  /\ UNCHANGED <<envVars, HSMEndpoints, monVars, poller, recent, smaOK,
                 stateVars>>

PollSleep ==
  /\ poller = "send" /\ round = <<>>
  /\ poller' = "sleep"
  /\ UNCHANGED <<envVars, HSMEndpoints, monVars, round, worker, recent, smaOK,
                 stateVars>>

(***************************************************************************)
(* collectData.                                                            *)
(***************************************************************************)
\* skipped while SMA is off, and a PDU that was contacted recently
Skipped(e) == ~smaOK \/ (e \in PDUs /\ recent[e])

\* Mutant: return instead of continue, the worker is gone.
Gate_Return(w) ==
  /\ worker[w].pc = "gate"
  /\ Goto(w, IF Skipped(worker[w].ep) THEN [IdleWorker EXCEPT !.pc = "gone"]
             ELSE [worker[w] EXCEPT !.pc = "next"])
  /\ UNCHANGED <<envVars, HSMEndpoints, monVars, pollVars, recent, smaOK,
                 stateVars>>

Gate(w) ==
  /\ worker[w].pc = "gate"
  /\ Goto(w, IF Skipped(worker[w].ep) THEN IdleWorker
             ELSE [worker[w] EXCEPT !.pc = "next"])
  /\ UNCHANGED <<envVars, HSMEndpoints, monVars, pollVars, recent, smaOK,
                 stateVars>>

\* the next URL; after the last one the worker takes another endpoint
NextUrl(w) ==
  /\ worker[w].pc = "next"
  /\ IF worker[w].urls = {}
     THEN Goto(w, IdleWorker)
     ELSE \E u \in worker[w].urls :
            Goto(w, [worker[w] EXCEPT !.pc = "http", !.url = u,
                                      !.urls = @ \ {u}])
  /\ UNCHANGED <<envVars, HSMEndpoints, monVars, pollVars, recent, smaOK,
                 stateVars>>

\* Mutant: LastContacted is left alone.
HttpAnswer_NotContacted(w) ==
  LET u == worker[w].url IN
  /\ worker[w].pc = "http"
  /\ Goto(w, [worker[w] EXCEPT
                !.pc = IF u \in Outlets THEN "parse" ELSE "next",
                !.heard = TRUE,
                !.got = IF u \in Outlets THEN outlet[u] ELSE ""])
  /\ UNCHANGED <<envVars, HSMEndpoints, monVars, pollVars, recent, smaOK,
                 stateVars>>

\* an answer, which for an outlet holds its power state
HttpAnswer(w) ==
  LET e == worker[w].ep u == worker[w].url IN
  /\ worker[w].pc = "http"
  /\ Goto(w, [worker[w] EXCEPT
                !.pc = IF u \in Outlets THEN "parse" ELSE "next",
                !.heard = TRUE,
                !.got = IF u \in Outlets THEN outlet[u] ELSE ""])
  /\ recent' = [recent EXCEPT ![e] = TRUE]
  /\ UNCHANGED <<envVars, HSMEndpoints, monVars, pollVars, smaOK, stateVars>>

\* An answer no event can be made of, with a status other than 200 perhaps:
\* it counts as contact all the same.
HttpUseless(w) ==
  /\ Fault("useless")
  /\ worker[w].pc = "http"
  /\ Goto(w, [worker[w] EXCEPT !.pc = "next", !.heard = TRUE])
  /\ recent' = [recent EXCEPT ![worker[w].ep] = TRUE]
  /\ UNCHANGED <<config, reported, smaUp, outlet, HSMEndpoints, monVars,
                 pollVars, smaOK, stateVars>>

HttpError(w) ==
  /\ Fault("poll")
  /\ worker[w].pc = "http"
  /\ Goto(w, [worker[w] EXCEPT !.pc = "next"])
  /\ UNCHANGED <<config, reported, smaUp, outlet, HSMEndpoints, monVars,
                 pollVars, recent, smaOK, stateVars>>

\* Mutant: only the first state ever seen is taken for a change.
ParseOutlet_First(w) ==
  /\ worker[w].pc = "parse"
  /\ Goto(w, [worker[w] EXCEPT !.pc =
       IF lastPowerState[worker[w].url] # "" THEN "next" ELSE "store"])
  /\ UNCHANGED <<envVars, HSMEndpoints, monVars, pollVars, recent, smaOK,
                 stateVars>>

\* parseOutletPayload reads the sensor map ...
ParseOutlet(w) ==
  /\ worker[w].pc = "parse"
  /\ Goto(w, [worker[w] EXCEPT !.pc =
       IF lastPowerState[worker[w].url] = worker[w].got THEN "next" ELSE "store"])
  /\ UNCHANGED <<envVars, HSMEndpoints, monVars, pollVars, recent, smaOK,
                 stateVars>>

\* Mutant: the copy of the sensor is changed and not stored back.
StoreOutlet_Copy(w) ==
  /\ worker[w].pc = "store"
  /\ Goto(w, [worker[w] EXCEPT !.pc = "queue"])
  /\ UNCHANGED <<envVars, HSMEndpoints, monVars, pollVars, recent, smaOK,
                 stateVars>>

\* ... and, when the state is another one, stores it and makes the event,
StoreOutlet(w) ==
  /\ worker[w].pc = "store"
  /\ lastPowerState' = [lastPowerState EXCEPT ![worker[w].url] = worker[w].got]
  /\ Goto(w, [worker[w] EXCEPT !.pc = "queue"])
  /\ UNCHANGED <<envVars, HSMEndpoints, monVars, pollVars, recent, smaOK,
                 lastEvent>>

\* which collectData puts on the channel once the collector has returned
QueueEvent(w) ==
  /\ worker[w].pc = "queue"
  /\ lastEvent' = [lastEvent EXCEPT ![worker[w].url] = worker[w].got]
  /\ Goto(w, [worker[w] EXCEPT !.pc = "next"])
  /\ UNCHANGED <<envVars, HSMEndpoints, monVars, pollVars, recent, smaOK,
                 lastPowerState>>

(***************************************************************************)
(* monitorSMA, and the environment.                                        *)
(***************************************************************************)
\* one successful run of the connectivity check, which setupKafka starts
\* only for a broker at sma.svc
monitorSMA ==
  /\ monitored
  /\ smaOK' = smaUp
  /\ UNCHANGED <<envVars, HSMEndpoints, monVars, pollVars, worker, recent,
                 stateVars>>

\* pduPollingInterval passes.  With prompt, not while the PDU is polled.
Age(e) ==
  /\ recent[e]
  /\ prompt => \A w \in Workers : ~Busy(w, e)
  /\ recent' = [recent EXCEPT ![e] = FALSE]
  /\ UNCHANGED <<envVars, HSMEndpoints, monVars, pollVars, worker, smaOK,
                 stateVars>>

SmaChange ==
  /\ Fault("sma")
  /\ smaUp' = ~smaUp
  /\ UNCHANGED <<config, reported, outlet, HSMEndpoints, monVars, pollVars,
                 worker, recent, smaOK, stateVars>>

OutletChange(u) ==
  /\ Fault("power")
  /\ outlet' = [outlet EXCEPT ![u] = IF @ = "On" THEN "Off" ELSE "On"]
  /\ UNCHANGED <<config, reported, smaUp, HSMEndpoints, monVars, pollVars,
                 worker, recent, smaOK, stateVars>>

\* HSM discovers an endpoint, or drops one
Arrive(e) ==
  /\ e \notin reported /\ e \notin HSMEndpoints
  /\ reported' = reported \cup {e}
  /\ UNCHANGED <<config, smaUp, outlet, nfaults, HSMEndpoints, monVars,
                 pollVars, worker, recent, smaOK, stateVars>>

Leave(e) ==
  /\ Fault("leave")
  /\ e \in reported
  /\ reported' = reported \ {e}
  /\ UNCHANGED <<config, smaUp, outlet, HSMEndpoints, monVars, pollVars,
                 worker, recent, smaOK, stateVars>>

Init ==
  /\ prompt \in Prompts /\ monitored \in BOOLEAN
  /\ reported \in SUBSET Endpoints
  /\ HSMEndpoints = {} /\ monitor = "sleep" /\ toScan = {}
  /\ prober = [g \in Probers |-> IdleProber]
  /\ endpoints = <<>> /\ nonPolled = <<>>
  /\ poller = "sleep" /\ round = <<>>
  /\ worker = [w \in Workers |-> IdleWorker]
  /\ recent = [e \in Endpoints |-> FALSE]
  /\ smaOK = FALSE /\ smaUp = TRUE
  /\ outlet = [u \in Outlets |-> "On"]
  /\ lastPowerState = [u \in Outlets |-> ""]
  /\ lastEvent = [u \in Outlets |-> ""]
  /\ nfaults = 0

ProberStep(g) == ProbeAnswered(g) \/ Classify(g)
MonitorStep ==
  ScanStart \/ ScanEnd \/ \E e \in Endpoints : ScanKnown(e)
    \/ \E g \in Probers : ScanNew(e, g)
PollerStep == PollRound \/ PollSleep \/ \E w \in Workers : PollSend(w)
WorkerStep(w) ==
  \/ Gate(w) \/ NextUrl(w) \/ HttpAnswer(w)
  \/ ParseOutlet(w) \/ StoreOutlet(w) \/ QueueEvent(w)

Next ==
  \/ UpdateHSMEndpoints
  \/ MonitorStep
  \/ \E g \in Probers : ProberStep(g) \/ ProbeFails(g) \/ ProbeGarbled(g)
  \/ PollerStep
  \/ \E w \in Workers : WorkerStep(w) \/ HttpUseless(w) \/ HttpError(w)
  \/ monitorSMA
  \/ \E e \in Endpoints : Age(e) \/ Arrive(e) \/ Leave(e)
  \/ SmaChange
  \/ \E u \in Outlets : OutletChange(u)

Spec == Init /\ [][Next]_vars

\* Goroutines are scheduled and requests end, timers fire, the SMA check
\* runs again and again, and time passes for every PDU.
FairSpec ==
  /\ Spec
  /\ WF_vars(UpdateHSMEndpoints) /\ WF_vars(MonitorStep)
  /\ \A g \in Probers : WF_vars(ProberStep(g))
  /\ WF_vars(PollerStep)
  /\ \A w \in Workers : WF_vars(WorkerStep(w))
  /\ WF_vars(monitorSMA)
  /\ \A e \in Endpoints : SF_vars(Age(e))

(***************************************************************************)
(* Properties.                                                             *)
(***************************************************************************)
\* No endpoint is polled twice, ignored twice, or both: a scan waits for
\* every classification before the next one looks at the lists
\* (polling.go 175-200, 436).
PolledOnce ==
  /\ IsInjective([i \in DOMAIN endpoints |-> endpoints[i].ep])
  /\ IsInjective(nonPolled)
  /\ Polled \cap Ignored = {}

\* "HPE PDUs can't handle a bunch of requests even in serial." (polling.go
\* 86): two workers never send requests to one PDU at a time, nor do they
\* use its sensor map at a time (polling.go 71-76, 99).  Nothing but the
\* check of LastContacted sees to it, so it takes PDUs that answer promptly.
OnePollerPerPDU ==
  prompt =>
    \A e \in PDUs, v, w \in Workers :
      (Busy(v, e) /\ Busy(w, e) /\ v # w) =>
        "gate" \in {worker[v].pc, worker[w].pc}

\* "No power state change. We're done parsing." (hpepdu.go 168): the events
\* of an outlet of a prompt PDU tell of a change, two in a row are never the
\* same.  Between the check of the sensor map and the channel lie the store
\* and the return of the collector (hpepdu.go 172, polling.go 149), so two
\* workers of a slow PDU could both report one change.
NoRepeat ==
  [][prompt =>
       \A w \in Workers, u \in Outlets :
         (worker[w].pc = "queue" /\ worker[w].url = u /\ worker'[w].pc # "queue")
           => lastEvent'[u] # lastEvent[u]]_vars

\* some probe finds a model there is a collector for
Pollable(e) ==
  \E p \in Range(IF e \in PDUs THEN PduProbes ELSE NodeProbes) :
    Answers[e][p] \in Recognised(p)

\* "it starts polling telemetry data via redfish for the hardware that does
\* not support telemetry subscriptions" (README.md 12-14): an endpoint that
\* HSM lists and a collector exists for ends up polled, with all its sensors.
EventuallyPolled ==
  \A e \in Endpoints : (Pollable(e) /\ e \in HSMEndpoints) ~>
    \E i \in DOMAIN endpoints :
      /\ endpoints[i].ep = e
      /\ e \in PDUs => endpoints[i].sensors = SensorsOf(e)

\* While SMA is configured and stays reachable, the state of an outlet that no
\* longer changes is in the end the one that is stored, whatever order the
\* workers apply their answers in, of slow PDUs too; of a prompt PDU it is
\* also the one last reported (polling.go 59-155, hpepdu.go 163-187).
PowerStateReported ==
  \A u \in Outlets, s \in {"On", "Off"} :
    (/\ <>[](monitored /\ outlet[u] = s /\ smaUp)
     /\ <>(\E i \in DOMAIN endpoints : u \in endpoints[i].sensors))
      => <>[](lastPowerState[u] = s /\ (prompt => lastEvent[u] = s))

\* Two workers of a slow PDU may store in one order and queue in the other:
\* what was last reported would then have to be repeated, but is not.
ReportedLast ==
  \A u \in Outlets, s \in {"On", "Off"} :
    <>[](lastPowerState[u] = s) => <>[](lastEvent[u] = s)

\* "monitor for the comings (and goings) of endpoints" (polling.go 451): an
\* endpoint HSM has dropped for good is in the end no longer polled.
GoneForgotten ==
  \A e \in Endpoints : <>[](e \notin reported) => <>[](e \notin Polled)
==============================================================================
