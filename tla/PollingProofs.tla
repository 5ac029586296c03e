---------------------------- MODULE PollingProofs ----------------------------
(***************************************************************************)
(* Proofs about Polling, for every set of endpoints, PDUs, sensors,        *)
(* answers, probers and workers: no endpoint is polled twice, a prompt PDU *)
(* has one poller at a time, and its power events tell of changes.         *)
(***************************************************************************)
EXTENDS Polling, TLAPS

(***************************************************************************)
(* The inductive invariant.                                                *)
(***************************************************************************)
\* A classification is under way for endpoints that the scan has left behind
\* and that are in neither list, for each at most once, and for none while
\* the monitor sleeps.
ScanInv ==
  /\ \A g \in Probers :
       prober[g].ep = NoEndpoint \/
       prober[g].ep \notin Polled \cup Ignored \cup toScan
  /\ \A g, h \in Probers :
       (prober[g].ep = prober[h].ep /\ prober[g].ep # NoEndpoint) => g = h
  /\ \A g \in Probers : prober[g].ep = NoEndpoint => prober[g].left = <<>>
  /\ monitor = "sleep" =>
       toScan = {} /\ \A g \in Probers : prober[g].ep = NoEndpoint

Own(e) == IF e \in Endpoints THEN SensorsOf(e) ELSE {}

\* Every list of sensors is one of the endpoint it is kept with.
SensorInv ==
  /\ \A g \in Probers : prober[g].sensors \subseteq Own(prober[g].ep)
  /\ \A i \in DOMAIN endpoints :
       endpoints[i].sensors \subseteq Own(endpoints[i].ep)
  /\ \A i \in DOMAIN round : round[i].sensors \subseteq Own(round[i].ep)
  /\ \A w \in Workers :
       /\ worker[w].urls \subseteq Own(worker[w].ep) \cup NodeUrls
       /\ worker[w].pc \in {"http", "parse", "store", "queue"} =>
            worker[w].url \in Own(worker[w].ep) \cup NodeUrls
       /\ worker[w].pc \in {"parse", "store", "queue"} =>
            worker[w].url \in Outlets

WorkerInv ==
  \A w \in Workers :
    /\ worker[w].pc = "idle" <=> worker[w].ep = NoEndpoint
    /\ worker[w].pc \in {"idle", "gate"} => ~worker[w].heard

Unheard(w, e) == Busy(w, e) /\ ~worker[w].heard

\* What is left of a round holds every endpoint once.
RoundInv ==
  \A i, j \in DOMAIN round : round[i].ep = round[j].ep => i = j

\* Of a prompt PDU at most one poll is without an answer, and then the PDU
\* is not in the round any more; while a poll that has had an answer goes on
\* the PDU counts as contacted recently.
PromptInv ==
  prompt =>
    \A e \in PDUs, w \in Workers :
      /\ Unheard(w, e) =>
           /\ \A v \in Workers : Unheard(v, e) => v = w
           /\ \A i \in DOMAIN round : round[i].ep # e
      /\ (Busy(w, e) /\ worker[w].heard) => recent[e]

\* Of a prompt PDU: a power state about to be stored is not the one that is
\* stored already, one about to be queued is stored and was not queued last,
\* and what is stored was queued last or is about to be.
PowerInv ==
  prompt =>
    /\ \A w \in Workers : worker[w].pc = "store" =>
         worker[w].got # lastPowerState[worker[w].url]
    /\ \A w \in Workers : worker[w].pc = "queue" =>
         /\ worker[w].got = lastPowerState[worker[w].url]
         /\ worker[w].got # lastEvent[worker[w].url]
    /\ \A u \in Outlets : lastEvent[u] # lastPowerState[u] =>
         \E w \in Workers : worker[w].pc = "queue" /\ worker[w].url = u

IInv ==
  /\ TypeOK /\ PolledOnce /\ ScanInv /\ SensorInv /\ WorkerInv
  /\ RoundInv /\ PromptInv /\ OnePollerPerPDU /\ PowerInv

(***************************************************************************)
(* Operators.                                                              *)
(***************************************************************************)
LEMMA Bounds == MaxFaults \in Nat /\ NoEndpoint \notin Endpoints /\
                PDUs \subseteq Endpoints
BY PollingAssumption

LEMMA ProbeTypes ==
  /\ NodeProbes \in Seq(Probe) /\ PduProbes \in Seq(Probe)
  /\ "other" \in Model /\ Collector \subseteq Model
  /\ IdleProber \in Prober
BY DEF NodeProbes, PduProbes, Probe, Range, Model, Collector, IdleProber, Prober

LEMMA SensorTypes ==
  \A e \in Endpoints, p \in Collections :
    SensorsAt[e][p] \subseteq SensorsOf(e) /\ SensorsAt[e][p] \subseteq Sensors
BY DEF Sensors, SensorsOf

\* An answer leaves a classification of the same endpoint, with sensors of
\* that endpoint.
LEMMA AnsweredType ==
  ASSUME NEW c \in Prober, c.left # <<>>, c.ep \in Endpoints,
         c.sensors \subseteq SensorsOf(c.ep)
  PROVE  /\ Answered(c, Head(c.left)) \in Prober
         /\ Answered(c, Head(c.left)).ep = c.ep
         /\ Answered(c, Head(c.left)).sensors \subseteq SensorsOf(c.ep)
<1>1. /\ Head(c.left) \in Probe /\ Tail(c.left) \in Seq(Probe)
      /\ <<>> \in Seq(Probe)
  BY DEF Prober
<1>2. Answers[c.ep][Head(c.left)] \in Model \cup {NoAnswer}
  BY <1>1, PollingAssumption
<1>3. Head(c.left) \in Collections =>
        /\ SensorsAt[c.ep][Head(c.left)] \subseteq Sensors
        /\ SensorsAt[c.ep][Head(c.left)] \subseteq SensorsOf(c.ep)
  BY SensorTypes
<1>4. Recognised(Head(c.left)) \subseteq Model /\ "other" \in Model
  BY DEF Recognised, Model, Collector
<1> DEFINE r == Answered(c, Head(c.left))
<1>5. CASE Head(c.left) \in Collections
  <2>1. r = [c EXCEPT !.left = Tail(@),
                      !.sensors = @ \cup SensorsAt[c.ep][Head(c.left)]]
    BY <1>5 DEF Answered
  <2> QED
    BY <1>1, <1>3, <1>5, <2>1 DEF Prober
<1>6. CASE Head(c.left) \notin Collections
  <2> DEFINE p == Head(c.left)
             a == Answers[c.ep][p]
             m == IF a = NoAnswer THEN c.model
                  ELSE IF a \in Recognised(p) THEN a ELSE "other"
             l == IF p = "RackPDUs/1" /\ a # "cis" THEN <<>> ELSE Tail(c.left)
  <2>1. r = [c EXCEPT !.model = m, !.left = l]
    BY <1>6 DEF Answered
  <2>2. m \in Model
    BY <1>4 DEF Prober
  <2>3. l \in Seq(Probe)
    BY <1>1
  <2> HIDE DEF r, m, l
  <2> QED
    BY <2>1, <2>2, <2>3 DEF Prober, r
<1> QED
  BY <1>5, <1>6

LEMMA WorkerTypes ==
  /\ IdleWorker \in Worker
  /\ IdleWorker.pc = "idle" /\ IdleWorker.ep = NoEndpoint
  /\ IdleWorker.urls = {} /\ IdleWorker.heard = FALSE
BY DEF IdleWorker, Worker, PowerState

(***************************************************************************)
(* What the steps of a worker do to it, in terms of its fields.            *)
(***************************************************************************)
LEMMA GotoOK ==
  ASSUME TypeOK, NEW w \in Workers, NEW f \in Worker, Goto(w, f)
  PROVE  /\ worker' \in [Workers -> Worker]
         /\ worker'[w] = f
         /\ \A v \in Workers : v # w => worker'[v] = worker[v]
BY DEF TypeOK, Goto

LEMMA PollSendFacts ==
  ASSUME TypeOK, NEW w \in Workers, PollSend(w)
  PROVE  /\ worker' \in [Workers -> Worker]
         /\ \A v \in Workers : v # w => worker'[v] = worker[v]
         /\ worker'[w].pc = "gate" /\ ~worker'[w].heard
         /\ worker'[w].ep = Head(round).ep
         /\ worker'[w].urls \subseteq Head(round).sensors \cup NodeUrls
<1> DEFINE us == IF Head(round).col = "cis" THEN Head(round).sensors
                 ELSE NodeUrls
           f == [IdleWorker EXCEPT !.ep = Head(round).ep, !.pc = "gate",
                                   !.urls = us]
<1>1. Goto(w, f)
  BY DEF PollSend
<1>2. Head(round) \in Entry
  BY DEF TypeOK, PollSend
<1>3. /\ us \subseteq Head(round).sensors \cup NodeUrls
      /\ us \in SUBSET (Sensors \cup NodeUrls)
      /\ Head(round).ep \in Endpoints
  BY <1>2 DEF Entry
<1> HIDE DEF us
<1>4. f \in Worker /\ f.ep = Head(round).ep /\ f.pc = "gate" /\ f.urls = us
      /\ f.heard = FALSE
  BY <1>3 DEF IdleWorker, Worker, PowerState
<1> HIDE DEF f
<1> QED
  BY <1>1, <1>3, <1>4, GotoOK

LEMMA GateFacts ==
  ASSUME TypeOK, NEW w \in Workers, Gate(w)
  PROVE  /\ worker' \in [Workers -> Worker]
         /\ \A v \in Workers : v # w => worker'[v] = worker[v]
         /\ \/ worker'[w] = IdleWorker
            \/ /\ ~Skipped(worker[w].ep)
               /\ worker'[w].pc = "next"
               /\ worker'[w].ep = worker[w].ep
               /\ worker'[w].urls = worker[w].urls
               /\ worker'[w].heard = worker[w].heard
<1> DEFINE n == [worker[w] EXCEPT !.pc = "next"]
           f == IF Skipped(worker[w].ep) THEN IdleWorker ELSE n
<1>1. Goto(w, f)
  BY DEF Gate
<1>2. /\ n \in Worker /\ n.pc = "next" /\ n.ep = worker[w].ep
      /\ n.urls = worker[w].urls /\ n.heard = worker[w].heard
  BY DEF TypeOK, Worker
<1> HIDE DEF n
<1>3. f \in Worker
  BY <1>2, WorkerTypes
<1>4. worker'[w] = f /\ worker' \in [Workers -> Worker]
      /\ \A v \in Workers : v # w => worker'[v] = worker[v]
  BY <1>1, <1>3, GotoOK
<1> QED
  BY <1>2, <1>4

LEMMA NextUrlFacts ==
  ASSUME TypeOK, NEW w \in Workers, NextUrl(w)
  PROVE  /\ worker' \in [Workers -> Worker]
         /\ \A v \in Workers : v # w => worker'[v] = worker[v]
         /\ \/ worker'[w] = IdleWorker
            \/ /\ worker'[w].pc = "http"
               /\ worker'[w].ep = worker[w].ep
               /\ worker'[w].url \in worker[w].urls
               /\ worker'[w].urls \subseteq worker[w].urls
               /\ worker'[w].heard = worker[w].heard
<1>1. CASE Goto(w, IdleWorker)
  BY <1>1, GotoOK, WorkerTypes
<1>2. ASSUME NEW u \in worker[w].urls,
             Goto(w, [worker[w] EXCEPT !.pc = "http", !.url = u,
                                       !.urls = @ \ {u}])
      PROVE  /\ worker' \in [Workers -> Worker]
             /\ \A v \in Workers : v # w => worker'[v] = worker[v]
             /\ worker'[w].pc = "http"
             /\ worker'[w].ep = worker[w].ep
             /\ worker'[w].url \in worker[w].urls
             /\ worker'[w].urls \subseteq worker[w].urls
             /\ worker'[w].heard = worker[w].heard
  <2> DEFINE f == [worker[w] EXCEPT !.pc = "http", !.url = u,
                                    !.urls = @ \ {u}]
  <2>1. /\ f \in Worker /\ f.pc = "http" /\ f.ep = worker[w].ep /\ f.url = u
        /\ f.urls \subseteq worker[w].urls /\ f.heard = worker[w].heard
    BY DEF TypeOK, Worker
  <2>2. Goto(w, f)
    BY <1>2
  <2> HIDE DEF f
  <2> QED
    BY <2>1, <2>2, GotoOK
<1> QED
  BY <1>1, <1>2 DEF NextUrl

LEMMA HttpAnswerFacts ==
  ASSUME TypeOK, NEW w \in Workers, HttpAnswer(w)
  PROVE  /\ worker' \in [Workers -> Worker]
         /\ \A v \in Workers : v # w => worker'[v] = worker[v]
         /\ worker'[w].pc \in {"parse", "next"}
         /\ worker'[w].pc = "parse" => worker[w].url \in Outlets
         /\ worker'[w].ep = worker[w].ep
         /\ worker'[w].url = worker[w].url
         /\ worker'[w].urls = worker[w].urls
         /\ worker'[w].heard
<1> DEFINE u == worker[w].url
           p == IF u \in Outlets THEN "parse" ELSE "next"
           a == IF u \in Outlets THEN outlet[u] ELSE ""
           f == [worker[w] EXCEPT !.pc = p, !.heard = TRUE, !.got = a]
<1>1. Goto(w, f)
  BY DEF HttpAnswer
<1>2. /\ p \in {"parse", "next"} /\ (p = "parse" => u \in Outlets)
      /\ a \in PowerState
  BY DEF TypeOK, PowerState
<1> HIDE DEF p, a
<1>3. /\ f \in Worker /\ f.pc = p /\ f.ep = worker[w].ep
      /\ f.url = worker[w].url
      /\ f.urls = worker[w].urls /\ f.heard = TRUE
  BY <1>2 DEF TypeOK, Worker
<1> HIDE DEF f
<1> QED
  BY <1>1, <1>2, <1>3, GotoOK

LEMMA HttpUselessFacts ==
  ASSUME TypeOK, NEW w \in Workers, HttpUseless(w)
  PROVE  /\ worker' \in [Workers -> Worker]
         /\ \A v \in Workers : v # w => worker'[v] = worker[v]
         /\ worker'[w].pc = "next"
         /\ worker'[w].ep = worker[w].ep
         /\ worker'[w].url = worker[w].url
         /\ worker'[w].urls = worker[w].urls
         /\ worker'[w].heard
<1> DEFINE f == [worker[w] EXCEPT !.pc = "next", !.heard = TRUE]
<1>1. Goto(w, f)
  BY DEF HttpUseless
<1>2. /\ f \in Worker /\ f.pc = "next" /\ f.ep = worker[w].ep
      /\ f.url = worker[w].url
      /\ f.urls = worker[w].urls /\ f.heard = TRUE
  BY DEF TypeOK, Worker
<1> HIDE DEF f
<1> QED
  BY <1>1, <1>2, GotoOK

\* HttpError, ParseOutlet, StoreOutlet and QueueEvent only move the worker.
LEMMA MoveFacts ==
  ASSUME TypeOK, NEW w \in Workers,
         NEW p \in {"next", "store", "queue"}, Goto(w, [worker[w] EXCEPT !.pc = p])
  PROVE  /\ worker' \in [Workers -> Worker]
         /\ \A v \in Workers : v # w => worker'[v] = worker[v]
         /\ worker'[w].pc = p
         /\ worker'[w].ep = worker[w].ep /\ worker'[w].url = worker[w].url
         /\ worker'[w].urls = worker[w].urls
         /\ worker'[w].got = worker[w].got
         /\ worker'[w].heard = worker[w].heard
<1> DEFINE f == [worker[w] EXCEPT !.pc = p]
<1>1. /\ f \in Worker /\ f.pc = p /\ f.ep = worker[w].ep
      /\ f.url = worker[w].url /\ f.urls = worker[w].urls
      /\ f.got = worker[w].got /\ f.heard = worker[w].heard
  BY DEF TypeOK, Worker
<1>2. Goto(w, f)
  OBVIOUS
<1> HIDE DEF f
<1> QED
  BY <1>1, <1>2, GotoOK

(***************************************************************************)
(* What a step that leaves variables alone preserves.                      *)
(***************************************************************************)
PollInv ==
  WorkerInv /\ RoundInv /\ PromptInv /\ OnePollerPerPDU /\ PowerInv

LEMMA ListFrame ==
  ASSUME PolledOnce, ScanInv, UNCHANGED monVars
  PROVE  PolledOnce' /\ ScanInv'
BY DEF PolledOnce, ScanInv, monVars, Polled, Ignored

LEMMA SensorFrame ==
  ASSUME SensorInv, UNCHANGED <<prober, endpoints, round, worker>>
  PROVE  SensorInv'
BY DEF SensorInv

LEMMA PollFrame ==
  ASSUME PollInv, UNCHANGED <<prompt, round, worker, recent, stateVars>>
  PROVE  PollInv'
BY DEF PollInv, WorkerInv, RoundInv, PromptInv, OnePollerPerPDU, PowerInv,
       Unheard, Busy, stateVars

\* The environment, HSM's list and the SMA check touch none of the lists, no
\* classification and no poll.
EnvStep ==
  \/ UpdateHSMEndpoints \/ monitorSMA \/ SmaChange \/ PollSleep
  \/ \E e \in Endpoints : Arrive(e) \/ Leave(e)
  \/ \E u \in Outlets : OutletChange(u)

LEMMA EnvIInv == IInv /\ EnvStep => IInv'
<1> SUFFICES ASSUME IInv, EnvStep PROVE IInv'
  OBVIOUS
<1>1. UNCHANGED <<monVars, round, worker, recent, stateVars, config>>
  BY DEF EnvStep, UpdateHSMEndpoints, monitorSMA, SmaChange, PollSleep, Arrive,
         Leave, OutletChange, envVars, pollVars
<1>2. PolledOnce' /\ ScanInv' /\ SensorInv' /\ PollInv'
  BY <1>1, ListFrame, SensorFrame, PollFrame
     DEF IInv, PollInv, monVars, config
<1>3. TypeOK'
  <2> USE DEF IInv, TypeOK, envVars, config, monVars, pollVars, stateVars
  <2>1. CASE UpdateHSMEndpoints
    BY <2>1 DEF UpdateHSMEndpoints
  <2>2. CASE monitorSMA
    BY <2>2 DEF monitorSMA
  <2>3. CASE SmaChange
    BY <2>3, Bounds DEF SmaChange, Fault
  <2>4. CASE PollSleep
    BY <2>4 DEF PollSleep
  <2>5. ASSUME NEW e \in Endpoints, Arrive(e) PROVE TypeOK'
    BY <2>5 DEF Arrive
  <2>6. ASSUME NEW e \in Endpoints, Leave(e) PROVE TypeOK'
    BY <2>6, Bounds DEF Leave, Fault
  <2>7. ASSUME NEW u \in Outlets, OutletChange(u) PROVE TypeOK'
    BY <2>7, Bounds DEF OutletChange, Fault
  <2> QED
    BY <2>1, <2>2, <2>3, <2>4, <2>5, <2>6, <2>7 DEF EnvStep
<1> QED
  BY <1>2, <1>3 DEF IInv, PollInv

LEMMA AgeIInv == ASSUME IInv, NEW e \in Endpoints, Age(e) PROVE IInv'
<1>1. UNCHANGED <<envVars, monVars, pollVars, worker, stateVars,
                  HSMEndpoints, smaOK>>
  BY DEF Age
<1>2. PolledOnce' /\ ScanInv' /\ SensorInv'
  BY <1>1, ListFrame, SensorFrame DEF IInv, monVars, pollVars
<1>3. PromptInv'
  BY <1>1 DEF Age, IInv, TypeOK, PromptInv, Unheard, Busy, pollVars, envVars, config
<1>4. WorkerInv' /\ RoundInv' /\ OnePollerPerPDU' /\ PowerInv'
  BY <1>1 DEF IInv, WorkerInv, RoundInv, OnePollerPerPDU, PowerInv, Busy,
              pollVars, envVars, config, stateVars
<1>5. TypeOK'
  BY <1>1 DEF Age, IInv, TypeOK, pollVars, envVars, config, stateVars, monVars
<1> QED
  BY <1>2, <1>3, <1>4, <1>5 DEF IInv

(***************************************************************************)
(* The monitor and the classifications.                                    *)
(***************************************************************************)
LEMMA MonitorIInv == IInv /\ MonitorStep => IInv'
<1> SUFFICES ASSUME IInv, MonitorStep PROVE IInv'
  OBVIOUS
<1>1. UNCHANGED <<envVars, HSMEndpoints, endpoints, nonPolled, pollVars,
                  worker, recent, smaOK, stateVars>>
  BY DEF MonitorStep, ScanStart, ScanEnd, ScanKnown, ScanNew
<1>2. PollInv' /\ PolledOnce'
  BY <1>1, PollFrame
     DEF IInv, PollInv, pollVars, envVars, config, PolledOnce, Polled, Ignored
<1>3. ASSUME UNCHANGED prober, monitor' \in {"scan", "sleep"},
             toScan' \subseteq Endpoints
      PROVE  TypeOK' /\ SensorInv'
  BY <1>1, <1>3, SensorFrame
     DEF IInv, TypeOK, envVars, config, pollVars, stateVars
<1>4. CASE ScanStart
  <2>1. ScanInv'
    BY <1>1, <1>4, Bounds DEF ScanStart, IInv, TypeOK, ScanInv
  <2> QED
    BY <1>2, <1>3, <1>4, <2>1 DEF ScanStart, IInv, PollInv, TypeOK
<1>5. CASE ScanEnd
  <2>1. ScanInv'
    BY <1>1, <1>5 DEF ScanEnd, IInv, ScanInv, Polled, Ignored, IdleProber
  <2> QED
    BY <1>2, <1>3, <1>5, <2>1 DEF ScanEnd, IInv, PollInv, TypeOK
<1>6. ASSUME NEW e \in Endpoints, ScanKnown(e) PROVE IInv'
  <2>1. ScanInv'
    BY <1>1, <1>6 DEF ScanKnown, IInv, ScanInv, Polled, Ignored
  <2> QED
    BY <1>2, <1>3, <1>6, <2>1 DEF ScanKnown, IInv, PollInv, TypeOK
<1>7. ASSUME NEW e \in Endpoints, NEW g \in Probers, ScanNew(e, g) PROVE IInv'
  <2> DEFINE ps == IF e \in PDUs THEN PduProbes ELSE NodeProbes
             c == [ep |-> e, left |-> ps, model |-> "other", sensors |-> {}]
  <2>1. ps \in Seq(Probe)
    BY ProbeTypes
  <2>2. prober' = [prober EXCEPT ![g] = c]
    BY <1>7 DEF ScanNew
  <2> HIDE DEF ps
  <2>3. c \in Prober /\ c.ep = e /\ c.sensors = {}
    BY <2>1, ProbeTypes DEF Prober
  <2> HIDE DEF c
  <2>4. /\ prober' \in [Probers -> Prober] /\ prober'[g] = c
        /\ \A h \in Probers : h # g => prober'[h] = prober[h]
    BY <2>2, <2>3 DEF IInv, TypeOK
  <2>5. ScanInv'
    <3>1. e \notin Polled' \cup Ignored' \cup toScan'
      BY <1>1, <1>7 DEF ScanNew, Polled, Ignored
    <3>2. \A h \in Probers : h # g => prober[h].ep # e
      BY <1>7, Bounds DEF ScanNew, IInv, ScanInv
    <3>3. monitor' = "scan" /\ toScan' \subseteq toScan /\ e # NoEndpoint
          /\ Polled' = Polled /\ Ignored' = Ignored
      BY <1>1, <1>7, Bounds DEF ScanNew, Polled, Ignored
    <3> QED
      BY <2>3, <2>4, <3>1, <3>2, <3>3 DEF IInv, ScanInv
  <2>6. SensorInv'
    BY <1>1, <2>3, <2>4 DEF IInv, SensorInv, pollVars
  <2>7. TypeOK'
    BY <1>1, <1>7, <2>4
       DEF IInv, TypeOK, ScanNew, envVars, config, pollVars, stateVars
  <2> QED
    BY <1>2, <2>5, <2>6, <2>7 DEF IInv, PollInv
<1> QED
  BY <1>4, <1>5, <1>6, <1>7 DEF MonitorStep

\* A prober that goes on with its endpoint, or gives up.
LEMMA ProbeIInv ==
  ASSUME IInv, NEW g \in Probers, NEW c \in Prober,
         prober[g].ep # NoEndpoint,
         prober' = [prober EXCEPT ![g] = c],
         c = IdleProber \/ (/\ c.ep = prober[g].ep
                            /\ c.sensors \subseteq Own(c.ep)),
         nfaults' \in 0 .. MaxFaults,
         UNCHANGED <<config, reported, smaUp, outlet, HSMEndpoints, monitor,
                     toScan, endpoints, nonPolled, pollVars, worker, recent,
                     smaOK, stateVars>>
  PROVE  IInv'
<1>1. /\ prober' \in [Probers -> Prober] /\ prober'[g] = c
      /\ \A h \in Probers : h # g => prober'[h] = prober[h]
  BY DEF IInv, TypeOK
<1>2. PollInv' /\ PolledOnce'
  BY PollFrame
     DEF IInv, PollInv, pollVars, config, PolledOnce, Polled, Ignored
<1>3. c = IdleProber => c.ep = NoEndpoint /\ c.left = <<>> /\ c.sensors = {}
  BY DEF IdleProber
<1>4. ScanInv'
  <2>1. Polled' = Polled /\ Ignored' = Ignored
    BY DEF Polled, Ignored
  <2> QED
    BY <1>1, <1>3, <2>1 DEF IInv, ScanInv
<1>5. SensorInv'
  BY <1>1, <1>3 DEF IInv, SensorInv, pollVars
<1>6. TypeOK'
  BY <1>1 DEF IInv, TypeOK, config, pollVars, stateVars
<1> QED
  BY <1>2, <1>4, <1>5, <1>6 DEF IInv, PollInv

LEMMA ClassifyIInv == ASSUME IInv, NEW g \in Probers, Classify(g) PROVE IInv'
<1> DEFINE c == prober[g]
           n == [ep |-> c.ep, sensors |-> c.sensors, col |-> c.model]
<1>1. /\ c \in Prober /\ c.ep \in Endpoints
      /\ c.ep \notin Polled \cup Ignored \cup toScan
      /\ c.sensors \subseteq Own(c.ep)
  BY DEF Classify, IInv, TypeOK, Prober, ScanInv, SensorInv
<1>2. /\ prober' \in [Probers -> Prober] /\ prober'[g] = IdleProber
      /\ \A h \in Probers : h # g => prober'[h] = prober[h]
      /\ IdleProber.ep = NoEndpoint /\ IdleProber.sensors = {}
      /\ IdleProber.left = <<>>
  BY ProbeTypes DEF Classify, IInv, TypeOK, IdleProber
<1>3. UNCHANGED <<envVars, HSMEndpoints, monitor, toScan, pollVars, worker,
                  smaOK, stateVars>>
  BY DEF Classify
<1>4. WorkerInv' /\ RoundInv' /\ OnePollerPerPDU' /\ PowerInv'
  BY <1>3 DEF IInv, WorkerInv, RoundInv, OnePollerPerPDU, PowerInv, Busy,
              pollVars, envVars, config, stateVars
<1>5. CASE c.model \in Collector
  <2>1. /\ endpoints' = Append(endpoints, n) /\ nonPolled' = nonPolled
        /\ recent' = [recent EXCEPT ![c.ep] = TRUE]
    BY <1>5 DEF Classify
  <2>2. n \in Entry /\ n.ep = c.ep /\ n.sensors = c.sensors
    BY <1>1, <1>5 DEF Prober, Entry
  <2> HIDE DEF n, c
  <2>3. /\ endpoints' \in Seq(Entry) /\ DOMAIN endpoints' = 1 .. Len(endpoints) + 1
        /\ endpoints'[Len(endpoints) + 1] = n
        /\ \A i \in DOMAIN endpoints :
             i \in 1 .. Len(endpoints) /\ endpoints'[i] = endpoints[i]
        /\ \A i \in DOMAIN endpoints' :
             i \in DOMAIN endpoints \/ i = Len(endpoints) + 1
        /\ Len(endpoints) + 1 \notin DOMAIN endpoints
    BY <2>1, <2>2 DEF IInv, TypeOK
  <2>4. Polled' = Polled \cup {c.ep} /\ Ignored' = Ignored
    BY <2>1, <2>2, <2>3 DEF Polled, Ignored
  <2>5. PolledOnce'
    <3>1. \A i, j \in DOMAIN endpoints :
            endpoints[i].ep = endpoints[j].ep => i = j
      BY DEF IInv, PolledOnce, IsInjective
    <3>2. \A i \in DOMAIN endpoints : endpoints[i].ep # c.ep
      BY <1>1 DEF Polled
    <3>3. \A i, j \in DOMAIN endpoints' :
            endpoints'[i].ep = endpoints'[j].ep => i = j
      BY <2>2, <2>3, <3>1, <3>2
    <3>4. IsInjective([i \in DOMAIN endpoints |-> endpoints[i].ep])'
      BY <3>3 DEF IsInjective
    <3>5. IsInjective(nonPolled)' /\ (Polled \cap Ignored = {})'
      BY <1>1, <2>1, <2>4 DEF IInv, PolledOnce
    <3> QED
      BY <3>4, <3>5 DEF PolledOnce
  <2>6. ScanInv'
    BY <1>1, <1>2, <1>3, <2>4, Bounds DEF IInv, ScanInv, c
  <2>7. SensorInv'
    <3>1. \A i \in DOMAIN endpoints' :
            endpoints'[i].sensors \subseteq Own(endpoints'[i].ep)
      BY <1>1, <2>2, <2>3 DEF IInv, SensorInv
    <3> QED
      BY <1>2, <1>3, <3>1 DEF IInv, SensorInv, pollVars
  <2>8. PromptInv'
    BY <1>1, <1>3, <2>1 DEF IInv, TypeOK, PromptInv, Unheard, Busy, pollVars,
                            envVars, config
  <2>9. TypeOK'
    BY <1>1, <1>2, <1>3, <2>1, <2>3
       DEF IInv, TypeOK, envVars, config, pollVars, stateVars
  <2> QED
    BY <1>4, <2>5, <2>6, <2>7, <2>8, <2>9 DEF IInv
<1>6. CASE c.model \notin Collector
  <2>1. /\ nonPolled' = Append(nonPolled, c.ep) /\ endpoints' = endpoints
        /\ recent' = recent
    BY <1>6 DEF Classify
  <2> HIDE DEF c
  <2>2. /\ nonPolled' \in Seq(Endpoints)
        /\ DOMAIN nonPolled' = 1 .. Len(nonPolled) + 1
        /\ nonPolled'[Len(nonPolled) + 1] = c.ep
        /\ \A i \in DOMAIN nonPolled :
             i \in 1 .. Len(nonPolled) /\ nonPolled'[i] = nonPolled[i]
        /\ \A i \in DOMAIN nonPolled' :
             i \in DOMAIN nonPolled \/ i = Len(nonPolled) + 1
    BY <1>1, <2>1 DEF IInv, TypeOK
  <2>3. Ignored' = Ignored \cup {c.ep} /\ Polled' = Polled
    BY <2>1, <2>2 DEF Polled, Ignored, Range
  <2>4. PolledOnce'
    <3>1. \A i \in DOMAIN nonPolled : nonPolled[i] # c.ep
      BY <1>1 DEF Ignored, Range
    <3>2. \A i, j \in DOMAIN nonPolled : nonPolled[i] = nonPolled[j] => i = j
      BY DEF IInv, PolledOnce, IsInjective
    <3>3. IsInjective(nonPolled)'
      BY <2>2, <3>1, <3>2 DEF IsInjective
    <3> QED
      BY <1>1, <2>1, <2>3, <3>3 DEF IInv, PolledOnce
  <2>5. ScanInv'
    BY <1>1, <1>2, <1>3, <2>3, Bounds DEF IInv, ScanInv, c
  <2>6. SensorInv'
    BY <1>2, <1>3, <2>1 DEF IInv, SensorInv, pollVars
  <2>7. PromptInv'
    BY <1>3, <2>1 DEF IInv, PromptInv, Unheard, Busy, pollVars, envVars, config
  <2>8. TypeOK'
    BY <1>2, <1>3, <2>1, <2>2
       DEF IInv, TypeOK, envVars, config, pollVars, stateVars
  <2> QED
    BY <1>4, <2>4, <2>5, <2>6, <2>7, <2>8 DEF IInv
<1> QED
  BY <1>5, <1>6

LEMMA ProberIInv ==
  ASSUME IInv, NEW g \in Probers,
         ProberStep(g) \/ ProbeFails(g) \/ ProbeGarbled(g)
  PROVE  IInv'
<1> DEFINE c == prober[g]
<1>1. ASSUME c.left # <<>>
      PROVE  /\ c \in Prober /\ c.ep \in Endpoints /\ c.ep # NoEndpoint
             /\ c.sensors \subseteq SensorsOf(c.ep)
             /\ Own(c.ep) = SensorsOf(c.ep)
  BY <1>1, Bounds DEF IInv, TypeOK, Prober, ScanInv, SensorInv, Own
<1>2. CASE ProbeAnswered(g)
  <2>1. /\ c.left # <<>>
        /\ prober' = [prober EXCEPT ![g] = Answered(c, Head(c.left))]
        /\ UNCHANGED <<envVars, HSMEndpoints, monitor, toScan, endpoints,
                       nonPolled, pollVars, worker, recent, smaOK, stateVars>>
    BY <1>2 DEF ProbeAnswered
  <2>2. nfaults' \in 0 .. MaxFaults
    BY <2>1 DEF IInv, TypeOK, envVars
  <2> QED
    BY <1>1, <2>1, <2>2, AnsweredType, ProbeIInv DEF envVars
<1>3. CASE ProbeFails(g)
  <2> DEFINE l == IF Head(c.left) = "RackPDUs/1" THEN <<>> ELSE Tail(c.left)
             d == [c EXCEPT !.left = l]
  <2>1. c.left # <<>> /\ prober' = [prober EXCEPT ![g] = d]
    BY <1>3 DEF ProbeFails
  <2>2. l \in Seq(Probe)
    BY <1>1, <2>1 DEF Prober
  <2> HIDE DEF l
  <2>3. d \in Prober /\ d.ep = c.ep /\ d.sensors = c.sensors
    BY <1>1, <2>1, <2>2 DEF Prober
  <2>4. nfaults' \in 0 .. MaxFaults
    BY <1>3, Bounds DEF ProbeFails, Fault, IInv, TypeOK
  <2>5. UNCHANGED <<config, reported, smaUp, outlet, HSMEndpoints, monitor,
                    toScan, endpoints, nonPolled, pollVars, worker, recent,
                    smaOK, stateVars>>
    BY <1>3 DEF ProbeFails
  <2> HIDE DEF d
  <2> QED
    BY <1>1, <2>1, <2>3, <2>4, <2>5, ProbeIInv
<1>4. CASE ProbeGarbled(g)
  <2>1. nfaults' \in 0 .. MaxFaults
    BY <1>4, Bounds DEF ProbeGarbled, Fault, IInv, TypeOK
  <2> QED
    BY <1>1, <1>4, <2>1, ProbeTypes, ProbeIInv DEF ProbeGarbled
<1>5. CASE Classify(g)
  BY <1>5, ClassifyIInv
<1> QED
  BY <1>2, <1>3, <1>4, <1>5 DEF ProberStep

(***************************************************************************)
(* The poller and the workers.                                             *)
(***************************************************************************)
\* What these steps leave alone.
LEMMA WorkFrame ==
  ASSUME IInv,
         UNCHANGED <<config, reported, smaUp, outlet, HSMEndpoints, monVars,
                     smaOK>>
  PROVE  /\ PolledOnce' /\ ScanInv'
         /\ (/\ poller' \in {"send", "sleep"} /\ round' \in Seq(Entry)
             /\ worker' \in [Workers -> Worker]
             /\ recent' \in [Endpoints -> BOOLEAN]
             /\ lastPowerState' \in [Outlets -> PowerState]
             /\ lastEvent' \in [Outlets -> PowerState]
             /\ nfaults' \in 0 .. MaxFaults) => TypeOK'
<1>1. PolledOnce' /\ ScanInv'
  BY ListFrame DEF IInv
<1> QED
  BY <1>1 DEF IInv, TypeOK, config, monVars

LEMMA PollRoundIInv == IInv /\ PollRound => IInv'
<1> SUFFICES ASSUME IInv, PollRound PROVE IInv'
  OBVIOUS
<1>1. /\ poller' = "send" /\ round' = endpoints
      /\ UNCHANGED <<envVars, HSMEndpoints, monVars, worker, recent, smaOK,
                     stateVars>>
  BY DEF PollRound
<1>2. PolledOnce' /\ ScanInv' /\ TypeOK'
  BY <1>1, WorkFrame DEF IInv, TypeOK, envVars, stateVars
<1>3. RoundInv'
  BY <1>1 DEF IInv, PolledOnce, IsInjective, RoundInv
<1>4. SensorInv'
  BY <1>1 DEF IInv, SensorInv, monVars
<1>5. WorkerInv' /\ OnePollerPerPDU' /\ PowerInv'
  BY <1>1 DEF IInv, WorkerInv, OnePollerPerPDU, PowerInv, Busy, envVars, config,
              stateVars
<1>6. PromptInv'
  BY <1>1 DEF IInv, PromptInv, PollRound, Unheard, Busy, envVars, config
<1> QED
  BY <1>2, <1>3, <1>4, <1>5, <1>6 DEF IInv

\* A worker that neither stores nor queues.
LEMMA KeepsPower ==
  ASSUME PowerInv, NEW w \in Workers, UNCHANGED <<prompt, stateVars>>,
         \A v \in Workers : v # w => worker'[v] = worker[v],
         worker[w].pc # "queue", worker'[w].pc # "queue",
         worker'[w].pc = "store" =>
           worker'[w].got # lastPowerState[worker'[w].url]
  PROVE  PowerInv'
BY DEF PowerInv, stateVars

LEMMA PollSendIInv == ASSUME IInv, NEW w \in Workers, PollSend(w) PROVE IInv'
<1>1. /\ worker[w].pc = "idle" /\ round' = Tail(round)
      /\ UNCHANGED <<envVars, HSMEndpoints, monVars, poller, recent, smaOK,
                     stateVars>>
  BY DEF PollSend
<1>2. /\ worker' \in [Workers -> Worker]
      /\ \A v \in Workers : v # w => worker'[v] = worker[v]
      /\ worker'[w].pc = "gate" /\ ~worker'[w].heard
      /\ worker'[w].ep = Head(round).ep
      /\ worker'[w].urls \subseteq Head(round).sensors \cup NodeUrls
  BY PollSendFacts DEF IInv
<1>3. /\ round \in Seq(Entry) /\ Len(round) \in Nat /\ Len(round) # 0
      /\ round' \in Seq(Entry)
      /\ 1 \in DOMAIN round /\ Head(round) = round[1] /\ Head(round) \in Entry
      /\ \A i \in DOMAIN round' : /\ i \in Nat /\ i + 1 # 1
                                  /\ i + 1 \in DOMAIN round
                                  /\ round'[i] = round[i + 1]
  BY <1>1 DEF PollSend, IInv, TypeOK
<1>4. Head(round).ep \in Endpoints /\ Head(round).ep # NoEndpoint
  BY <1>3, Bounds DEF Entry
<1>5. PolledOnce' /\ ScanInv' /\ TypeOK'
  BY <1>1, <1>2, <1>3, WorkFrame DEF IInv, TypeOK, envVars, stateVars
<1>6. WorkerInv'
  BY <1>2, <1>4 DEF IInv, WorkerInv
<1>7. RoundInv'
  BY <1>3 DEF IInv, RoundInv
<1>8. SensorInv'
  <2>1. \A i \in DOMAIN round' : round'[i].sensors \subseteq Own(round'[i].ep)
    BY <1>3 DEF IInv, SensorInv
  <2>2. worker'[w].urls \subseteq Own(worker'[w].ep) \cup NodeUrls
    BY <1>2, <1>3 DEF IInv, SensorInv
  <2> QED
    BY <1>1, <1>2, <2>1, <2>2 DEF IInv, SensorInv, monVars
<1>9. OnePollerPerPDU' /\ PowerInv'
  <2>1. PowerInv'
    BY <1>1, <1>2, KeepsPower DEF IInv, envVars, config
  <2> QED
    BY <1>1, <1>2, <2>1 DEF IInv, OnePollerPerPDU, Busy, envVars, config
<1>10. PromptInv'
  <2> SUFFICES ASSUME prompt, NEW e \in PDUs, NEW v \in Workers
               PROVE  /\ Unheard(v, e)' =>
                           /\ \A x \in Workers : Unheard(x, e)' => x = v
                           /\ \A i \in DOMAIN round' : round'[i].ep # e
                      /\ (Busy(v, e)' /\ worker'[v].heard) => recent[e]
    BY <1>1 DEF PromptInv, envVars, config
  <2>1. (Busy(v, e)' /\ worker'[v].heard) => recent[e]
    BY <1>2 DEF Busy, IInv, PromptInv
  <2>2. CASE e = Head(round).ep
    <3>1. \A x \in Workers : x # w => ~Unheard(x, e)'
      BY <1>2, <1>3, <2>2 DEF IInv, PromptInv, Unheard, Busy
    <3>2. \A i \in DOMAIN round' : round'[i].ep # e
      BY <1>3, <2>2 DEF IInv, RoundInv
    <3> QED
      BY <2>1, <3>1, <3>2
  <2>3. CASE e # Head(round).ep
    <3>1. ~Unheard(w, e)'
      BY <1>2, <2>3 DEF Unheard, Busy
    <3>2. \A x \in Workers : x # w => (Unheard(x, e)' <=> Unheard(x, e))
      BY <1>2 DEF Unheard, Busy
    <3> QED
      BY <1>3, <2>1, <3>1, <3>2 DEF IInv, PromptInv
  <2> QED
    BY <2>2, <2>3
<1> QED
  BY <1>5, <1>6, <1>7, <1>8, <1>9, <1>10 DEF IInv

\* A step in which a worker gives its endpoint up or goes on with it, and an
\* answer makes the endpoint a recently contacted one.
Keeps(w) ==
  /\ worker' \in [Workers -> Worker]
  /\ \A v \in Workers : v # w => worker'[v] = worker[v]
  /\ \A e \in Endpoints : recent[e] => recent'[e]
  /\ \/ worker'[w] = IdleWorker
     \/ /\ worker'[w].ep = worker[w].ep
        /\ worker[w].ep \in Endpoints
        /\ worker'[w].pc \notin {"idle", "gate"}
        /\ worker'[w].urls \subseteq worker[w].urls
        /\ worker[w].heard => worker'[w].heard
        /\ (worker'[w].heard /\ ~worker[w].heard) => recent'[worker[w].ep]
        /\ worker'[w].pc # "next" =>
             worker'[w].url \in worker[w].urls \cup {worker[w].url}
        /\ (worker'[w].pc # "next" /\ worker'[w].url \notin worker[w].urls) =>
             worker[w].pc \in {"http", "parse", "store", "queue"}
        /\ worker'[w].pc \in {"parse", "store", "queue"} =>
             worker'[w].url \in Outlets

LEMMA KeepsIInv ==
  ASSUME IInv, NEW w \in Workers, Keeps(w), UNCHANGED <<round, prompt>>,
         UNCHANGED <<prober, endpoints>>
  PROVE  WorkerInv' /\ RoundInv' /\ SensorInv' /\ PromptInv'
<1> USE DEF IInv
<1>1. WorkerInv'
  <2>1. worker[w].ep \in Endpoints => worker[w].ep # NoEndpoint
    BY Bounds
  <2> QED
    BY <2>1, WorkerTypes DEF WorkerInv, Keeps
<1>2. RoundInv'
  BY DEF RoundInv
<1>3. SensorInv'
  <2>1. /\ worker'[w].urls \subseteq Own(worker'[w].ep) \cup NodeUrls
        /\ worker'[w].pc \in {"http", "parse", "store", "queue"} =>
             worker'[w].url \in Own(worker'[w].ep) \cup NodeUrls
        /\ worker'[w].pc \in {"parse", "store", "queue"} =>
             worker'[w].url \in Outlets
    BY WorkerTypes DEF Keeps, SensorInv
  <2> QED
    BY <2>1 DEF SensorInv, Keeps
<1>4. PromptInv'
  <2> SUFFICES ASSUME prompt, NEW e \in PDUs, NEW v \in Workers
               PROVE  /\ Unheard(v, e)' =>
                           /\ \A x \in Workers : Unheard(x, e)' => x = v
                           /\ \A i \in DOMAIN round' : round'[i].ep # e
                      /\ (Busy(v, e)' /\ worker'[v].heard) => recent'[e]
    BY DEF PromptInv
  <2>1. \A x \in Workers : Unheard(x, e)' => Unheard(x, e)
    BY WorkerTypes, Bounds DEF Keeps, Unheard, Busy
  <2>2. (Busy(v, e)' /\ worker'[v].heard) => recent'[e]
    BY WorkerTypes, Bounds DEF Keeps, Busy, PromptInv
  <2> QED
    BY <2>1, <2>2 DEF PromptInv
<1> QED
  BY <1>1, <1>2, <1>3, <1>4

\* Only the step past the gate could give a PDU a second poller.
LEMMA KeepsOne ==
  ASSUME IInv, NEW w \in Workers, Keeps(w), UNCHANGED prompt,
         worker[w].pc # "gate" \/ worker'[w] = IdleWorker
  PROVE  OnePollerPerPDU'
BY WorkerTypes, Bounds DEF IInv, OnePollerPerPDU, Keeps, Busy

LEMMA GateIInv == ASSUME IInv, NEW w \in Workers, Gate(w) PROVE IInv'
<1>1. /\ worker[w].pc = "gate" /\ worker[w] \in Worker
      /\ UNCHANGED <<envVars, HSMEndpoints, monVars, pollVars, recent, smaOK,
                     stateVars>>
  BY DEF Gate, IInv, TypeOK
<1>2. worker[w].ep \in Endpoints /\ ~worker[w].heard
  BY <1>1 DEF IInv, WorkerInv, Worker
<1>3. /\ worker' \in [Workers -> Worker]
      /\ \A v \in Workers : v # w => worker'[v] = worker[v]
      /\ \/ worker'[w] = IdleWorker
         \/ /\ ~Skipped(worker[w].ep)
            /\ worker'[w].pc = "next"
            /\ worker'[w].ep = worker[w].ep
            /\ worker'[w].urls = worker[w].urls
            /\ worker'[w].heard = worker[w].heard
  BY GateFacts DEF IInv
<1>4. Keeps(w)
  BY <1>1, <1>2, <1>3 DEF Keeps
<1>5. WorkerInv' /\ RoundInv' /\ SensorInv' /\ PromptInv'
  BY <1>1, <1>4, KeepsIInv DEF pollVars, monVars, envVars, config
<1>6. PowerInv'
  BY <1>1, <1>3, WorkerTypes, KeepsPower DEF IInv, envVars, config
<1>7. OnePollerPerPDU'
  <2>1. CASE worker'[w] = IdleWorker
    BY <1>1, <1>4, <2>1, KeepsOne DEF envVars, config
  <2>2. CASE worker'[w] # IdleWorker
    <3> SUFFICES ASSUME prompt, NEW e \in PDUs, NEW v \in Workers, v # w,
                        Busy(v, e)', Busy(w, e)'
                 PROVE  worker'[v].pc = "gate"
      BY <1>1, <1>3 DEF OnePollerPerPDU, IInv, Busy, envVars, config
    <3>1. Busy(v, e) /\ Unheard(w, e) /\ worker'[v] = worker[v]
      BY <1>2, <1>3, <2>2 DEF Busy, Unheard
    <3>2. ~recent[e]
      BY <1>3, <2>2, <3>1 DEF Skipped, Busy
    <3>3. Unheard(v, e)
      BY <3>1, <3>2 DEF IInv, PromptInv, Unheard
    <3> QED
      BY <3>1, <3>3 DEF IInv, PromptInv
  <2> QED
    BY <2>1, <2>2
<1>8. PolledOnce' /\ ScanInv' /\ TypeOK'
  BY <1>1, <1>3, WorkFrame DEF IInv, TypeOK, envVars, stateVars, pollVars
<1> QED
  BY <1>5, <1>6, <1>7, <1>8 DEF IInv

\* The other steps of a worker but StoreOutlet and QueueEvent.
LEMMA PassIInv ==
  ASSUME IInv, NEW w \in Workers, Keeps(w), worker[w].pc \notin {"gate", "queue"},
         worker'[w].pc # "queue",
         worker'[w].pc = "store" =>
           worker'[w].got # lastPowerState[worker'[w].url],
         recent' \in [Endpoints -> BOOLEAN], nfaults' \in 0 .. MaxFaults,
         UNCHANGED <<config, reported, smaUp, outlet, HSMEndpoints, monVars,
                     pollVars, smaOK, stateVars>>
  PROVE  IInv'
<1>1. WorkerInv' /\ RoundInv' /\ SensorInv' /\ PromptInv'
  BY KeepsIInv DEF pollVars, monVars, config
<1>2. PowerInv' /\ OnePollerPerPDU'
  BY KeepsPower, KeepsOne DEF IInv, Keeps, config
<1>3. PolledOnce' /\ ScanInv' /\ TypeOK'
  BY WorkFrame DEF IInv, TypeOK, stateVars, pollVars, Keeps
<1> QED
  BY <1>1, <1>2, <1>3 DEF IInv

LEMMA PassSteps ==
  ASSUME IInv, NEW w \in Workers,
         \/ NextUrl(w) \/ HttpAnswer(w) \/ HttpUseless(w) \/ HttpError(w)
         \/ ParseOutlet(w)
  PROVE  IInv'
<1>1. /\ worker[w] \in Worker /\ worker[w].pc \notin {"idle", "gate", "queue"}
      /\ worker[w].ep \in Endpoints
  BY DEF NextUrl, HttpAnswer, HttpUseless, HttpError, ParseOutlet, IInv, TypeOK,
         WorkerInv, Worker
<1>2. UNCHANGED <<config, reported, smaUp, outlet, HSMEndpoints, monVars,
                  pollVars, smaOK, stateVars>>
  BY DEF NextUrl, HttpAnswer, HttpUseless, HttpError, ParseOutlet, envVars
<1>3. nfaults' \in 0 .. MaxFaults
  <2>1. nfaults' = nfaults \/ Fault("poll") \/ Fault("useless")
    BY DEF NextUrl, HttpAnswer, HttpUseless, HttpError, ParseOutlet, envVars
  <2> QED
    BY <2>1, Bounds DEF Fault, IInv, TypeOK
<1>4. CASE NextUrl(w)
  <2>1. recent' = recent
    BY <1>4 DEF NextUrl
  <2>2. Keeps(w) /\ worker'[w].pc \notin {"store", "queue"}
    BY <1>1, <1>4, <2>1, NextUrlFacts, WorkerTypes DEF IInv, Keeps
  <2> QED
    BY <1>1, <1>2, <1>3, <2>1, <2>2, PassIInv DEF IInv, TypeOK
<1>5. CASE HttpAnswer(w)
  <2>1. recent' = [recent EXCEPT ![worker[w].ep] = TRUE] /\ worker[w].pc = "http"
    BY <1>5 DEF HttpAnswer
  <2>2. /\ recent' \in [Endpoints -> BOOLEAN] /\ recent'[worker[w].ep]
        /\ \A e \in Endpoints : recent[e] => recent'[e]
    BY <1>1, <2>1 DEF IInv, TypeOK
  <2>3. Keeps(w) /\ worker'[w].pc \notin {"store", "queue"}
    BY <1>1, <1>5, <2>1, <2>2, HttpAnswerFacts DEF IInv, Keeps
  <2> QED
    BY <1>1, <1>2, <1>3, <2>2, <2>3, PassIInv
<1>6. CASE HttpError(w)
  <2>1. recent' = recent /\ Goto(w, [worker[w] EXCEPT !.pc = "next"])
    BY <1>6 DEF HttpError
  <2>2. Keeps(w) /\ worker'[w].pc \notin {"store", "queue"}
    BY <1>1, <2>1, MoveFacts DEF IInv, Keeps
  <2> QED
    BY <1>1, <1>2, <1>3, <2>1, <2>2, PassIInv DEF IInv, TypeOK
<1>7. CASE ParseOutlet(w)
  <2> DEFINE p == IF lastPowerState[worker[w].url] = worker[w].got
                  THEN "next" ELSE "store"
  <2>1. /\ recent' = recent /\ Goto(w, [worker[w] EXCEPT !.pc = p])
        /\ worker[w].pc = "parse"
    BY <1>7 DEF ParseOutlet
  <2>2. /\ p \in {"next", "store"}
        /\ p = "store" => worker[w].got # lastPowerState[worker[w].url]
    OBVIOUS
  <2>3. worker[w].url \in Outlets
    BY <2>1 DEF IInv, SensorInv
  <2> HIDE DEF p
  <2>4. /\ worker' \in [Workers -> Worker]
        /\ \A v \in Workers : v # w => worker'[v] = worker[v]
        /\ worker'[w].pc = p
        /\ worker'[w].ep = worker[w].ep /\ worker'[w].url = worker[w].url
        /\ worker'[w].urls = worker[w].urls
        /\ worker'[w].got = worker[w].got
        /\ worker'[w].heard = worker[w].heard
    BY <2>1, <2>2, MoveFacts DEF IInv
  <2>5. Keeps(w)
    BY <1>1, <2>1, <2>2, <2>3, <2>4 DEF Keeps
  <2> QED
    BY <1>1, <1>2, <1>3, <2>1, <2>2, <2>4, <2>5, PassIInv DEF IInv, TypeOK
<1>8. CASE HttpUseless(w)
  <2>1. recent' = [recent EXCEPT ![worker[w].ep] = TRUE]
    BY <1>8 DEF HttpUseless
  <2>2. /\ recent' \in [Endpoints -> BOOLEAN] /\ recent'[worker[w].ep]
        /\ \A e \in Endpoints : recent[e] => recent'[e]
    BY <1>1, <2>1 DEF IInv, TypeOK
  <2>3. Keeps(w) /\ worker'[w].pc \notin {"store", "queue"}
    BY <1>1, <1>8, <2>1, <2>2, HttpUselessFacts DEF IInv, Keeps
  <2> QED
    BY <1>1, <1>2, <1>3, <2>2, <2>3, PassIInv
<1> QED
  BY <1>4, <1>5, <1>6, <1>7, <1>8

\* Two workers that are about to store or queue the state of one outlet would
\* poll the PDU it belongs to together.
LEMMA OneStore ==
  ASSUME IInv, prompt, NEW v \in Workers, NEW w \in Workers,
         worker[v].pc \in {"store", "queue"}, worker[w].pc \in {"store", "queue"},
         worker[v].url = worker[w].url
  PROVE  v = w
<1> DEFINE u == worker[w].url e == worker[w].ep
<1>1. /\ worker[v] \in Worker /\ worker[w] \in Worker
      /\ worker[v].ep \in Endpoints /\ e \in Endpoints
  BY DEF IInv, TypeOK, WorkerInv, Worker
<1>2. u \in Outlets /\ u \in SensorsOf(e) /\ u \in SensorsOf(worker[v].ep)
  <2>1. u \in Outlets /\ u \in Own(e) \cup NodeUrls
        /\ u \in Own(worker[v].ep) \cup NodeUrls
    BY DEF IInv, SensorInv
  <2> QED
    BY <1>1, <2>1, PollingAssumption DEF Own
<1>3. worker[v].ep = e /\ e \in PDUs
  BY <1>1, <1>2, PollingAssumption
<1> QED
  BY <1>3 DEF IInv, OnePollerPerPDU, Busy

\* The last two steps of an outlet that has changed move the worker, and one
\* of the two records of its state.
LEMMA ReportIInv ==
  ASSUME IInv, NEW w \in Workers, NEW p \in {"next", "queue"},
         worker[w].pc \in {"store", "queue"},
         Goto(w, [worker[w] EXCEPT !.pc = p]), PowerInv',
         lastPowerState' \in [Outlets -> PowerState],
         lastEvent' \in [Outlets -> PowerState],
         UNCHANGED <<envVars, HSMEndpoints, monVars, pollVars, recent, smaOK>>
  PROVE  IInv'
<1>1. worker[w] \in Worker /\ worker[w].ep \in Endpoints /\ worker[w].url \in Outlets
  BY DEF IInv, TypeOK, WorkerInv, Worker, SensorInv
<1>2. Keeps(w)
  BY <1>1, MoveFacts DEF IInv, Keeps
<1>3. WorkerInv' /\ RoundInv' /\ SensorInv' /\ PromptInv'
  BY <1>2, KeepsIInv DEF pollVars, monVars, envVars, config
<1>4. OnePollerPerPDU'
  BY <1>2, KeepsOne DEF envVars, config
<1>5. PolledOnce' /\ ScanInv' /\ TypeOK'
  BY <1>2, WorkFrame DEF IInv, TypeOK, envVars, pollVars, Keeps
<1> QED
  BY <1>3, <1>4, <1>5 DEF IInv

LEMMA StoreIInv == ASSUME IInv, NEW w \in Workers, StoreOutlet(w) PROVE IInv'
<1> DEFINE u == worker[w].url
<1>1. /\ worker[w].pc = "store" /\ worker[w] \in Worker
      /\ Goto(w, [worker[w] EXCEPT !.pc = "queue"])
      /\ lastPowerState' = [lastPowerState EXCEPT ![u] = worker[w].got]
      /\ lastEvent' = lastEvent
      /\ UNCHANGED <<envVars, HSMEndpoints, monVars, pollVars, recent, smaOK>>
  BY DEF StoreOutlet, IInv, TypeOK
<1>2. worker[w].got \in PowerState /\ u \in Outlets
  BY <1>1 DEF IInv, SensorInv, Worker
<1>3. /\ worker'[w].pc = "queue" /\ worker'[w].url = u
      /\ worker'[w].got = worker[w].got
      /\ \A v \in Workers : v # w => worker'[v] = worker[v]
  BY <1>1, MoveFacts DEF IInv
<1>4. /\ lastPowerState' \in [Outlets -> PowerState]
      /\ lastPowerState'[u] = worker[w].got
      /\ \A x \in Outlets : x # u => lastPowerState'[x] = lastPowerState[x]
  BY <1>1, <1>2 DEF IInv, TypeOK
<1>5. PowerInv'
  <2> SUFFICES ASSUME prompt
               PROVE  /\ \A v \in Workers : worker'[v].pc = "store" =>
                           worker'[v].got # lastPowerState'[worker'[v].url]
                      /\ \A v \in Workers : worker'[v].pc = "queue" =>
                           /\ worker'[v].got = lastPowerState'[worker'[v].url]
                           /\ worker'[v].got # lastEvent[worker'[v].url]
                      /\ \A x \in Outlets : lastEvent[x] # lastPowerState'[x] =>
                           \E v \in Workers :
                             worker'[v].pc = "queue" /\ worker'[v].url = x
    BY <1>1 DEF PowerInv, envVars, config
  <2>1. \A v \in Workers :
          (v # w /\ worker[v].pc \in {"store", "queue"}) =>
            worker[v].url \in Outlets /\ worker[v].url # u
    BY <1>1, OneStore DEF IInv, SensorInv
  <2>2. worker[w].got # lastEvent[u]
    <3>1. lastEvent[u] = lastPowerState[u]
      BY <1>1, <1>2, <2>1 DEF IInv, PowerInv
    <3> QED
      BY <1>1, <3>1 DEF IInv, PowerInv
  <2>3. \A v \in Workers : worker'[v].pc = "store" =>
          worker'[v].got # lastPowerState'[worker'[v].url]
    BY <1>3, <1>4, <2>1 DEF IInv, PowerInv
  <2>4. \A v \in Workers : worker'[v].pc = "queue" =>
          /\ worker'[v].got = lastPowerState'[worker'[v].url]
          /\ worker'[v].got # lastEvent[worker'[v].url]
    BY <1>3, <1>4, <2>1, <2>2 DEF IInv, PowerInv
  <2>5. ASSUME NEW x \in Outlets, lastEvent[x] # lastPowerState'[x]
        PROVE  \E v \in Workers : worker'[v].pc = "queue" /\ worker'[v].url = x
    <3>1. CASE x = u
      BY <1>3, <3>1
    <3>2. CASE x # u
      <4>1. PICK v \in Workers : worker[v].pc = "queue" /\ worker[v].url = x
        BY <1>4, <2>5, <3>2 DEF IInv, PowerInv
      <4> QED
        BY <1>1, <1>3, <4>1
    <3> QED
      BY <3>1, <3>2
  <2> QED
    BY <2>3, <2>4, <2>5
<1>6. lastEvent' \in [Outlets -> PowerState]
  BY <1>1 DEF IInv, TypeOK
<1> QED
  BY <1>1, <1>4, <1>5, <1>6, ReportIInv

LEMMA QueueIInv == ASSUME IInv, NEW w \in Workers, QueueEvent(w) PROVE IInv'
<1> DEFINE u == worker[w].url
<1>1. /\ worker[w].pc = "queue" /\ worker[w] \in Worker
      /\ Goto(w, [worker[w] EXCEPT !.pc = "next"])
      /\ lastEvent' = [lastEvent EXCEPT ![u] = worker[w].got]
      /\ lastPowerState' = lastPowerState
      /\ UNCHANGED <<envVars, HSMEndpoints, monVars, pollVars, recent, smaOK>>
  BY DEF QueueEvent, IInv, TypeOK
<1>2. worker[w].got \in PowerState /\ u \in Outlets
  BY <1>1 DEF IInv, SensorInv, Worker
<1>3. /\ worker'[w].pc = "next"
      /\ \A v \in Workers : v # w => worker'[v] = worker[v]
  BY <1>1, MoveFacts DEF IInv
<1>4. /\ lastEvent' \in [Outlets -> PowerState]
      /\ lastEvent'[u] = worker[w].got
      /\ \A x \in Outlets : x # u => lastEvent'[x] = lastEvent[x]
  BY <1>1, <1>2 DEF IInv, TypeOK
<1>5. PowerInv'
  <2> SUFFICES ASSUME prompt
               PROVE  /\ \A v \in Workers : worker'[v].pc = "store" =>
                           worker'[v].got # lastPowerState[worker'[v].url]
                      /\ \A v \in Workers : worker'[v].pc = "queue" =>
                           /\ worker'[v].got = lastPowerState[worker'[v].url]
                           /\ worker'[v].got # lastEvent'[worker'[v].url]
                      /\ \A x \in Outlets : lastEvent'[x] # lastPowerState[x] =>
                           \E v \in Workers :
                             worker'[v].pc = "queue" /\ worker'[v].url = x
    BY <1>1 DEF PowerInv, envVars, config
  <2>1. \A v \in Workers :
          (v # w /\ worker[v].pc \in {"store", "queue"}) =>
            worker[v].url \in Outlets /\ worker[v].url # u
    BY <1>1, OneStore DEF IInv, SensorInv
  <2>2. \A v \in Workers : worker'[v].pc = "store" =>
          worker'[v].got # lastPowerState[worker'[v].url]
    BY <1>3 DEF IInv, PowerInv
  <2>3. \A v \in Workers : worker'[v].pc = "queue" =>
          /\ worker'[v].got = lastPowerState[worker'[v].url]
          /\ worker'[v].got # lastEvent'[worker'[v].url]
    BY <1>3, <1>4, <2>1 DEF IInv, PowerInv
  <2>4. ASSUME NEW x \in Outlets, lastEvent'[x] # lastPowerState[x]
        PROVE  \E v \in Workers : worker'[v].pc = "queue" /\ worker'[v].url = x
    <3>1. x # u
      BY <1>1, <1>4, <2>4 DEF IInv, PowerInv
    <3>2. PICK v \in Workers : worker[v].pc = "queue" /\ worker[v].url = x
      BY <1>4, <2>4, <3>1 DEF IInv, PowerInv
    <3> QED
      BY <1>3, <3>1, <3>2
  <2> QED
    BY <2>2, <2>3, <2>4
<1>6. lastPowerState' \in [Outlets -> PowerState]
  BY <1>1 DEF IInv, TypeOK
<1> QED
  BY <1>1, <1>4, <1>5, <1>6, ReportIInv

(***************************************************************************)
(* The theorems.                                                           *)
(***************************************************************************)
LEMMA InitIInv == Init => IInv
<1> SUFFICES ASSUME Init PROVE IInv
  OBVIOUS
<1>1. TypeOK
  <2>1. prompt \in BOOLEAN /\ monitored \in BOOLEAN
    BY PollingAssumption DEF Init
  <2>2. /\ reported \subseteq Endpoints /\ HSMEndpoints \subseteq Endpoints
        /\ monitor \in {"scan", "sleep"} /\ toScan \subseteq Endpoints
        /\ poller \in {"send", "sleep"}
    BY DEF Init
  <2>3. /\ prober \in [Probers -> Prober] /\ worker \in [Workers -> Worker]
        /\ recent \in [Endpoints -> BOOLEAN]
        /\ smaOK \in BOOLEAN /\ smaUp \in BOOLEAN
    BY ProbeTypes, WorkerTypes DEF Init
  <2>4. /\ endpoints \in Seq(Entry) /\ nonPolled \in Seq(Endpoints)
        /\ round \in Seq(Entry)
    <3>1. endpoints = <<>> /\ nonPolled = <<>> /\ round = <<>>
      BY DEF Init
    <3> QED
      BY <3>1
  <2>5. /\ outlet \in [Outlets -> {"On", "Off"}]
        /\ lastPowerState \in [Outlets -> PowerState]
        /\ lastEvent \in [Outlets -> PowerState]
    BY DEF Init, PowerState
  <2>6. nfaults \in 0 .. MaxFaults
    <3>1. nfaults = 0
      BY DEF Init
    <3> QED
      BY <3>1, Bounds
  <2> QED
    BY <2>1, <2>2, <2>3, <2>4, <2>5, <2>6 DEF TypeOK
<1>2. /\ DOMAIN endpoints = {} /\ DOMAIN nonPolled = {} /\ DOMAIN round = {}
      /\ Polled = {} /\ Ignored = {} /\ toScan = {}
  <2>1. endpoints = <<>> /\ nonPolled = <<>> /\ round = <<>> /\ toScan = {}
    BY DEF Init
  <2> QED
    BY <2>1 DEF Polled, Ignored, Range
<1>3. PolledOnce
  BY <1>2 DEF PolledOnce, IsInjective
<1>4. \A g \in Probers : /\ prober[g].ep = NoEndpoint /\ prober[g].left = <<>>
                         /\ prober[g].sensors = {}
  BY DEF Init, IdleProber
<1>5. \A w \in Workers : /\ worker[w].ep = NoEndpoint /\ worker[w].pc = "idle"
                         /\ worker[w].urls = {} /\ ~worker[w].heard
  BY WorkerTypes DEF Init
<1>6. ScanInv /\ SensorInv
  BY <1>2, <1>4, <1>5 DEF ScanInv, SensorInv
<1>7. WorkerInv /\ RoundInv /\ PromptInv /\ OnePollerPerPDU
  BY <1>2, <1>5, Bounds
     DEF WorkerInv, RoundInv, PromptInv, OnePollerPerPDU, Unheard, Busy
<1>8. PowerInv
  <2>1. lastEvent = lastPowerState
    BY DEF Init
  <2> QED
    BY <1>5, <2>1 DEF PowerInv
<1> QED
  BY <1>1, <1>3, <1>6, <1>7, <1>8 DEF IInv

LEMMA NextIInv == IInv /\ [Next]_vars => IInv'
<1> SUFFICES ASSUME IInv, [Next]_vars PROVE IInv'
  OBVIOUS
<1>1. CASE EnvStep
  BY <1>1, EnvIInv
<1>2. CASE MonitorStep
  BY <1>2, MonitorIInv
<1>3. ASSUME NEW g \in Probers,
             ProberStep(g) \/ ProbeFails(g) \/ ProbeGarbled(g)
      PROVE  IInv'
  BY <1>3, ProberIInv
<1>4. CASE PollRound
  BY <1>4, PollRoundIInv
<1>5. ASSUME NEW w \in Workers, PollSend(w) PROVE IInv'
  BY <1>5, PollSendIInv
<1>6. ASSUME NEW w \in Workers, WorkerStep(w) \/ HttpUseless(w) \/ HttpError(w)
      PROVE  IInv'
  BY <1>6, GateIInv, PassSteps, StoreIInv, QueueIInv DEF WorkerStep
<1>7. ASSUME NEW e \in Endpoints, Age(e) PROVE IInv'
  BY <1>7, AgeIInv
<1>8. CASE UNCHANGED vars
  <2>1. PolledOnce' /\ ScanInv' /\ SensorInv' /\ PollInv'
    BY <1>8, ListFrame, SensorFrame, PollFrame
       DEF IInv, PollInv, vars, monVars, pollVars, envVars, config
  <2>2. TypeOK'
    BY <1>8 DEF IInv, TypeOK, vars, envVars, config, monVars, pollVars, stateVars
  <2> QED
    BY <2>1, <2>2 DEF IInv, PollInv
<1> QED
  BY <1>1, <1>2, <1>3, <1>4, <1>5, <1>6, <1>7, <1>8 DEF Next, PollerStep, EnvStep

\* Scans, classifications, rounds and polls, in every interleaving and with
\* every fault, keep the lists, the snapshots and the LastContacted times
\* consistent with each other (polling.go 59-155, 160-476).
THEOREM Invariant == Spec => []IInv
BY InitIInv, NextIInv, PTL DEF Spec

\* The monitor, the probers, the poller and the workers keep their state well
\* formed (polling.go).
THEOREM TypeCorrect == Spec => []TypeOK
<1>1. IInv => TypeOK
  BY DEF IInv
<1> QED
  BY Invariant, <1>1, PTL

\* No endpoint is polled twice, ignored twice, or both, however many scans
\* run and however their goroutines interleave (polling.go 175-200, 436).
THEOREM PolledAtMostOnce == Spec => []PolledOnce
<1>1. IInv => PolledOnce
  BY DEF IInv
<1> QED
  BY Invariant, <1>1, PTL

\* The check of LastContacted keeps a second worker away from a PDU that
\* answers promptly (polling.go 71-76, 99).
THEOREM PromptPDUHasOnePoller == Spec => []OnePollerPerPDU
<1>1. IInv => OnePollerPerPDU
  BY DEF IInv
<1> QED
  BY Invariant, <1>1, PTL

\* Of a prompt PDU an event is only queued when the power state of the outlet
\* is not the one of the event before, although the sensor map is read, written
\* and left for the channel in separate steps (hpepdu.go 163-187, polling.go
\* 110-149).
THEOREM EventsTellOfChanges == Spec => NoRepeat
<1> DEFINE A == prompt =>
              \A w \in Workers, u \in Outlets :
                (worker[w].pc = "queue" /\ worker[w].url = u
                   /\ worker'[w].pc # "queue") => lastEvent'[u] # lastEvent[u]
<1>1. IInv /\ [Next]_vars => [A]_vars
  <2> SUFFICES ASSUME IInv, Next, prompt, NEW w \in Workers, NEW u \in Outlets,
                      worker[w].pc = "queue", worker[w].url = u,
                      worker'[w].pc # "queue"
               PROVE  lastEvent'[u] # lastEvent[u]
    OBVIOUS
  <2>1. QueueEvent(w)
    <3>1. worker'[w] # worker[w]
      OBVIOUS
    <3>2. ASSUME NEW v \in Workers, v # w,
                 PollSend(v) \/ WorkerStep(v) \/ HttpUseless(v) \/ HttpError(v)
          PROVE  FALSE
      <4>1. \A f : Goto(v, f) => worker'[w] = worker[w]
        BY <3>2 DEF Goto, IInv, TypeOK
      <4> QED
        BY <3>1, <3>2, <4>1 DEF PollSend, WorkerStep, Gate, NextUrl, HttpAnswer,
             ParseOutlet, StoreOutlet, QueueEvent, HttpUseless, HttpError
    <3>3. ~PollSend(w) /\ ~HttpUseless(w) /\ ~HttpError(w)
          /\ (WorkerStep(w) => QueueEvent(w))
      BY DEF PollSend, WorkerStep, Gate, NextUrl, HttpAnswer, ParseOutlet,
             StoreOutlet, HttpUseless, HttpError
    <3>4. \/ worker' = worker
          \/ \E v \in Workers : PollSend(v) \/ WorkerStep(v) \/ HttpUseless(v) \/ HttpError(v)
      BY DEF Next, UpdateHSMEndpoints, MonitorStep, ScanStart, ScanEnd, ScanKnown,
             ScanNew, ProberStep, ProbeAnswered, Classify, ProbeFails,
             ProbeGarbled, PollerStep, PollRound, PollSleep, monitorSMA, Age,
             Arrive, Leave, SmaChange, OutletChange
    <3> QED
      BY <3>1, <3>2, <3>3, <3>4
  <2>2. lastEvent' = [lastEvent EXCEPT ![u] = worker[w].got]
    BY <2>1 DEF QueueEvent
  <2> QED
    BY <2>2 DEF IInv, TypeOK, PowerInv
<1> QED
  BY Invariant, <1>1, PTL DEF Spec, NoRepeat
=============================================================================
