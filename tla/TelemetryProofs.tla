---------------------------- MODULE TelemetryProofs ----------------------------
(***************************************************************************)
(* Proofs about module Telemetry: its types and the bound of the channel;  *)
(* that every reading of every payload, whatever its vendor and its size,  *)
(* gets to every broker that wants it exactly once, on its topic, and      *)
(* every change of an outlet's power state with it; that a message gets    *)
(* where it belongs exactly once, whichever of the processData goroutines  *)
(* takes it; and how far messages can overtake each other.                 *)
(***************************************************************************)
EXTENDS CollectorProofs

(***************************************************************************)
(* The inductive invariant.                                                *)
(***************************************************************************)
\* A worker's record has its five fields; its events are of any form.
IsPoll(r) ==
  /\ r \in [type : 0 .. 2, urls : SUBSET AllUrls, events : {r.events},
            next : Nat \ {0}, answer : Nat]
  /\ IsSequence(r.events) /\ r.next <= Len(r.events) + 1

PollInv ==
  /\ fleet \in Fleets
  /\ poll = [e \in Endpoints |-> poll[e]]
  /\ \A e \in Endpoints : IsPoll(poll[e])
  /\ npolls \in [Endpoints -> Nat]
  /\ \A e \in Endpoints : npolls[e] <= MaxPolls[fleet[e]]

\* A worker asks for one telemetry type, and sends the events of the last
\* answer it got.
WorkInv ==
  \A e \in Endpoints :
    /\ IF poll[e].type = 0 THEN poll[e] = IdlePoll
       ELSE poll[e].urls \subseteq Urls[fleet[e]][TelemetryTypes[poll[e].type]]
    /\ \/ poll[e].answer = 0 /\ poll[e].events = <<>>
       \/ /\ poll[e].answer \in DOMAIN answers
          /\ answers[poll[e].answer].ep = e
          /\ poll[e].events = answers[poll[e].answer].events

\* StateBefore, of a sequence of answers.
IsOf(a, e, o) ==
  /\ a.ep = e /\ a.payload # Undecodable
  /\ a.payload.Name = "Outlet" /\ a.payload.Oid = o
Seen(s, e, o, k) == {j \in 1 .. k - 1 : IsOf(s[j], e, o)}
StateIn(s, e, o, k) ==
  IF Seen(s, e, o, k) = {} THEN "" ELSE s[Max(Seen(s, e, o, k))].payload.PowerState

\* The Sensors map of a collector before the k-th answer: what was last seen
\* of every outlet.
SensorsBefore(v, s, e, k) ==
  [o \in IF v = "hpepdu" THEN Urls["hpepdu"]["Power"] ELSE {} |-> StateIn(s, e, o, k)]

RememberInv ==
  ~panicked =>
    lastPowerState =
      [e \in Endpoints |-> SensorsBefore(fleet[e], answers, e, Len(answers) + 1)]

\* The form of an answer,...
IsAnswer(a) ==
  /\ a.ep \in Endpoints /\ a.type \in TelemetryType
  /\ a.url \in Urls[fleet[a.ep]][a.type] /\ a.payload \in Payloads[fleet[a.ep]][a.url]
  /\ a.poll \in Nat /\ a.poll <= npolls[a.ep]

\* ...and what was made of it: the events its collector makes after what it
\* has seen before, or a panic.
IsHandled(k) ==
  LET a == answers[k] IN
  \/ a.events \in GetEventsForPayload(fleet[a.ep], a.type, a.payload,
                                      SensorsBefore(fleet[a.ep], answers, a.ep, k))
  \/ panicked /\ ~WellFormed(a) /\ a.events = <<>>

AnswersInv ==
  /\ IsSequence(answers)
  /\ \A k \in DOMAIN answers : IsAnswer(answers[k]) /\ IsHandled(k)
  /\ panicked => \E k \in DOMAIN answers : ~WellFormed(answers[k])

\* A poll asks every URL once.
OnceInv ==
  /\ \A k, l \in DOMAIN answers :
       (SamePoll(answers[k], answers[l]) /\ answers[k].type = answers[l].type
          /\ answers[k].url = answers[l].url) => k = l
  /\ \A k \in DOMAIN answers :
       LET a == answers[k] w == poll[a.ep] IN
       (~panicked /\ a.poll = npolls[a.ep] /\ w.type # 0) =>
         /\ a.type = TelemetryTypes[w.type] => a.url \notin w.urls
         /\ w.type = 1 => a.type = TelemetryTypes[1]

\* What is on the channel is an event of an answer, on its topic, and no
\* other message is the same one.
SentInv ==
  /\ \A n \in DOMAIN sent : LET m == sent[n] IN
       /\ m.answer \in DOMAIN answers /\ m.at \in DOMAIN answers[m.answer].events
       /\ m.ev = answers[m.answer].events[m.at]
       /\ m.topic = PollTopic(m.ev.id) /\ m.topic # NoTopic
  /\ \A n, l \in DOMAIN sent :
       sent[n].answer = sent[l].answer /\ sent[n].at = sent[l].at => n = l

\* What has been made of an answer is sent, or has no topic, or is yet to be
\* sent.
IsSent(k, j) == \E n \in DOMAIN sent : sent[n].answer = k /\ sent[n].at = j
Waits(k, j) == \E e \in Endpoints : poll[e].answer = k /\ poll[e].next <= j
ProgressInv ==
  \A k \in DOMAIN answers : \A j \in DOMAIN answers[k].events :
    /\ \/ PollTopic(answers[k].events[j].id) = NoTopic
       \/ IsSent(k, j) \/ Waits(k, j)
    /\ ~(IsSent(k, j) /\ Waits(k, j))

CollectInv ==
  /\ PollInv /\ WorkInv /\ RememberInv /\ AnswersInv /\ OnceInv /\ SentInv
  /\ ProgressInv

\* What is on the channel fits it.
ChannelInv ==
  /\ IsSequence(sent) /\ taken \in 0 .. Len(sent) /\ Len(sent) - taken <= Capacity
  /\ panicked \in BOOLEAN /\ nfaults \in 0 .. MaxFaults

\* A goroutine holds a message of its own, or none and starts from the first
\* broker.
HoldInv ==
  /\ proc \in [Processors -> [msg : Nat, broker : Brokers]]
  /\ \A p \in Processors : proc[p].msg <= taken
  /\ \A p \in Processors : proc[p].msg = 0 => proc[p].broker = 1
  /\ \A p, q \in Processors : proc[p].msg = proc[q].msg /\ proc[p].msg # 0 => p = q

LogInv ==
  /\ log = [b \in Brokers |-> log[b]] /\ refused \in [Brokers -> SUBSET Nat]
  /\ \A b \in Brokers : DOMAIN log[b] \cup refused[b] \subseteq 1 .. taken

\* A message on its way round the brokers has not reached those ahead...
AheadInv ==
  \A p \in Processors, b \in Brokers :
    (proc[p].msg # 0 /\ proc[p].broker <= b) =>
      proc[p].msg \notin DOMAIN log[b] \cup refused[b]

\* ...and every other has been dealt with, once, at each.
PlaceInv ==
  \A b \in Brokers : \A n \in 1 .. taken :
    /\ n \in DOMAIN log[b] \cup refused[b] => sent[n].topic \in Publishes[b]
    /\ \/ n \in DOMAIN log[b] \cup refused[b]
       \/ sent[n].topic \notin Publishes[b]
       \/ \E p \in Processors : proc[p].msg = n /\ proc[p].broker <= b
    /\ n \in refused[b] => n \notin DOMAIN log[b]
    /\ n \in DOMAIN log[b] => log[b][n] = 1

WriteInv == HoldInv /\ LogInv /\ AheadInv /\ PlaceInv
IInv == CollectInv /\ ChannelInv /\ WriteInv

(***************************************************************************)
(* Lemmas about the operators.                                             *)
(***************************************************************************)
LEMMA BrokerNumbers == /\ NBrokers \in Nat \ {0} /\ 1 \in Brokers
                       /\ \A b \in Brokers : b \in Nat /\ 1 <= b /\ b <= NBrokers
BY TelemetryAssumption DEF Brokers

LEMMA Limits == MaxFaults \in Nat /\ Capacity \in Nat \ {0} /\ IsFiniteSet(Processors)
BY TelemetryAssumption

LEMMA Types == /\ Len(TelemetryTypes) = 2
               /\ \A t \in 1 .. 2 : TelemetryTypes[t] \in TelemetryType
BY DEF TelemetryTypes, TelemetryType

\* A sequence with one element more.
Longer(r, s, m) ==
  /\ IsSequence(r) /\ Len(r) = Len(s) + 1 /\ Len(s) \in Nat
  /\ DOMAIN s = 1 .. Len(s) /\ DOMAIN r = 1 .. Len(s) + 1
  /\ r[Len(s) + 1] = m /\ Len(s) + 1 \notin DOMAIN s
  /\ \A i \in DOMAIN r : i \in DOMAIN s \/ i = Len(s) + 1
  /\ \A i \in DOMAIN s : i \in DOMAIN r /\ r[i] = s[i]

\* An element more leaves those before it where they are.
LEMMA OneMore ==
  ASSUME NEW s, IsSequence(s), NEW m
  PROVE  Longer(Append(s, m), s, m)
<1> DEFINE S == {s[i] : i \in DOMAIN s}
           T == S \cup {m}
<1>1. s \in Seq(S)
  BY DEF IsSequence
<1>2. s \in Seq(T) /\ Len(s) \in Nat /\ DOMAIN s = 1 .. Len(s)
  BY <1>1
<1> DEFINE a == Append(s, m)
<1>3. /\ Len(a) = Len(s) + 1 /\ a \in Seq(T) /\ DOMAIN a = 1 .. Len(s) + 1
      /\ \A i \in 1 .. Len(s) : a[i] = s[i]
      /\ a[Len(s) + 1] = m
  BY <1>2
<1>4. a \in Seq({a[i] : i \in DOMAIN a})
  <2>1. \A i \in 1 .. Len(a) : a[i] \in {a[j] : j \in DOMAIN a}
    BY <1>2, <1>3
  <2> HIDE DEF a
  <2>2. a = [i \in 1 .. Len(a) |-> a[i]] /\ Len(a) \in Nat
    BY <1>2, <1>3
  <2> QED BY <2>1, <2>2
<1> HIDE DEF a
<1> QED BY <1>2, <1>3, <1>4 DEF IsSequence, Longer, a

\* The number of messages on the channel.
LEMMA OnChannel ==
  ASSUME ChannelInv
  PROVE  /\ taken \in Nat /\ Len(sent) \in Nat /\ taken <= Len(sent)
         /\ Cardinality(InFlight) = Len(sent) - taken
         /\ InFlight # {} => taken < Len(sent)
<1>1. Len(sent) \in Nat
  BY DEF ChannelInv, IsSequence
<1>2. taken \in Nat /\ taken <= Len(sent)
  BY <1>1 DEF ChannelInv
<1>3. CASE taken = Len(sent)
  <2>1. \A i \in Int : ~(taken + 1 <= i /\ i <= Len(sent))
    BY <1>1, <1>2, <1>3
  <2>2. InFlight = {}
    BY <1>1, <1>2, <2>1 DEF InFlight
  <2> QED BY <1>1, <1>2, <1>3, <2>2, FS_EmptySet
<1>4. CASE taken < Len(sent)
  <2> DEFINE x == taken + 1
             y == Len(sent)
  <2>0. x \in Int /\ y \in Int /\ x <= y
    BY <1>1, <1>2, <1>4
  <2> HIDE DEF x, y
  <2>2. Cardinality(x .. y) = y - x + 1
    BY <2>0, FS_Interval
  <2>1. Cardinality(InFlight) = Len(sent) - (taken + 1) + 1
    BY <2>2 DEF InFlight, x, y
  <2> QED BY <1>1, <1>2, <1>4, <2>1
<1> QED BY <1>1, <1>2, <1>3, <1>4

(***************************************************************************)
(* What the collectors remember of the outlets.                            *)
(***************************************************************************)
\* StateBefore of the answers so far.
LEMMA StateBeforeIs ==
  ASSUME NEW e, NEW o, NEW k
  PROVE  StateBefore(e, o, k) = StateIn(answers, e, o, k)
<1> DEFINE B == {j \in 1 .. k - 1 :
                   /\ answers[j].ep = e /\ answers[j].payload # Undecodable
                   /\ answers[j].payload.Name = "Outlet"
                   /\ answers[j].payload.Oid = o}
<1>1. B = Seen(answers, e, o, k)
  BY DEF Seen, IsOf
<1>2. StateBefore(e, o, k) = IF B = {} THEN "" ELSE answers[Max(B)].payload.PowerState
  BY DEF StateBefore
<1> HIDE DEF B
<1> QED BY <1>1, <1>2 DEF StateIn

\* The last answer about an outlet is one of those seen.
LEMMA LastSeen ==
  ASSUME NEW s, NEW e, NEW o, NEW k \in Nat \ {0}, Seen(s, e, o, k) # {}
  PROVE  /\ Max(Seen(s, e, o, k)) \in Seen(s, e, o, k)
         /\ Max(Seen(s, e, o, k)) \in 1 .. k - 1
         /\ \A j \in Seen(s, e, o, k) : j <= Max(Seen(s, e, o, k))
<1> DEFINE T == Seen(s, e, o, k)
<1>1. T \in SUBSET (0 .. k - 1) /\ T \subseteq 1 .. k - 1 /\ k - 1 \in Nat
  BY DEF Seen
<1> HIDE DEF T
<1>2. Max(T) \in T /\ \A j \in T : j <= Max(T)
  BY <1>1, Greatest DEF T
<1> QED BY <1>1, <1>2 DEF T

\* A further answer changes nothing about what was seen before it.
LEMMA SeenStays ==
  ASSUME NEW s, NEW r, NEW a, Longer(r, s, a), NEW e, NEW o, NEW k \in 1 .. Len(s) + 1
  PROVE  StateIn(r, e, o, k) = StateIn(s, e, o, k)
<1>1. /\ Len(s) \in Nat /\ k \in Nat \ {0}
      /\ \A j \in 1 .. k - 1 : r[j] = s[j]
  BY DEF Longer
<1>2. Seen(r, e, o, k) = Seen(s, e, o, k)
  BY <1>1 DEF Seen
<1>3. Seen(s, e, o, k) # {} => Max(Seen(s, e, o, k)) \in 1 .. k - 1
  BY <1>1, LastSeen
<1> QED BY <1>1, <1>2, <1>3 DEF StateIn

\* What was seen last after it, is what it says if it is about the outlet.
LEMMA SeenNow ==
  ASSUME NEW s, NEW r, NEW a, Longer(r, s, a), NEW e, NEW o
  PROVE  StateIn(r, e, o, Len(s) + 2) =
           IF IsOf(a, e, o) THEN a.payload.PowerState ELSE StateIn(s, e, o, Len(s) + 1)
<1> DEFINE n == Len(s)
           S == Seen(s, e, o, n + 1)
           R == Seen(r, e, o, n + 2)
<1>1. /\ n \in Nat /\ n + 1 \in Nat \ {0} /\ n + 2 \in Nat \ {0}
      /\ (n + 2) - 1 = n + 1 /\ (n + 1) - 1 = n
      /\ r[n + 1] = a /\ \A j \in 1 .. n : r[j] = s[j]
  BY DEF Longer
<1> HIDE DEF n
<1>2. R = S \cup (IF IsOf(a, e, o) THEN {n + 1} ELSE {})
  <2>1. \A j : j \in 1 .. n + 1 <=> j \in 1 .. n \/ j = n + 1
    BY <1>1
  <2>2. S = {j \in 1 .. n : IsOf(s[j], e, o)} /\ R = {j \in 1 .. n + 1 : IsOf(r[j], e, o)}
    BY <1>1 DEF Seen
  <2>3. \A j : j \in R <=> (j \in S \/ (j = n + 1 /\ IsOf(a, e, o)))
    BY <1>1, <2>1, <2>2
  <2> HIDE DEF R, S
  <2> QED BY <2>3
<1>3. StateIn(r, e, o, n + 2) = IF R = {} THEN "" ELSE r[Max(R)].payload.PowerState
  BY DEF StateIn
<1>4. StateIn(s, e, o, n + 1) = IF S = {} THEN "" ELSE s[Max(S)].payload.PowerState
  BY DEF StateIn
<1>5. S # {} => Max(S) \in 1 .. n
  BY <1>1, LastSeen
<1>6. R # {} => Max(R) \in 1 .. n + 1 /\ \A j \in R : j <= Max(R)
  BY <1>1, LastSeen
<1> HIDE DEF R, S
<1>7. CASE IsOf(a, e, o)
  <2>1. n + 1 \in R
    BY <1>2, <1>7
  <2>2. Max(R) = n + 1
    BY <2>1, <1>1, <1>6
  <2>3. StateIn(r, e, o, n + 2) = a.payload.PowerState
    BY <2>1, <2>2, <1>1, <1>3
  <2> QED BY <2>3, <1>7 DEF n
<1>8. CASE ~IsOf(a, e, o)
  <2>1. R = S
    BY <1>2, <1>8
  <2>3. S # {} => r[Max(S)] = s[Max(S)]
    BY <1>1, <1>5
  <2>2. StateIn(r, e, o, n + 2) = StateIn(s, e, o, n + 1)
    <3>1. CASE S = {}
      BY <2>1, <3>1, <1>3, <1>4
    <3>2. CASE S # {}
      <4>1. /\ StateIn(r, e, o, n + 2) = r[Max(S)].payload.PowerState
            /\ StateIn(s, e, o, n + 1) = s[Max(S)].payload.PowerState
        BY <2>1, <3>2, <1>3, <1>4
      <4> QED BY <2>3, <3>2, <4>1
    <3> QED BY <3>1, <3>2
  <2> QED BY <2>2, <1>8 DEF n
<1> QED BY <1>7, <1>8

\* A further answer changes nothing about the sensors before it.
LEMMA SensorsStay ==
  ASSUME NEW s, NEW r, NEW a, Longer(r, s, a), NEW v, NEW e, NEW k \in 1 .. Len(s) + 1
  PROVE  SensorsBefore(v, r, e, k) = SensorsBefore(v, s, e, k)
<1>1. \A o : StateIn(r, e, o, k) = StateIn(s, e, o, k)
  BY SeenStays
<1> QED BY <1>1 DEF SensorsBefore

\* Remember keeps up with the answers.
LEMMA Remembered ==
  ASSUME RememberInv, ~panicked, NEW e \in Endpoints, NEW p, NEW a, a.ep = e, a.payload = p,
         NEW r, Longer(r, answers, a)
  PROVE  Remember(e, p) =
           [x \in Endpoints |-> SensorsBefore(fleet[x], r, x, Len(r) + 1)]
<1> DEFINE n == Len(answers)
           Outlets(x) == IF fleet[x] = "hpepdu" THEN Urls["hpepdu"]["Power"] ELSE {}
<1>1. /\ n \in Nat /\ Len(r) + 1 = n + 2
      /\ lastPowerState = [x \in Endpoints |-> SensorsBefore(fleet[x], answers, x, n + 1)]
  BY DEF Longer, RememberInv
<1>2. \A x \in Endpoints :
        lastPowerState[x] = [o \in Outlets(x) |-> StateIn(answers, x, o, n + 1)]
  BY <1>1 DEF SensorsBefore
<1>3. \A x, o : StateIn(r, x, o, n + 2) =
                  IF IsOf(a, x, o) THEN p.PowerState ELSE StateIn(answers, x, o, n + 1)
  BY SeenNow
<1>4. \A x \in Endpoints :
        SensorsBefore(fleet[x], r, x, n + 2) = [o \in Outlets(x) |-> StateIn(r, x, o, n + 2)]
  BY DEF SensorsBefore
<1> HIDE DEF n
<1>5. \A x \in Endpoints : Remember(e, p)[x] = SensorsBefore(fleet[x], r, x, n + 2)
  <2> SUFFICES ASSUME NEW x \in Endpoints
               PROVE  Remember(e, p)[x] = [o \in Outlets(x) |-> StateIn(r, x, o, n + 2)]
    BY <1>4
  <2> DEFINE R == Remember(e, p)[x]
             is == fleet[e] = "hpepdu" /\ p # Undecodable /\ p.Name = "Outlet"
                   /\ p.Oid \in Outlets(e)
  <2>1. /\ DOMAIN lastPowerState[e] = Outlets(e)
        /\ DOMAIN lastPowerState[x] = Outlets(x)
        /\ DOMAIN lastPowerState = Endpoints
    BY <1>1, <1>2
  <2>2. CASE is /\ x = e
    <3>1. R = [lastPowerState[e] EXCEPT ![p.Oid] = p.PowerState]
      BY <2>1, <2>2 DEF Remember
    <3>2. \A o \in Outlets(e) : IsOf(a, e, o) <=> o = p.Oid
      BY <2>2 DEF IsOf
    <3>3. R = [o \in Outlets(e) |-> IF o = p.Oid THEN p.PowerState ELSE lastPowerState[e][o]]
      BY <2>1, <3>1
    <3> HIDE DEF R, Outlets
    <3>6. \A o \in Outlets(e) : lastPowerState[e][o] = StateIn(answers, e, o, n + 1)
      BY <1>2
    <3>7. \A o \in Outlets(e) :
            StateIn(r, e, o, n + 2) =
              IF IsOf(a, e, o) THEN p.PowerState ELSE StateIn(answers, e, o, n + 1)
      BY <1>3
    <3>4. \A o \in Outlets(e) :
            StateIn(r, e, o, n + 2) = IF o = p.Oid THEN p.PowerState ELSE lastPowerState[e][o]
      BY <3>2, <3>6, <3>7
    <3>5. R = [o \in Outlets(e) |-> StateIn(r, e, o, n + 2)]
      BY <3>3, <3>4
    <3> QED BY <2>2, <3>5 DEF R
  <2>3. CASE ~(is /\ x = e)
    <3>1. R = lastPowerState[x]
      BY <2>1, <2>3 DEF Remember
    <3>2. \A o \in Outlets(x) : ~IsOf(a, x, o)
      BY <2>3 DEF IsOf
    <3> HIDE DEF R, Outlets
    <3>3. \A o \in Outlets(x) : StateIn(r, x, o, n + 2) = StateIn(answers, x, o, n + 1)
      BY <3>2, <1>3
    <3>4. R = [o \in Outlets(x) |-> StateIn(r, x, o, n + 2)]
      BY <3>1, <3>3, <1>2
    <3> QED BY <3>4 DEF R
  <2> QED BY <2>2, <2>3
<1>6. Remember(e, p) = [x \in Endpoints |-> Remember(e, p)[x]]
  <2>1. DOMAIN lastPowerState = Endpoints /\ lastPowerState = [x \in Endpoints |-> lastPowerState[x]]
    BY <1>1
  <2> QED BY <2>1 DEF Remember
<1> QED BY <1>1, <1>5, <1>6
(***************************************************************************)
(* The workers that poll.                                                  *)
(***************************************************************************)
\* The URLs of a telemetry type are URLs; nothing is to be sent yet.
LEMMA UrlsForType ==
  ASSUME PollInv, NEW e \in Endpoints, NEW t \in 1 .. 2
  PROVE  LET r == UrlsFor(e, t) IN
         /\ IsPoll(r) /\ r.type = t /\ r.urls = Urls[fleet[e]][TelemetryTypes[t]]
         /\ r.events = <<>> /\ r.next = 1 /\ r.answer = 0
<1>1. fleet[e] \in Vendor
  BY TelemetryAssumption DEF PollInv, Endpoints
<1>2. Urls[fleet[e]][TelemetryTypes[t]] \subseteq AllUrls
  BY <1>1, Types DEF AllUrls
<1>0. IsSequence(<<>>) /\ Len(<<>>) = 0
  BY DEF IsSequence
<1>3. ASSUME NEW u, u \subseteq AllUrls
      PROVE  LET r == [IdlePoll EXCEPT !.type = t, !.urls = u] IN
             /\ r \in [type : 0 .. 2, urls : SUBSET AllUrls, events : {<<>>},
                       next : Nat \ {0}, answer : Nat]
             /\ r.type = t /\ r.urls = u /\ r.events = <<>> /\ r.next = 1 /\ r.answer = 0
  <2>1. /\ IdlePoll \in [type : 0 .. 2, urls : SUBSET AllUrls, events : {<<>>},
                         next : Nat \ {0}, answer : Nat]
        /\ IdlePoll.next = 1 /\ IdlePoll.answer = 0 /\ IdlePoll.events = <<>>
        /\ t \in 0 .. 2 /\ u \in SUBSET AllUrls
    BY <1>3 DEF IdlePoll
  <2> QED BY <2>1
<1> DEFINE r == UrlsFor(e, t)
<1>4. /\ r \in [type : 0 .. 2, urls : SUBSET AllUrls, events : {<<>>},
                next : Nat \ {0}, answer : Nat]
      /\ r.type = t /\ r.urls = Urls[fleet[e]][TelemetryTypes[t]]
      /\ r.events = <<>> /\ r.next = 1 /\ r.answer = 0
  BY <1>2, <1>3 DEF UrlsFor
<1> HIDE DEF r
<1>5. IsPoll(r)
  BY <1>0, <1>4 DEF IsPoll
<1> QED BY <1>4, <1>5 DEF r

LEMMA IdleIsPoll ==
  IsPoll(IdlePoll) /\ IdlePoll.type = 0 /\ IdlePoll.urls = {} /\ IdlePoll.events = <<>>
  /\ IdlePoll.next = 1 /\ IdlePoll.answer = 0
<1>1. IsSequence(<<>>) /\ Len(<<>>) = 0
  BY DEF IsSequence
<1> QED BY <1>1 DEF IdlePoll, IsPoll

\* What a step of a worker may do to its record and its number of polls.
LEMMA PollMoves ==
  ASSUME PollInv, NEW e \in Endpoints, NEW r, IsPoll(r),
         poll' = [poll EXCEPT ![e] = r], UNCHANGED fleet,
         npolls' \in [Endpoints -> Nat],
         \A x \in Endpoints : npolls'[x] <= MaxPolls[fleet[x]]
  PROVE  /\ PollInv' /\ Endpoints' = Endpoints /\ poll'[e] = r
         /\ \A x \in Endpoints : x # e => poll'[x] = poll[x]
<1>1. Endpoints' = Endpoints
  BY DEF Endpoints
<1>2. poll' = [x \in Endpoints |-> poll'[x]]
  BY DEF PollInv
<1>3. \A x \in Endpoints : poll'[x] = IF x = e THEN r ELSE poll[x]
  BY DEF PollInv
<1> QED BY <1>1, <1>2, <1>3 DEF PollInv

\* A worker that has nothing left to send goes on: what it may do to its
\* number of polls,...
Goes(e, r) ==
  /\ AllSent(e) /\ poll' = [poll EXCEPT ![e] = r]
  /\ UNCHANGED <<fleet, lastPowerState, answers, sent, panicked>>
  /\ npolls' \in [Endpoints -> Nat]
  /\ \A x \in Endpoints : /\ npolls[x] <= npolls'[x] /\ npolls'[x] <= MaxPolls[fleet[x]]
                          /\ x # e => npolls'[x] = npolls[x]
\* ...what its record may become,...
Becomes(e, r) ==
  /\ IsPoll(r)
  /\ IF r.type = 0 THEN r = IdlePoll
     ELSE r.urls \subseteq Urls[fleet[e]][TelemetryTypes[r.type]]
  /\ \/ r.answer = 0 /\ r.events = <<>>
     \/ r.answer = poll[e].answer /\ r.events = poll[e].events /\ r.next = poll[e].next
\* ...and that it asks what it has not asked in its poll.
AsksOnce(e, r) ==
  \A k \in DOMAIN answers :
    (/\ ~panicked /\ answers[k].ep = e /\ answers[k].poll = npolls'[e] /\ r.type # 0) =>
      /\ answers[k].type = TelemetryTypes[r.type] => answers[k].url \notin r.urls
      /\ r.type = 1 => answers[k].type = TelemetryTypes[1]

\* Then the invariant holds for it.
LEMMA MovesKeep ==
  ASSUME CollectInv, NEW e \in Endpoints, NEW r, Goes(e, r), Becomes(e, r), AsksOnce(e, r)
  PROVE  CollectInv'
<1> USE DEF CollectInv, Goes, Becomes, AsksOnce
<1>1. /\ PollInv' /\ Endpoints' = Endpoints /\ poll'[e] = r
      /\ \A x \in Endpoints : x # e => poll'[x] = poll[x]
  BY PollMoves
<1>2. WorkInv'
  BY <1>1 DEF WorkInv
<1>3. RememberInv'
  BY <1>1 DEF RememberInv
<1>a. \A k \in DOMAIN answers : k \in Nat /\ k # 0
  BY DEF AnswersInv, IsSequence
<1>4. AnswersInv'
  <2>1. \A k \in DOMAIN answers : IsAnswer(answers[k])'
    <3> SUFFICES ASSUME NEW k \in DOMAIN answers PROVE IsAnswer(answers[k])'
      OBVIOUS
    <3>1. IsAnswer(answers[k])
      BY DEF AnswersInv
    <3>2. npolls[answers[k].ep] \in Nat /\ npolls'[answers[k].ep] \in Nat
      BY <3>1 DEF IsAnswer, PollInv
    <3> QED BY <3>1, <3>2, <1>1 DEF IsAnswer
  <2>2. \A k \in DOMAIN answers : IsHandled(k)'
    BY DEF AnswersInv, IsHandled, WellFormed
  <2> QED BY <2>1, <2>2 DEF AnswersInv, WellFormed
<1>5. OnceInv'
  <2>1. \A k \in DOMAIN answers : answers[k].ep \in Endpoints
    BY DEF AnswersInv, IsAnswer
  <2>2. ASSUME NEW k \in DOMAIN answers, ~panicked,
               answers[k].poll = npolls'[answers[k].ep], poll'[answers[k].ep].type # 0
        PROVE  LET a == answers[k] w == poll'[a.ep] IN
               /\ a.type = TelemetryTypes[w.type] => a.url \notin w.urls
               /\ w.type = 1 => a.type = TelemetryTypes[1]
    <3>1. CASE answers[k].ep = e
      BY <3>1, <2>2, <1>1
    <3>2. CASE answers[k].ep # e
      BY <3>2, <2>1, <2>2, <1>1 DEF OnceInv
    <3> QED BY <3>1, <3>2
  <2> QED BY <2>2 DEF OnceInv, SamePoll
<1>6. SentInv'
  BY DEF SentInv
<1>7. ProgressInv'
  <2> SUFFICES ASSUME NEW k \in DOMAIN answers, NEW j \in DOMAIN answers[k].events
               PROVE  Waits(k, j)' <=> Waits(k, j)
    BY DEF ProgressInv, IsSent
  <2>1. ASSUME poll[e].answer = k PROVE ~(poll[e].next <= j)
    <3>1. poll[e].events = answers[k].events
      BY <2>1, <1>a DEF WorkInv
    <3>2. IsSequence(poll[e].events) /\ poll[e].next \in Nat /\ poll[e].next > Len(poll[e].events)
      BY DEF PollInv, IsPoll, AllSent
    <3>3. j \in 1 .. Len(poll[e].events) /\ Len(poll[e].events) \in Nat
      BY <3>1, <3>2 DEF IsSequence
    <3> QED BY <3>2, <3>3
  <2>2. ASSUME r.answer = k PROVE ~(r.next <= j)
    BY <2>1, <2>2, <1>a
  <2> QED BY <2>1, <2>2, <1>1 DEF Waits
<1> QED BY <1>1, <1>2, <1>3, <1>4, <1>5, <1>6, <1>7
\* A worker starts a poll.
LEMMA StartKeeps ==
  ASSUME CollectInv, NEW e \in Endpoints, StartPoll(e)
  PROVE  CollectInv'
<1> USE DEF CollectInv
<1> DEFINE r == UrlsFor(e, 1)
<1>1. /\ poll' = [poll EXCEPT ![e] = r] /\ poll[e].type = 0
      /\ npolls' = [npolls EXCEPT ![e] = npolls[e] + 1] /\ npolls[e] < MaxPolls[fleet[e]]
      /\ UNCHANGED <<fleet, lastPowerState, answers, sent, panicked>>
  BY DEF StartPoll
<1>2. /\ IsPoll(r) /\ r.type = 1 /\ r.urls = Urls[fleet[e]][TelemetryTypes[1]]
      /\ r.events = <<>> /\ r.answer = 0
  BY UrlsForType
<1> HIDE DEF r
<1>3. AllSent(e)
  BY <1>1, IdleIsPoll DEF WorkInv, AllSent, IsSequence
<1>4. MaxPolls[fleet[e]] \in Nat
  BY TelemetryAssumption DEF PollInv, Endpoints
<1>5. /\ npolls' \in [Endpoints -> Nat] /\ npolls'[e] = npolls[e] + 1 /\ npolls[e] \in Nat
      /\ \A x \in Endpoints : /\ npolls[x] <= npolls'[x] /\ npolls'[x] <= MaxPolls[fleet[x]]
                              /\ x # e => npolls'[x] = npolls[x]
  BY <1>1, <1>4 DEF PollInv
<1>6. ASSUME NEW k \in DOMAIN answers, answers[k].ep = e PROVE answers[k].poll # npolls'[e]
  <2>1. answers[k].poll \in Nat /\ answers[k].poll <= npolls[e]
    BY <1>6 DEF AnswersInv, IsAnswer
  <2> QED BY <2>1, <1>5
<1>7. Goes(e, r) /\ Becomes(e, r) /\ AsksOnce(e, r)
  BY <1>1, <1>2, <1>3, <1>5, <1>6 DEF Goes, Becomes, AsksOnce
<1> QED BY <1>7, MovesKeep

\* It goes on to the next telemetry type, or is through.
LEMMA NextKeeps ==
  ASSUME CollectInv, ~panicked, NEW e \in Endpoints, NextType(e)
  PROVE  CollectInv'
<1> USE DEF CollectInv
<1> DEFINE r == IF poll[e].type = Len(TelemetryTypes) THEN IdlePoll
                ELSE UrlsFor(e, poll[e].type + 1)
<1>1. /\ poll' = [poll EXCEPT ![e] = r] /\ poll[e].type # 0 /\ AllSent(e)
      /\ UNCHANGED <<fleet, npolls, lastPowerState, answers, sent, panicked>>
  BY DEF NextType, PollInv
<1>2. /\ npolls \in [Endpoints -> Nat]
      /\ \A x \in Endpoints : npolls[x] \in Nat /\ npolls[x] <= MaxPolls[fleet[x]]
  BY DEF PollInv
<1>3. CASE poll[e].type = 2
  <2>1. r = IdlePoll
    BY <1>3, Types
  <2> HIDE DEF r
  <2>2. Goes(e, r) /\ Becomes(e, r) /\ AsksOnce(e, r)
    BY <1>1, <1>2, <2>1, IdleIsPoll DEF Goes, Becomes, AsksOnce
  <2> QED BY <2>2, MovesKeep
<1>4. CASE poll[e].type # 2
  <2>1. poll[e].type = 1
    BY <1>1, <1>4 DEF PollInv, IsPoll
  <2>2. r = UrlsFor(e, 2)
    BY <2>1, Types
  <2> HIDE DEF r
  <2>3. /\ IsPoll(r) /\ r.type = 2 /\ r.urls = Urls[fleet[e]][TelemetryTypes[2]]
        /\ r.events = <<>> /\ r.answer = 0
    BY <2>2, UrlsForType
  <2>4. ASSUME NEW k \in DOMAIN answers, answers[k].ep = e, answers[k].poll = npolls[e]
        PROVE  answers[k].type # TelemetryTypes[2]
    <3>1. answers[k].type = TelemetryTypes[1]
      BY <2>1, <2>4 DEF OnceInv
    <3> QED BY <3>1 DEF TelemetryTypes
  <2>5. Goes(e, r) /\ Becomes(e, r) /\ AsksOnce(e, r)
    BY <1>1, <1>2, <2>3, <2>4 DEF Goes, Becomes, AsksOnce
  <2> QED BY <2>5, MovesKeep
<1> QED BY <1>3, <1>4

\* A request failed.
LEMMA FailKeeps ==
  ASSUME CollectInv, NEW e \in Endpoints, NEW u \in poll[e].urls, RequestFails(e, u)
  PROVE  CollectInv'
<1> USE DEF CollectInv
<1> DEFINE r == [poll[e] EXCEPT !.urls = poll[e].urls \ {u}]
<1>0. IsPoll(poll[e])
  BY DEF PollInv
<1>1. /\ poll' = [poll EXCEPT ![e] = r] /\ AllSent(e)
      /\ UNCHANGED <<fleet, npolls, lastPowerState, answers, sent, panicked>>
  BY DEF RequestFails, PollInv
<1>2. /\ npolls \in [Endpoints -> Nat]
      /\ \A x \in Endpoints : npolls[x] \in Nat /\ npolls[x] <= MaxPolls[fleet[x]]
  BY DEF PollInv
<1>3. /\ IsPoll(r) /\ r.type = poll[e].type /\ r.urls = poll[e].urls \ {u}
      /\ r.events = poll[e].events /\ r.answer = poll[e].answer /\ r.next = poll[e].next
  BY <1>0 DEF IsPoll
<1> HIDE DEF r
<1>4. poll[e].type # 0
  BY IdleIsPoll DEF WorkInv
<1>5. r.urls \subseteq Urls[fleet[e]][TelemetryTypes[r.type]]
  BY <1>3, <1>4 DEF WorkInv
<1>6. ASSUME NEW k \in DOMAIN answers, ~panicked, answers[k].ep = e,
             answers[k].poll = npolls[e]
      PROVE  /\ answers[k].type = TelemetryTypes[r.type] => answers[k].url \notin r.urls
             /\ r.type = 1 => answers[k].type = TelemetryTypes[1]
  BY <1>3, <1>4, <1>6 DEF OnceInv
<1>7. Goes(e, r) /\ Becomes(e, r) /\ AsksOnce(e, r)
  BY <1>1, <1>2, <1>3, <1>4, <1>5, <1>6 DEF Goes, Becomes, AsksOnce
<1> QED BY <1>7, MovesKeep

\* It sends the next event, or leaves it.
LEMMA SendKeeps ==
  ASSUME CollectInv, IsSequence(sent), NEW e \in Endpoints, Send(e)
  PROVE  /\ CollectInv'
         /\ sent' = sent \/ (Cardinality(InFlight) < Capacity /\ Longer(sent', sent, Message(e)))
<1> USE DEF CollectInv
<1> DEFINE r == [poll[e] EXCEPT !.next = poll[e].next + 1]
           q == poll[e].answer
           x == poll[e].next
           m == Message(e)
<1>0. /\ IsPoll(poll[e]) /\ x \in Nat \ {0} /\ q \in Nat
      /\ IsSequence(poll[e].events) /\ Len(poll[e].events) \in Nat
      /\ DOMAIN poll[e].events = 1 .. Len(poll[e].events)
      /\ x <= Len(poll[e].events)
  <2>1. IsPoll(poll[e]) /\ ~AllSent(e)
    BY DEF PollInv, Send
  <2>2. IsSequence(poll[e].events) /\ x \in Nat \ {0} /\ q \in Nat
    BY <2>1 DEF IsPoll
  <2> QED BY <2>1, <2>2 DEF AllSent, IsSequence
<1>1. /\ poll' = [poll EXCEPT ![e] = r]
      /\ UNCHANGED <<fleet, npolls, lastPowerState, answers, panicked>>
  BY DEF Send, PollInv
<1>2. /\ IsPoll(r) /\ r.type = poll[e].type /\ r.urls = poll[e].urls
      /\ r.events = poll[e].events /\ r.answer = q /\ r.next = x + 1
  BY <1>0 DEF IsPoll
<1>3. /\ poll[e] # IdlePoll /\ poll[e].type # 0
      /\ q \in DOMAIN answers /\ answers[q].ep = e
      /\ poll[e].events = answers[q].events /\ x \in DOMAIN answers[q].events
  BY <1>0, IdleIsPoll DEF WorkInv, IsSequence
<1>4. /\ m.ev = answers[q].events[x] /\ m.answer = q /\ m.at = x
      /\ m.topic = PollTopic(answers[q].events[x].id)
  BY <1>3 DEF Message
<1>5. /\ npolls \in [Endpoints -> Nat]
      /\ \A z \in Endpoints : npolls[z] \in Nat /\ npolls[z] <= MaxPolls[fleet[z]]
  BY DEF PollInv
<1>6. \/ PollTopic(answers[q].events[x].id) = NoTopic /\ sent' = sent
      \/ /\ PollTopic(answers[q].events[x].id) # NoTopic
         /\ Cardinality(InFlight) < Capacity /\ sent' = Append(sent, m)
  BY <1>3 DEF Send
<1>7. sent' = Append(sent, m) => Longer(sent', sent, m)
  BY OneMore
<1> HIDE DEF r, q, x, m
<1>8. /\ PollInv' /\ Endpoints' = Endpoints /\ poll'[e] = r
      /\ \A z \in Endpoints : z # e => poll'[z] = poll[z]
  BY <1>1, <1>2, <1>5, PollMoves
<1>9. WorkInv'
  BY <1>1, <1>2, <1>3, <1>8, IdleIsPoll DEF WorkInv, q
<1>10. RememberInv' /\ AnswersInv'
  BY <1>1, <1>8 DEF RememberInv, AnswersInv, IsAnswer, IsHandled, WellFormed
<1>11. OnceInv'
  <2>1. \A k \in DOMAIN answers : answers[k].ep \in Endpoints
    BY DEF AnswersInv, IsAnswer
  <2>2. \A z \in Endpoints : poll'[z].type = poll[z].type /\ poll'[z].urls = poll[z].urls
    BY <1>2, <1>8
  <2> QED BY <1>1, <2>1, <2>2 DEF OnceInv, SamePoll
<1>12. ~IsSent(q, x)
  <2>1. Waits(q, x)
    BY <1>0 DEF Waits, q, x
  <2> QED BY <2>1, <1>3 DEF ProgressInv
<1>13. \A n \in DOMAIN sent : ~(sent[n].answer = q /\ sent[n].at = x)
  BY <1>12 DEF IsSent
<1>14. SentInv'
  <2>1. CASE sent' = sent
    BY <2>1, <1>1 DEF SentInv
  <2>2. CASE PollTopic(answers[q].events[x].id) # NoTopic /\ Longer(sent', sent, m)
    <3>1. \A n \in DOMAIN sent' : \/ n \in DOMAIN sent /\ sent'[n] = sent[n]
                                  \/ n \notin DOMAIN sent /\ n = Len(sent) + 1 /\ sent'[n] = m
      BY <2>2 DEF Longer
    <3>2. ASSUME NEW n \in DOMAIN sent'
          PROVE  LET w == sent'[n] IN
                 /\ w.answer \in DOMAIN answers /\ w.at \in DOMAIN answers[w.answer].events
                 /\ w.ev = answers[w.answer].events[w.at]
                 /\ w.topic = PollTopic(w.ev.id) /\ w.topic # NoTopic
      <4>1. CASE n \in DOMAIN sent /\ sent'[n] = sent[n]
        BY <4>1 DEF SentInv
      <4>2. CASE sent'[n] = m
        BY <4>2, <2>2, <1>3, <1>4
      <4> QED BY <4>1, <4>2, <3>1
    <3>3. ASSUME NEW n \in DOMAIN sent', NEW l \in DOMAIN sent',
                 sent'[n].answer = sent'[l].answer, sent'[n].at = sent'[l].at
          PROVE  n = l
      <4>1. CASE n \in DOMAIN sent /\ l \in DOMAIN sent
        BY <4>1, <3>1, <3>3 DEF SentInv
      <4>2. CASE n \notin DOMAIN sent /\ l \notin DOMAIN sent
        BY <4>2, <3>1
      <4>3. CASE (n \in DOMAIN sent) # (l \in DOMAIN sent)
        BY <4>3, <3>1, <3>3, <1>4, <1>13
      <4> QED BY <4>1, <4>2, <4>3
    <3> QED BY <3>2, <3>3, <1>1 DEF SentInv
  <2> QED BY <2>1, <2>2, <1>6, <1>7
<1>15. ASSUME NEW k \in DOMAIN answers, NEW j \in DOMAIN answers[k].events
       PROVE  /\ Waits(k, j)' <=> Waits(k, j) /\ ~(k = q /\ j = x)
              /\ IsSent(k, j)' <=> \/ IsSent(k, j)
                                  \/ /\ k = q /\ j = x
                                     /\ PollTopic(answers[k].events[j].id) # NoTopic
  <2>1. ASSUME k = q PROVE j \in Nat
    BY <2>1, <1>0, <1>3
  <2>2. \A z \in Endpoints : poll[z].answer = q => z = e
    BY <1>3 DEF WorkInv, AnswersInv, IsSequence
  <2>3. Waits(k, j)' <=> Waits(k, j) /\ ~(k = q /\ j = x)
    <3>1. CASE k = q
      <4>1. Waits(k, j) <=> x <= j
        BY <3>1, <2>2 DEF Waits, q, x
      <4>2. Waits(k, j)' <=> x + 1 <= j
        BY <3>1, <2>2, <1>2, <1>8 DEF Waits
      <4> QED BY <3>1, <4>1, <4>2, <2>1, <1>0
    <3>2. CASE k # q
      BY <3>2, <1>2, <1>8 DEF Waits, q
    <3> QED BY <3>1, <3>2
  <2>4. CASE PollTopic(answers[q].events[x].id) = NoTopic /\ sent' = sent
    <3>1. IsSent(k, j)' <=> IsSent(k, j)
      BY <2>4 DEF IsSent
    <3> QED BY <2>3, <2>4, <3>1
  <2>5. CASE PollTopic(answers[q].events[x].id) # NoTopic /\ Longer(sent', sent, m)
    <3>1. \A n \in DOMAIN sent' : \/ n \in DOMAIN sent /\ sent'[n] = sent[n]
                                  \/ sent'[n] = m
      BY <2>5 DEF Longer
    <3>2. \A n \in DOMAIN sent : n \in DOMAIN sent' /\ sent'[n] = sent[n]
      BY <2>5 DEF Longer
    <3>3. Len(sent) + 1 \in DOMAIN sent' /\ sent'[Len(sent) + 1] = m
      BY <2>5 DEF Longer
    <3>4. IsSent(k, j)' <=> IsSent(k, j) \/ (k = q /\ j = x)
      BY <3>1, <3>2, <3>3, <1>4 DEF IsSent
    <3> QED BY <2>3, <2>5, <3>4
  <2> QED BY <2>4, <2>5, <1>6, <1>7
<1>16. ProgressInv'
  BY <1>1, <1>12, <1>15 DEF ProgressInv
<1> QED BY <1>6, <1>7, <1>8, <1>9, <1>10, <1>11, <1>14, <1>16 DEF m

\* What an endpoint answers is decoded into what its collector reads.
LEMMA PayloadsDecode ==
  ASSUME NEW v \in Vendor, NEW t \in TelemetryType, NEW u \in Urls[v][t],
         NEW p \in Payloads[v][u], p # Undecodable
  PROVE  /\ p \in Decoded(v, t)
         /\ p \in Mains => \A keys \in {p.PolyPhasePowerWatts, p.PolyPhaseVoltage,
                                        p.PolyPhaseCurrentAmps} : IsFiniteSet(keys)
         /\ v = "hpepdu" => t = "Power"
<1>1. p \in Payloads[v][u] \ {Undecodable}
  OBVIOUS
<1>2. v = "hpepdu" => t = "Power"
  <2>1. Urls["hpepdu"]["Thermal"] = {}
    BY TelemetryAssumption
  <2> QED BY <2>1 DEF TelemetryType
<1> QED BY <1>1, <1>2, TelemetryAssumption

\* A collector panics only over a payload it cannot handle.
LEMMA PanicsOverBroken ==
  ASSUME NEW a, Panics(fleet[a.ep], a.type, a.payload),
         a.payload # Undecodable => a.payload \in Decoded(fleet[a.ep], a.type)
  PROVE  ~WellFormed(a)
<1>1. a.payload # Undecodable
  BY DEF Panics
<1>2. CASE fleet[a.ep] = "intel" /\ a.type = "Power"
           /\ \E i \in DOMAIN a.payload.Voltages : Text[a.payload.Voltages[i].Name].len < 3
  <2>1. PICK i \in DOMAIN a.payload.Voltages : Text[a.payload.Voltages[i].Name].len < 3
    BY <1>2
  <2>0. Text[a.payload.Voltages[i].Name].len \in Nat
    <3>1. a.payload \in Power
      BY <1>1, <1>2 DEF Decoded
    <3>2. a.payload.Voltages \in Seq(Element)
      BY <3>1 DEF Power
    <3>4. a.payload.Voltages[i] \in Element
      BY <3>2
    <3>3. a.payload.Voltages[i].Name \in Names
      BY <3>4 DEF Element
    <3> QED BY <3>3, CollectorAssumption
  <2>2. ~(Text[a.payload.Voltages[i].Name].len >= 3)
    BY <2>0, <2>1
  <2>3. WellFormed(a) =>
          \A j \in DOMAIN a.payload.Voltages : Text[a.payload.Voltages[j].Name].len >= 3
    <3>1. fleet[a.ep] = "intel" /\ a.type = "Power"
      BY <1>2
    <3> QED BY <1>1, <3>1 DEF WellFormed
  <2> QED BY <2>2, <2>3
<1>3. CASE fleet[a.ep] = "hpepdu" /\ a.payload.Name = "number"
  BY <1>1, <1>3 DEF WellFormed
<1>4. CASE fleet[a.ep] = "hpepdu" /\ a.payload.Name = "Outlet"
           /\ OidNumber[a.payload.Oid] = NotANumber
  BY <1>1, <1>4 DEF WellFormed
<1> QED BY <1>2, <1>3, <1>4 DEF Panics

\* An answer more.
LEMMA AnswerAdds ==
  ASSUME CollectInv, NEW e \in Endpoints, poll[e].type # 0,
         NEW u \in poll[e].urls, NEW p \in Payloads[fleet[e]][u], NEW evs, NEW a,
         a = Got(e, u, p, evs), Longer(answers', answers, a), UNCHANGED <<fleet, npolls>>,
         Endpoints' = Endpoints, panicked => panicked',
         \/ evs \in GetEventsForPayload(fleet[e], a.type, p,
                                        SensorsBefore(fleet[e], answers, e, Len(answers) + 1))
         \/ panicked' /\ evs = <<>> /\ Panics(fleet[e], a.type, p),
         panicked' => panicked \/ Panics(fleet[e], a.type, p)
  PROVE  AnswersInv'
<1> USE DEF CollectInv
<1>1. /\ IsSequence(answers') /\ Len(answers) \in Nat
      /\ \A k \in DOMAIN answers' : \/ k \in DOMAIN answers /\ answers'[k] = answers[k]
                                    \/ k = Len(answers) + 1 /\ answers'[k] = a
      /\ \A k \in DOMAIN answers : k \in DOMAIN answers' /\ answers'[k] = answers[k]
      /\ DOMAIN answers = 1 .. Len(answers)
      /\ Len(answers) + 1 \in DOMAIN answers' /\ answers'[Len(answers) + 1] = a
  BY DEF Longer
<1>2. /\ a.ep = e /\ a.type = TelemetryTypes[poll[e].type] /\ a.url = u /\ a.payload = p
      /\ a.events = evs /\ a.poll = npolls[e]
  BY DEF Got
<1>3. IsAnswer(a)'
  <2>1. poll[e].type \in 1 .. 2
    BY DEF PollInv, IsPoll
  <2>2. a.type \in TelemetryType /\ u \in Urls[fleet[e]][a.type]
    BY <2>1, <1>2, Types DEF WorkInv
  <2>3. npolls[e] \in Nat /\ npolls[e] <= npolls[e]
    BY DEF PollInv
  <2> QED BY <2>2, <2>3, <1>2 DEF IsAnswer
<1>4. Panics(fleet[e], a.type, p) => ~WellFormed(a)
  <2>1. fleet[e] \in Vendor
    BY TelemetryAssumption DEF PollInv, Endpoints
  <2>2. a.type \in TelemetryType /\ u \in Urls[fleet[e]][a.type]
    BY <1>2, <1>3 DEF IsAnswer
  <2>3. p # Undecodable => p \in Decoded(fleet[e], a.type)
    BY <2>1, <2>2, PayloadsDecode
  <2> QED BY <1>2, <2>3, PanicsOverBroken
<1>5. \A x : WellFormed(x)' <=> WellFormed(x)
  BY DEF WellFormed
<1>6. \A k \in 1 .. Len(answers) + 1 : \A v, x :
        SensorsBefore(v, answers', x, k) = SensorsBefore(v, answers, x, k)
  BY SensorsStay
<1>7. ASSUME NEW k \in DOMAIN answers' PROVE IsAnswer(answers[k])' /\ IsHandled(k)'
  <2>1. CASE k \in DOMAIN answers /\ answers'[k] = answers[k]
    <3>1. IsAnswer(answers[k]) /\ IsHandled(k)
      BY <2>1 DEF AnswersInv
    <3>2. IsAnswer(answers[k])'
      BY <2>1, <3>1 DEF IsAnswer
    <3>3. k \in 1 .. Len(answers) + 1
      BY <2>1, <1>1
    <3>4. IsHandled(k)'
      BY <2>1, <3>1, <3>3, <1>5, <1>6 DEF IsHandled
    <3> QED BY <3>2, <3>4
  <2>2. CASE k = Len(answers) + 1 /\ answers'[k] = a
    <3>1. k \in 1 .. Len(answers) + 1
      BY <2>2, <1>1
    <3>2. SensorsBefore(fleet[e], answers', e, k) = SensorsBefore(fleet[e], answers, e, k)
      BY <3>1, <1>6
    <3>3. IsHandled(k)'
      BY <2>2, <3>2, <1>2, <1>4, <1>5 DEF IsHandled
    <3> QED BY <2>2, <3>3, <1>3 DEF IsAnswer
  <2> QED BY <2>1, <2>2, <1>1
<1>8. panicked' => \E k \in DOMAIN answers' : ~WellFormed(answers[k])'
  <2>1. CASE panicked
    BY <2>1, <1>1, <1>5 DEF AnswersInv
  <2>2. CASE Panics(fleet[e], a.type, p)
    BY <2>2, <1>1, <1>4, <1>5
  <2> QED BY <2>1, <2>2
<1> QED BY <1>1, <1>7, <1>8 DEF AnswersInv

\* The events a collector makes of an answer are a sequence.
LEMMA EventsAre ==
  ASSUME CollectInv, NEW e \in Endpoints, NEW t \in TelemetryType,
         NEW u \in Urls[fleet[e]][t], NEW p \in Payloads[fleet[e]][u], NEW k,
         NEW evs \in GetEventsForPayload(fleet[e], t, p,
                                        SensorsBefore(fleet[e], answers, e, k))
  PROVE  /\ p = Undecodable => evs = <<>>
         /\ p # Undecodable => Makes(evs, Meant(fleet[e], p, StateBefore(e, p.Oid, k)))
<1>1. CASE p = Undecodable
  BY <1>1 DEF GetEventsForPayload
<1>2. CASE p # Undecodable
  <2> DEFINE v == fleet[e]
             last == SensorsBefore(v, answers, e, k)
  <2>1. v \in Vendor
    BY TelemetryAssumption DEF CollectInv, PollInv, Endpoints
  <2>2. /\ p \in Decoded(v, t)
        /\ p \in Mains => \A keys \in {p.PolyPhasePowerWatts, p.PolyPhaseVoltage,
                                       p.PolyPhaseCurrentAmps} : IsFiniteSet(keys)
        /\ v = "hpepdu" => t = "Power"
    BY <2>1, <1>2, PayloadsDecode
  <2>3. v = "hpepdu" => /\ DOMAIN last = Urls["hpepdu"]["Power"]
                        /\ p.Oid \in DOMAIN last => last[p.Oid] = StateBefore(e, p.Oid, k)
    BY StateBeforeIs DEF SensorsBefore
  <2>4. evs \in GetEventsForPayload(v, t, p, last)
    OBVIOUS
  <2> HIDE DEF v, last
  <2>5. Makes(evs, Meant(v, p, StateBefore(e, p.Oid, k)))
    BY <2>1, <2>2, <2>3, <2>4, <1>2, CollectorsMake
  <2> QED BY <2>5, <1>2 DEF v
<1> QED BY <1>1, <1>2

\* A worker gets an answer.
LEMMA AnswerKeeps ==
  ASSUME CollectInv, ~panicked, NEW e \in Endpoints, NEW u \in poll[e].urls,
         NEW p \in Payloads[fleet[e]][u], Answer(e, u, p)
  PROVE  CollectInv'
<1> USE DEF CollectInv
<1> DEFINE t == TelemetryTypes[poll[e].type]
           last == SensorsBefore(fleet[e], answers, e, Len(answers) + 1)
<1>1. /\ AllSent(e) /\ UNCHANGED <<fleet, npolls, sent>> /\ Endpoints' = Endpoints
  BY DEF Answer, Endpoints
<1>2. poll[e].type # 0 /\ poll[e].type \in 1 .. 2 /\ IsPoll(poll[e])
  BY IdleIsPoll DEF WorkInv, PollInv, IsPoll
<1>3. lastPowerState[e] = last
  BY DEF RememberInv
<1>4. IsSequence(answers) /\ \A k \in DOMAIN answers : k \in Nat /\ k # 0
  BY DEF AnswersInv, IsSequence
<1>5. PICK evs : \/ /\ Panics(fleet[e], t, p) /\ evs = <<>>
                    /\ answers' = Append(answers, Got(e, u, p, evs))
                    /\ panicked' = TRUE /\ UNCHANGED <<poll, lastPowerState>>
                 \/ /\ evs \in GetEventsForPayload(fleet[e], t, p, last)
                    /\ answers' = Append(answers, Got(e, u, p, evs))
                    /\ poll' = [poll EXCEPT ![e] = [poll[e] EXCEPT !.urls = poll[e].urls \ {u},
                                   !.events = evs, !.next = 1, !.answer = Len(answers) + 1]]
                    /\ lastPowerState' = Remember(e, p) /\ UNCHANGED panicked
  <2>1. CASE Panics(fleet[e], t, p)
    BY <2>1 DEF Answer
  <2>2. CASE ~Panics(fleet[e], t, p)
    <3>1. PICK evs \in GetEventsForPayload(fleet[e], t, p, lastPowerState[e]) :
            /\ answers' = Append(answers, Got(e, u, p, evs))
            /\ poll' = [poll EXCEPT ![e] = [poll[e] EXCEPT !.urls = poll[e].urls \ {u},
                           !.events = evs, !.next = 1, !.answer = Len(answers) + 1]]
      BY <2>2 DEF Answer, PollInv
    <3>2. lastPowerState' = Remember(e, p) /\ UNCHANGED panicked
      BY <2>2 DEF Answer
    <3> QED BY <3>1, <3>2, <1>3
  <2> QED BY <2>1, <2>2
<1> DEFINE a == Got(e, u, p, evs)
<1>n. PICK n : n = Len(answers) + 1
  OBVIOUS
<1>6. /\ a.ep = e /\ a.type = t /\ a.url = u /\ a.payload = p
      /\ a.events = evs /\ a.poll = npolls[e]
  BY DEF Got
<1>7. Longer(answers', answers, a)
  <2>1. answers' = Append(answers, a)
    BY <1>5
  <2> HIDE DEF a
  <2> QED BY <2>1, <1>4, OneMore
<1> HIDE DEF a
<1>8. /\ Len(answers) \in Nat /\ n \notin DOMAIN answers /\ n \in DOMAIN answers'
      /\ answers'[n] = a /\ Len(answers') = n
      /\ \A k \in DOMAIN answers' : k \in DOMAIN answers \/ k = n
      /\ \A k \in DOMAIN answers : k \in DOMAIN answers' /\ answers'[k] = answers[k]
  BY <1>7, <1>n DEF Longer
<1>9. AnswersInv'
  <2>1. \/ evs \in GetEventsForPayload(fleet[e], a.type, p, last)
        \/ panicked' /\ evs = <<>> /\ Panics(fleet[e], a.type, p)
    BY <1>5, <1>6
  <2>2. panicked' => panicked \/ Panics(fleet[e], a.type, p)
    BY <1>5, <1>6
  <2> QED BY <2>1, <2>2, <1>1, <1>2, <1>7, AnswerAdds DEF a
<1>10. t \in TelemetryType /\ u \in Urls[fleet[e]][t]
  BY <1>2, Types DEF WorkInv
<1>11. IsSequence(evs)
  <2>1. IsSequence(<<>>)
    BY DEF IsSequence
  <2>2. evs \in GetEventsForPayload(fleet[e], t, p, last) =>
          evs = <<>> \/ Makes(evs, Meant(fleet[e], p, StateBefore(e, p.Oid, Len(answers) + 1)))
    BY <1>10, EventsAre
  <2> QED BY <2>1, <2>2, <1>5 DEF Makes
\* the record of the worker
<1> DEFINE r == IF panicked' THEN poll[e]
                ELSE [poll[e] EXCEPT !.urls = poll[e].urls \ {u},
                        !.events = evs, !.next = 1, !.answer = n]
<1>12. /\ IsPoll(r) /\ r.type = poll[e].type
       /\ IF panicked' THEN r = poll[e]
          ELSE r.urls = poll[e].urls \ {u} /\ r.events = evs /\ r.next = 1 /\ r.answer = n
  <2>1. CASE panicked'
    BY <2>1, <1>2
  <2>2. CASE ~panicked'
    <3>1. Len(evs) \in Nat /\ 1 <= Len(evs) + 1
      BY <1>11 DEF IsSequence
    <3>2. /\ poll[e].type \in 0 .. 2 /\ poll[e].urls \subseteq AllUrls
          /\ poll[e] = [type |-> poll[e].type, urls |-> poll[e].urls,
                        events |-> poll[e].events, next |-> poll[e].next,
                        answer |-> poll[e].answer]
      BY <1>2 DEF IsPoll
    <3>3. r = [type |-> poll[e].type, urls |-> poll[e].urls \ {u}, events |-> evs,
               next |-> 1, answer |-> n]
      BY <2>2, <3>2
    <3>4. n \in Nat
      BY <1>8, <1>n
    <3> HIDE DEF r
    <3> QED BY <2>2, <3>1, <3>2, <3>3, <3>4, <1>11 DEF IsPoll
  <2> QED BY <2>1, <2>2
<1>13. poll' = [poll EXCEPT ![e] = r]
  BY <1>5, <1>n DEF PollInv
<1> HIDE DEF r
<1>14. /\ PollInv' /\ poll'[e] = r
       /\ \A x \in Endpoints : x # e => poll'[x] = poll[x]
  BY <1>1, <1>12, <1>13, PollMoves DEF PollInv
<1>15. WorkInv'
  <2> SUFFICES ASSUME NEW x \in Endpoints
               PROVE  /\ IF poll'[x].type = 0 THEN poll'[x] = IdlePoll
                         ELSE poll'[x].urls \subseteq Urls[fleet[x]][TelemetryTypes[poll'[x].type]]
                      /\ \/ poll'[x].answer = 0 /\ poll'[x].events = <<>>
                         \/ /\ poll'[x].answer \in DOMAIN answers'
                            /\ answers'[poll'[x].answer].ep = x
                            /\ poll'[x].events = answers'[poll'[x].answer].events
    BY <1>1 DEF WorkInv
  <2>1. CASE x # e \/ panicked'
    <3>1. poll'[x] = poll[x]
      BY <2>1, <1>12, <1>14
    <3> QED BY <3>1, <1>8 DEF WorkInv
  <2>2. CASE x = e /\ ~panicked'
    <3>1. r.urls \subseteq Urls[fleet[e]][TelemetryTypes[r.type]]
      BY <2>2, <1>2, <1>12 DEF WorkInv
    <3> QED BY <2>2, <3>1, <1>2, <1>6, <1>8, <1>12, <1>14
  <2> QED BY <2>1, <2>2
<1>16. RememberInv'
  <2>1. ~panicked' =>
          lastPowerState' = [x \in Endpoints |-> SensorsBefore(fleet[x], answers', x, Len(answers') + 1)]
    BY <1>5, <1>6, <1>7, Remembered
  <2> QED BY <2>1, <1>1 DEF RememberInv
<1>17. OnceInv'
  <2>1. \A k \in DOMAIN answers : answers[k].ep \in Endpoints
    BY DEF AnswersInv, IsAnswer
  <2>2. ASSUME NEW k \in DOMAIN answers, SamePoll(answers[k], a), answers[k].type = t
        PROVE  answers[k].url # u
    BY <2>2, <1>2, <1>6 DEF OnceInv, SamePoll
  <2>3. ASSUME NEW k \in DOMAIN answers', NEW l \in DOMAIN answers',
               SamePoll(answers'[k], answers'[l]), answers'[k].type = answers'[l].type,
               answers'[k].url = answers'[l].url
        PROVE  k = l
    <3>1. CASE k \in DOMAIN answers /\ l \in DOMAIN answers
      BY <3>1, <2>3, <1>8 DEF OnceInv
    <3>2. CASE k = n /\ l = n
      BY <3>2
    <3>3. CASE k \in DOMAIN answers /\ l = n
      BY <3>3, <2>2, <2>3, <1>6, <1>8
    <3>4. CASE k = n /\ l \in DOMAIN answers
      <4>1. SamePoll(answers[l], a)
        BY <3>4, <2>3, <1>8 DEF SamePoll
      <4> QED BY <3>4, <4>1, <2>2, <2>3, <1>6, <1>8
    <3> QED BY <3>1, <3>2, <3>3, <3>4, <1>8
  <2>4. ASSUME NEW k \in DOMAIN answers', ~panicked',
               answers'[k].poll = npolls[answers'[k].ep], poll'[answers'[k].ep].type # 0
        PROVE  LET b == answers'[k] w == poll'[b.ep] IN
               /\ b.type = TelemetryTypes[w.type] => b.url \notin w.urls
               /\ w.type = 1 => b.type = TelemetryTypes[1]
    <3>1. CASE k \in DOMAIN answers
      <4>1. answers'[k] = answers[k] /\ answers[k].ep \in Endpoints
        BY <3>1, <2>1, <1>8
      <4>2. /\ poll'[answers[k].ep].type = poll[answers[k].ep].type
            /\ poll'[answers[k].ep].urls \subseteq poll[answers[k].ep].urls
        BY <4>1, <2>4, <1>12, <1>14
      <4> QED BY <3>1, <4>1, <4>2, <2>4 DEF OnceInv
    <3>2. CASE k = n
      <4>1. answers'[k] = a /\ poll'[a.ep] = r
        BY <3>2, <1>6, <1>8, <1>14
      <4> QED BY <4>1, <2>4, <1>6, <1>12
    <3> QED BY <3>1, <3>2, <1>8
  <2> QED BY <2>3, <2>4, <1>1 DEF OnceInv
<1>18. SentInv'
  <2>1. \A k \in DOMAIN sent : answers'[sent[k].answer] = answers[sent[k].answer]
    BY <1>8 DEF SentInv
  <2> QED BY <2>1, <1>1, <1>8 DEF SentInv
<1>19. ProgressInv'
  <2>0. \A x \in DOMAIN sent : sent[x].answer \in DOMAIN answers
    BY DEF SentInv
  <2>1. ASSUME NEW k \in DOMAIN answers, NEW j \in DOMAIN answers[k].events
        PROVE  (Waits(k, j)' <=> Waits(k, j)) /\ (IsSent(k, j)' <=> IsSent(k, j))
    <3>1. ASSUME poll[e].answer = k PROVE ~(poll[e].next <= j)
      <4>1. poll[e].events = answers[k].events
        BY <3>1, <1>4 DEF WorkInv
      <4>2. /\ IsSequence(poll[e].events) /\ poll[e].next \in Nat
            /\ poll[e].next > Len(poll[e].events)
        BY <1>1, <1>2 DEF IsPoll, AllSent
      <4>3. j \in 1 .. Len(poll[e].events) /\ Len(poll[e].events) \in Nat
        BY <4>1, <4>2 DEF IsSequence
      <4> QED BY <4>2, <4>3
    <3>2. poll'[e].answer = k => ~(poll'[e].next <= j)
      BY <3>1, <1>8, <1>12, <1>14
    <3> QED BY <3>1, <3>2, <1>1, <1>14 DEF Waits, IsSent
  <2>2. ASSUME NEW j \in DOMAIN evs
        PROVE  /\ ~IsSent(n, j)'
               /\ ~panicked' => Waits(n, j)'
    <3>1. j \in Nat /\ 1 <= j
      BY <1>11 DEF IsSequence
    <3>2. ~IsSent(n, j)'
      BY <2>0, <1>1, <1>8 DEF IsSent
    <3>3. ~panicked' => poll'[e].answer = n /\ poll'[e].next <= j
      BY <3>1, <1>12, <1>14
    <3> QED BY <3>2, <3>3, <1>1 DEF Waits
  <2>3. panicked' => DOMAIN evs = {}
    <3>1. panicked' => evs = <<>>
      BY <1>5
    <3> QED BY <3>1
  <2>4. ASSUME NEW k \in DOMAIN answers', NEW j \in DOMAIN answers'[k].events
        PROVE  /\ \/ PollTopic(answers'[k].events[j].id) = NoTopic
                  \/ IsSent(k, j)' \/ Waits(k, j)'
               /\ ~(IsSent(k, j)' /\ Waits(k, j)')
    <3>1. CASE k \in DOMAIN answers
      <4>1. answers'[k] = answers[k]
        BY <3>1, <1>8
      <4> QED BY <3>1, <4>1, <2>1 DEF ProgressInv
    <3>2. CASE k = n
      BY <3>2, <2>2, <2>3, <1>6, <1>8
    <3> QED BY <3>1, <3>2, <1>8
  <2> QED BY <2>4 DEF ProgressInv
<1> QED BY <1>9, <1>14, <1>15, <1>16, <1>17, <1>18, <1>19

\* Polling keeps the invariant; what the goroutines hold is not touched.
LEMMA CollectKeeps ==
  ASSUME IInv, ~panicked, NEW e \in Endpoints, CollectStep(e)
  PROVE  /\ CollectInv' /\ ChannelInv'
         /\ UNCHANGED <<taken, proc, log, refused>>
         /\ \A i \in 1 .. taken : sent'[i] = sent[i]
<1> USE DEF IInv
<1>c. /\ taken \in Nat /\ Len(sent) \in Nat /\ taken <= Len(sent)
      /\ nfaults \in Nat /\ nfaults <= MaxFaults /\ MaxFaults \in Nat
      /\ Capacity \in Nat /\ IsSequence(sent)
  BY OnChannel, Limits DEF ChannelInv
<1>1. CASE StartPoll(e) \/ NextType(e)
  <2>1. CollectInv'
    BY <1>1, StartKeeps, NextKeeps
  <2>2. UNCHANGED <<sent, taken, proc, log, refused, panicked, nfaults>>
    BY <1>1 DEF StartPoll, NextType
  <2> QED BY <2>1, <2>2 DEF ChannelInv
<1>2. CASE Send(e)
  <2>1. /\ CollectInv'
        /\ sent' = sent \/ (Cardinality(InFlight) < Capacity /\ Longer(sent', sent, Message(e)))
    BY <1>2, <1>c, SendKeeps
  <2>2. UNCHANGED <<taken, proc, log, refused, panicked, nfaults>>
    BY <1>2 DEF Send
  <2>3. CASE sent' = sent
    BY <2>1, <2>2, <2>3 DEF ChannelInv
  <2>4. CASE Cardinality(InFlight) < Capacity /\ Longer(sent', sent, Message(e))
    <3>1. Len(sent) - taken < Capacity
      BY <2>4, OnChannel
    <3>2. /\ IsSequence(sent') /\ Len(sent') = Len(sent) + 1 /\ DOMAIN sent = 1 .. Len(sent)
          /\ \A i \in DOMAIN sent : sent'[i] = sent[i]
      BY <2>4 DEF Longer
    <3>3. taken' \in 0 .. Len(sent') /\ Len(sent') - taken' <= Capacity
      BY <3>1, <3>2, <2>2, <1>c
    <3>4. ChannelInv'
      BY <3>2, <3>3, <2>2 DEF ChannelInv
    <3>5. \A i \in 1 .. taken : i \in 1 .. Len(sent)
      BY <1>c
    <3> QED BY <2>1, <2>2, <3>2, <3>4, <3>5
  <2> QED BY <2>1, <2>3, <2>4
<1>3. ASSUME NEW u \in poll[e].urls, RequestFails(e, u)
      PROVE  /\ CollectInv' /\ ChannelInv'
             /\ UNCHANGED <<sent, taken, proc, log, refused>>
  <2>1. CollectInv'
    BY <1>3, FailKeeps
  <2>2. /\ nfaults < MaxFaults /\ nfaults' = nfaults + 1
        /\ UNCHANGED <<sent, taken, proc, log, refused, panicked>>
    BY <1>3 DEF RequestFails
  <2>3. nfaults' \in 0 .. MaxFaults
    BY <2>2, <1>c
  <2> QED BY <2>1, <2>2, <2>3 DEF ChannelInv
<1>4. ASSUME NEW u \in poll[e].urls, NEW p \in Payloads[fleet[e]][u], Answer(e, u, p)
      PROVE  /\ CollectInv' /\ ChannelInv'
             /\ UNCHANGED <<sent, taken, proc, log, refused>>
  <2>1. CollectInv'
    BY <1>4, AnswerKeeps
  <2>2. UNCHANGED <<sent, taken, proc, log, refused, nfaults>> /\ panicked' \in BOOLEAN
    BY <1>4 DEF Answer, ChannelInv
  <2> QED BY <2>1, <2>2 DEF ChannelInv
<1> QED BY <1>1, <1>2, <1>3, <1>4 DEF CollectStep

\* What polling does not touch.
LEMMA CollectStands ==
  ASSUME CollectInv,
         UNCHANGED <<fleet, poll, npolls, lastPowerState, answers, sent, panicked>>
  PROVE  CollectInv'
<1>1. Endpoints' = Endpoints
  BY DEF Endpoints
<1>2. PollInv' /\ WorkInv'
  BY <1>1 DEF CollectInv, PollInv, WorkInv
<1>3. RememberInv'
  BY <1>1 DEF CollectInv, RememberInv
<1>4. AnswersInv'
  BY <1>1 DEF CollectInv, AnswersInv, IsAnswer, IsHandled, WellFormed
<1>5. OnceInv' /\ SentInv'
  BY DEF CollectInv, OnceInv, SamePoll, SentInv
<1>6. ProgressInv'
  BY <1>1 DEF CollectInv, ProgressInv, IsSent, Waits
<1> QED BY <1>2, <1>3, <1>4, <1>5, <1>6 DEF CollectInv

(***************************************************************************)
(* The goroutines that pass the messages on.                               *)
(***************************************************************************)
\* More messages on the channel are nothing to the goroutines.
LEMMA ChannelGrows ==
  ASSUME WriteInv, UNCHANGED <<taken, proc, log, refused>>,
         \A i \in 1 .. taken : sent'[i] = sent[i]
  PROVE  WriteInv'
BY DEF WriteInv, HoldInv, LogInv, AheadInv, PlaceInv

\* A message is received by a goroutine that has none.
LEMMA TakeKeeps ==
  ASSUME IInv, NEW p \in Processors, Take(p)
  PROVE  ChannelInv' /\ WriteInv'
<1> USE DEF IInv, WriteInv
<1>c. /\ taken \in Nat /\ taken < Len(sent) /\ Len(sent) \in Nat /\ Capacity \in Nat
  BY OnChannel, Limits DEF Take
<1>1. /\ proc[p].msg = 0 /\ proc[p].broker = 1
      /\ taken' = taken + 1 /\ proc' = [proc EXCEPT ![p] = [proc[p] EXCEPT !.msg = taken + 1]]
      /\ UNCHANGED <<sent, log, refused, panicked, nfaults>>
  BY DEF Take, IdleProcessor
<1>2. \A q \in Processors : /\ proc'[q].msg = IF q = p THEN taken + 1 ELSE proc[q].msg
                            /\ proc'[q].broker = proc[q].broker
                            /\ proc[q].msg \in Nat /\ proc[q].broker \in Nat
  BY <1>1, BrokerNumbers DEF HoldInv
<1>3. ChannelInv'
  BY <1>1, <1>c DEF ChannelInv
<1>4. HoldInv'
  <2>1. proc' \in [Processors -> [msg : Nat, broker : Brokers]]
    BY <1>1, <1>c DEF HoldInv
  <2>2. \A q \in Processors : proc[q].msg <= taken
    BY DEF HoldInv
  <2> QED BY <1>1, <1>2, <1>c, <2>1, <2>2 DEF HoldInv
<1>5. \A b \in Brokers : \A n \in DOMAIN log[b] \cup refused[b] :
         n \in Nat /\ 1 <= n /\ n <= taken
  BY <1>c DEF LogInv
<1>6. LogInv'
  BY <1>1, <1>5, <1>c DEF LogInv
<1>7. AheadInv'
  BY <1>1, <1>2, <1>5, <1>c DEF AheadInv
<1>8. PlaceInv'
  <2> SUFFICES ASSUME NEW b \in Brokers, NEW n \in 1 .. taken'
               PROVE  /\ n \in DOMAIN log[b] \cup refused[b] => sent[n].topic \in Publishes[b]
                      /\ \/ n \in DOMAIN log[b] \cup refused[b]
                         \/ sent[n].topic \notin Publishes[b]
                         \/ \E q \in Processors : proc'[q].msg = n /\ proc'[q].broker <= b
                      /\ n \in refused[b] => n \notin DOMAIN log[b]
                      /\ n \in DOMAIN log[b] => log[b][n] = 1
    BY <1>1 DEF PlaceInv
  <2>1. CASE n = taken + 1
    BY <2>1, <1>1, <1>2, <1>5, <1>c, BrokerNumbers
  <2>2. CASE n \in 1 .. taken
    <3>1. ASSUME NEW q \in Processors, proc[q].msg = n PROVE q # p
      BY <2>2, <3>1, <1>1
    <3> QED BY <2>2, <3>1, <1>2 DEF PlaceInv
  <2> QED BY <2>1, <2>2, <1>1, <1>c
<1> QED BY <1>3, <1>4, <1>6, <1>7, <1>8

\* A goroutine goes on to the next broker, when this one does not publish the
\* topic, has the message or refused it.
LEMMA RoundKeeps ==
  ASSUME WriteInv, taken \in Nat, NEW p \in Processors, NEW b \in Brokers,
         b = proc[p].broker, NEW n \in Nat, n = proc[p].msg, n # 0,
         NextBroker(p), UNCHANGED <<sent, taken>>,
         \/ sent[n].topic \notin Publishes[b] /\ UNCHANGED <<log, refused>>
         \/ /\ sent[n].topic \in Publishes[b] /\ UNCHANGED refused
            /\ log' = [log EXCEPT ![b] = log[b] (+) SetToBag({n})]
         \/ /\ sent[n].topic \in Publishes[b] /\ UNCHANGED log
            /\ refused' = [refused EXCEPT ![b] = refused[b] \cup {n}]
  PROVE  WriteInv'
<1> USE DEF WriteInv
<1>n. /\ n \in 1 .. taken /\ proc[p].broker \in Brokers /\ b \in Nat
      /\ n \notin DOMAIN log[b] /\ n \notin refused[b]
      /\ \A x \in Brokers : x \in Nat
  BY BrokerNumbers DEF HoldInv, AheadInv
<1>1. /\ proc' \in [Processors -> [msg : Nat, broker : Brokers]]
      /\ \A q \in Processors : q # p => proc'[q] = proc[q]
      /\ \/ b = NBrokers /\ proc'[p].msg = 0 /\ proc'[p].broker = 1
         \/ b # NBrokers /\ proc'[p].msg = n /\ proc'[p].broker = b + 1
  <2>1. CASE b = NBrokers
    <3>1. proc' = [proc EXCEPT ![p] = IdleProcessor]
      BY <2>1 DEF NextBroker, HoldInv
    <3>2. IdleProcessor \in [msg : Nat, broker : Brokers]
      BY BrokerNumbers DEF IdleProcessor
    <3>3. proc' \in [Processors -> [msg : Nat, broker : Brokers]]
      BY <3>1, <3>2 DEF HoldInv
    <3> QED BY <2>1, <3>1, <3>3 DEF HoldInv, IdleProcessor
  <2>2. CASE b # NBrokers
    <3>1. proc' = [proc EXCEPT ![p] = [proc[p] EXCEPT !.broker = b + 1]]
      BY <2>2 DEF NextBroker, HoldInv
    <3>2. b + 1 \in Brokers
      BY <2>2, BrokerNumbers DEF Brokers
    <3>3. [proc[p] EXCEPT !.broker = b + 1] \in [msg : Nat, broker : Brokers]
      BY <3>2 DEF HoldInv
    <3> QED BY <2>2, <3>1, <3>3 DEF HoldInv
  <2> QED BY <2>1, <2>2
<1>2. HoldInv'
  <2>1. /\ \A q \in Processors : proc'[q].msg <= taken
        /\ \A q \in Processors : proc'[q].msg = 0 => proc'[q].broker = 1
    BY <1>1, <1>n DEF HoldInv
  <2>2. \A q \in Processors : proc'[q].msg = 0 \/ proc'[q].msg = proc[q].msg
    BY <1>1
  <2>3. \A q, x \in Processors : proc'[q].msg = proc'[x].msg /\ proc'[q].msg # 0 => q = x
    BY <2>2 DEF HoldInv
  <2> QED BY <1>1, <2>1, <2>3 DEF HoldInv
<1>3. \A x \in Brokers :
        /\ x # b => log'[x] = log[x] /\ refused'[x] = refused[x]
        /\ sent[n].topic \notin Publishes[b] =>
             log'[x] = log[x] /\ refused'[x] = refused[x]
  BY DEF LogInv
<1>4. sent[n].topic \in Publishes[b] =>
        \/ /\ DOMAIN log'[b] = DOMAIN log[b] \cup {n} /\ refused'[b] = refused[b]
           /\ log'[b][n] = 1 /\ \A k \in DOMAIN log[b] : log'[b][k] = log[b][k]
        \/ /\ log'[b] = log[b] /\ refused'[b] = refused[b] \cup {n}
  <2>1. \A k \in DOMAIN log[b] : log[b][k] \in Nat
    BY DEF PlaceInv, LogInv
  <2> DEFINE C == log[b] (+) SetToBag({n})
  <2>2. /\ DOMAIN C = DOMAIN log[b] \cup {n} /\ C[n] = 1
        /\ \A k \in DOMAIN log[b] : C[k] = log[b][k]
    <3> DEFINE B == log[b]
    <3>1. n \notin DOMAIN B /\ \A k \in DOMAIN B : B[k] \in Nat
      BY <1>n, <2>1
    <3> HIDE DEF B
    <3>2. /\ DOMAIN (B (+) SetToBag({n})) = DOMAIN B \cup {n}
          /\ (B (+) SetToBag({n}))[n] = 1
          /\ \A k \in DOMAIN B : (B (+) SetToBag({n}))[k] = B[k]
      BY <3>1 DEF SetToBag, (+)
    <3> QED BY <3>2 DEF B
  <2> HIDE DEF C
  <2>3. CASE log' = [log EXCEPT ![b] = C] /\ refused' = refused
    <3>1. log'[b] = C
      BY <2>3 DEF LogInv
    <3> QED BY <2>2, <2>3, <3>1
  <2>4. CASE log' = log /\ refused' = [refused EXCEPT ![b] = refused[b] \cup {n}]
    BY <2>4 DEF LogInv
  <2> QED BY <2>3, <2>4 DEF C
<1>5. \A x \in Brokers :
        /\ DOMAIN log'[x] \cup refused'[x] \subseteq DOMAIN log[x] \cup refused[x] \cup {n}
        /\ x # b => DOMAIN log'[x] \cup refused'[x] = DOMAIN log[x] \cup refused[x]
  BY <1>3, <1>4
<1>6. LogInv'
  <2>1. log' = [x \in Brokers |-> log'[x]]
    BY DEF LogInv
  <2>2. refused' \in [Brokers -> SUBSET Nat]
    BY DEF LogInv
  <2>3. \A x \in Brokers : DOMAIN log'[x] \cup refused'[x] \subseteq 1 .. taken
    BY <1>5, <1>n DEF LogInv
  <2> QED BY <2>1, <2>2, <2>3 DEF LogInv
<1>7. AheadInv'
  <2> SUFFICES ASSUME NEW q \in Processors, NEW x \in Brokers,
                      proc'[q].msg # 0, proc'[q].broker <= x
               PROVE  proc'[q].msg \notin DOMAIN log'[x] \cup refused'[x]
    BY DEF AheadInv
  <2>1. CASE q = p
    <3>1. proc'[q].msg = n /\ proc'[q].broker = b + 1
      BY <2>1, <1>1
    <3>2. x # b /\ proc[p].broker <= x
      BY <3>1, <1>n
    <3> QED BY <3>1, <3>2, <1>5 DEF AheadInv
  <2>2. CASE q # p
    <3>1. proc[q].msg # n /\ proc'[q] = proc[q]
      BY <2>2, <1>1 DEF HoldInv
    <3>2. proc[q].msg \notin DOMAIN log[x] \cup refused[x]
      BY <3>1 DEF AheadInv
    <3> QED BY <3>1, <3>2, <1>5
  <2> QED BY <2>1, <2>2
<1>8. PlaceInv'
  <2> SUFFICES ASSUME NEW x \in Brokers, NEW k \in 1 .. taken
               PROVE  /\ k \in DOMAIN log'[x] \cup refused'[x] => sent[k].topic \in Publishes[x]
                      /\ \/ k \in DOMAIN log'[x] \cup refused'[x]
                         \/ sent[k].topic \notin Publishes[x]
                         \/ \E q \in Processors : proc'[q].msg = k /\ proc'[q].broker <= x
                      /\ k \in refused'[x] => k \notin DOMAIN log'[x]
                      /\ k \in DOMAIN log'[x] => log'[x][k] = 1
    BY DEF PlaceInv
  <2>1. k \in DOMAIN log'[x] \cup refused'[x] => sent[k].topic \in Publishes[x]
    BY <1>3, <1>4, <1>5 DEF PlaceInv
  <2>2. k \in refused'[x] => k \notin DOMAIN log'[x]
    BY <1>3, <1>4, <1>n DEF PlaceInv
  <2>3. k \in DOMAIN log'[x] => log'[x][k] = 1
    BY <1>3, <1>4, <1>n DEF PlaceInv
  <2>4. \/ k \in DOMAIN log'[x] \cup refused'[x]
        \/ sent[k].topic \notin Publishes[x]
        \/ \E q \in Processors : proc'[q].msg = k /\ proc'[q].broker <= x
    <3>1. CASE k \in DOMAIN log[x] \cup refused[x]
      BY <3>1, <1>3, <1>4
    <3>2. ASSUME NEW q \in Processors, proc[q].msg = k, proc[q].broker <= x,
                 sent[k].topic \in Publishes[x]
          PROVE  \/ k \in DOMAIN log'[x] \cup refused'[x]
                 \/ \E r \in Processors : proc'[r].msg = k /\ proc'[r].broker <= x
      <4>1. CASE q # p
        BY <4>1, <3>2, <1>1
      <4>2. CASE q = p /\ x = b
        BY <4>2, <3>2, <1>4
      <4>3. CASE q = p /\ x # b
        <5>0. k = n /\ b <= x
          BY <4>3, <3>2
        <5>1. k = n /\ b < x
          BY <4>3, <5>0, <1>n
        <5>2. b # NBrokers /\ b + 1 <= x
          BY <5>1, <1>n, BrokerNumbers
        <5> QED BY <5>1, <5>2, <1>1
      <4> QED BY <4>1, <4>2, <4>3
    <3> QED BY <3>1, <3>2 DEF PlaceInv
  <2> QED BY <2>1, <2>2, <2>3, <2>4
<1> QED BY <1>2, <1>6, <1>7, <1>8

\* Every step of a goroutine keeps the invariant.
LEMMA ProcessKeeps ==
  ASSUME IInv, NEW p \in Processors, ProcessStep(p)
  PROVE  IInv'
<1>0. UNCHANGED <<fleet, poll, npolls, lastPowerState, answers, sent, panicked>>
  BY DEF ProcessStep, Take, WriteSkip, Write, WriteRefused
<1>1. CollectInv'
  BY <1>0, CollectStands DEF IInv
<1>2. CASE Take(p)
  BY <1>1, <1>2, TakeKeeps DEF IInv
<1>3. CASE WriteSkip(p) \/ Write(p) \/ WriteRefused(p)
  <2> DEFINE b == proc[p].broker
             n == proc[p].msg
  <2>1. b \in Brokers /\ n \in Nat /\ taken \in Nat
    BY OnChannel DEF IInv, WriteInv, HoldInv
  <2>2. n # 0 /\ NextBroker(p) /\ UNCHANGED <<sent, taken, panicked>>
    BY <1>3 DEF WriteSkip, Write, WriteRefused, Wants
  <2>3. \/ sent[n].topic \notin Publishes[b] /\ UNCHANGED <<log, refused>>
        \/ /\ sent[n].topic \in Publishes[b] /\ UNCHANGED refused
           /\ log' = [log EXCEPT ![b] = log[b] (+) SetToBag({n})]
        \/ /\ sent[n].topic \in Publishes[b] /\ UNCHANGED log
           /\ refused' = [refused EXCEPT ![b] = refused[b] \cup {n}]
    BY <1>3, <2>1 DEF WriteSkip, Write, WriteRefused, Wants, IInv, WriteInv, LogInv
  <2>4. WriteInv'
    <3> HIDE DEF b, n
    <3>1. b = proc[p].broker /\ n = proc[p].msg
      BY DEF b, n
    <3> QED BY <2>1, <2>2, <2>3, <3>1, RoundKeeps DEF IInv
  <2>5. nfaults' \in 0 .. MaxFaults
    BY <1>3, Limits DEF WriteSkip, Write, WriteRefused, IInv, ChannelInv
  <2>6. ChannelInv'
    BY <2>2, <2>5 DEF IInv, ChannelInv
  <2> QED BY <1>1, <2>4, <2>6 DEF IInv
<1> QED BY <1>2, <1>3 DEF ProcessStep

(***************************************************************************)
(* The theorems.                                                           *)
(***************************************************************************)
\* At the start nothing is polled, on the channel or with a broker.
LEMMA Start == Init => IInv
<1> SUFFICES ASSUME Init PROVE IInv
  OBVIOUS
<1>0. /\ fleet \in Fleets /\ poll = [e \in Endpoints |-> IdlePoll]
      /\ npolls = [e \in Endpoints |-> 0] /\ answers = <<>> /\ sent = <<>> /\ taken = 0
      /\ proc = [p \in Processors |-> IdleProcessor]
      /\ log = [b \in Brokers |-> EmptyBag] /\ refused = [b \in Brokers |-> {}]
      /\ panicked = FALSE /\ nfaults = 0
  BY DEF Init
<1>1. lastPowerState =
        [e \in Endpoints |->
           [o \in IF fleet[e] = "hpepdu" THEN Urls["hpepdu"]["Power"] ELSE {} |-> ""]]
  BY DEF Init
<1>2. \A e \in Endpoints : MaxPolls[fleet[e]] \in Nat
  BY <1>0, TelemetryAssumption DEF Endpoints
<1>3. PollInv
  <2>1. poll = [e \in Endpoints |-> poll[e]] /\ \A e \in Endpoints : IsPoll(poll[e])
    BY <1>0, IdleIsPoll
  <2>2. npolls \in [Endpoints -> Nat] /\ \A e \in Endpoints : npolls[e] <= MaxPolls[fleet[e]]
    BY <1>0, <1>2
  <2> QED BY <1>0, <2>1, <2>2 DEF PollInv
<1>4. IsSequence(<<>>) /\ Len(<<>>) = 0
  BY DEF IsSequence
<1>5. ChannelInv
  <2>1. 0 \in 0 .. 0 /\ 0 - 0 <= Capacity /\ 0 \in 0 .. MaxFaults
    BY Limits
  <2> QED BY <1>0, <1>4, <2>1 DEF ChannelInv
<1>6. IdleProcessor \in [msg : Nat, broker : Brokers] /\ IdleProcessor.msg = 0
      /\ IdleProcessor.broker = 1
  BY BrokerNumbers DEF IdleProcessor
<1>7. HoldInv
  <2>1. \A p \in Processors : proc[p] = IdleProcessor
    BY <1>0
  <2>2. proc \in [Processors -> [msg : Nat, broker : Brokers]]
    BY <1>0, <1>6
  <2> QED BY <1>0, <1>6, <2>1, <2>2 DEF HoldInv
<1>8. DOMAIN EmptyBag = {}
  BY DEF EmptyBag, SetToBag
<1>9. LogInv /\ AheadInv /\ PlaceInv
  <2>1. \A b \in Brokers : DOMAIN log[b] = {} /\ refused[b] = {}
    BY <1>0, <1>8
  <2>2. log = [b \in Brokers |-> log[b]] /\ refused \in [Brokers -> SUBSET Nat]
    BY <1>0
  <2>3. \A n \in 1 .. taken : FALSE
    BY <1>0
  <2> QED BY <2>1, <2>2, <2>3 DEF LogInv, AheadInv, PlaceInv
<1>10. DOMAIN answers = {} /\ DOMAIN sent = {}
  BY <1>0
<1>11. WorkInv
  BY <1>0, IdleIsPoll DEF WorkInv
<1>12. RememberInv
  <2>1. \A e, o : StateIn(<<>>, e, o, 1) = ""
    <3>1. 1 .. 1 - 1 = {}
      OBVIOUS
    <3> QED BY <3>1 DEF StateIn, Seen
  <2>2. \A v, e : SensorsBefore(v, <<>>, e, 1) =
                  [o \in IF v = "hpepdu" THEN Urls["hpepdu"]["Power"] ELSE {} |-> ""]
    BY <2>1 DEF SensorsBefore
  <2>3. answers = <<>> /\ Len(answers) + 1 = 1
    BY <1>0, <1>4
  <2>4. \A e \in Endpoints :
          SensorsBefore(fleet[e], answers, e, Len(answers) + 1) =
            [o \in IF fleet[e] = "hpepdu" THEN Urls["hpepdu"]["Power"] ELSE {} |-> ""]
    BY <2>2, <2>3
  <2> QED BY <1>1, <2>4 DEF RememberInv
<1>13. AnswersInv /\ OnceInv /\ SentInv /\ ProgressInv
  BY <1>0, <1>4, <1>10 DEF AnswersInv, OnceInv, SentInv, ProgressInv
<1> QED BY <1>3, <1>5, <1>7, <1>9, <1>11, <1>12, <1>13 DEF IInv, CollectInv, WriteInv

\* Every step keeps the invariant.
LEMMA StepKeeps == IInv /\ [Next]_vars => IInv'
<1> SUFFICES ASSUME IInv, [Next]_vars PROVE IInv'
  OBVIOUS
<1>1. CASE UNCHANGED vars
  <2>1. CollectInv'
    BY <1>1, CollectStands DEF vars, IInv
  <2> QED BY <1>1, <2>1 DEF vars, IInv, ChannelInv, WriteInv, HoldInv, LogInv, AheadInv, PlaceInv
<1>2. ASSUME ~panicked, NEW e \in Endpoints, CollectStep(e) PROVE IInv'
  BY <1>2, CollectKeeps, ChannelGrows DEF IInv
<1>3. ASSUME NEW p \in Processors, ProcessStep(p) PROVE IInv'
  BY <1>3, ProcessKeeps
<1> QED BY <1>1, <1>2, <1>3 DEF Next, Done

\* The invariant holds in every reachable state.
THEOREM Invariant == Spec => []IInv
BY Start, StepKeeps, PTL DEF Spec

\* Type correctness; never more messages are on the channel than it holds.
THEOREM TypeCorrect == Spec => []TypeOK
<1>1. IInv => TypeOK
  <2> SUFFICES ASSUME IInv PROVE TypeOK
    OBVIOUS
  <2>1. \A e \in Endpoints :
          /\ poll[e].type \in 0 .. Len(TelemetryTypes) /\ poll[e].urls \subseteq AllUrls
          /\ poll[e].next \in 1 .. Len(poll[e].events) + 1
          /\ poll[e].answer \in 0 .. Len(answers)
    <3> SUFFICES ASSUME NEW e \in Endpoints
                 PROVE  /\ poll[e].type \in 0 .. Len(TelemetryTypes)
                        /\ poll[e].urls \subseteq AllUrls
                        /\ poll[e].next \in 1 .. Len(poll[e].events) + 1
                        /\ poll[e].answer \in 0 .. Len(answers)
      OBVIOUS
    <3>1. /\ IsPoll(poll[e]) /\ IsSequence(answers)
          /\ poll[e].answer = 0 \/ poll[e].answer \in DOMAIN answers
      BY DEF IInv, CollectInv, PollInv, WorkInv, AnswersInv
    <3>2. Len(answers) \in Nat /\ DOMAIN answers = 1 .. Len(answers)
      BY <3>1 DEF IsSequence
    <3>3. Len(poll[e].events) \in Nat
      BY <3>1 DEF IsPoll, IsSequence
    <3>4. poll[e].next \in Nat \ {0} /\ poll[e].next <= Len(poll[e].events) + 1
      BY <3>1 DEF IsPoll
    <3> QED BY <3>1, <3>2, <3>3, <3>4, Types DEF IsPoll
  <2>2. \A e \in Endpoints : npolls[e] \in 0 .. MaxPolls[fleet[e]]
    BY TelemetryAssumption DEF IInv, CollectInv, PollInv, Endpoints
  <2>3. Cardinality(InFlight) <= Capacity
    BY OnChannel DEF IInv, ChannelInv
  <2>4. \A p \in Processors : proc[p].msg \in 0 .. taken /\ proc[p].broker \in Brokers
    BY OnChannel DEF IInv, WriteInv, HoldInv
  <2>5. \A b \in Brokers : BagToSet(log[b]) \cup refused[b] \subseteq 1 .. taken
    BY DEF IInv, WriteInv, LogInv, BagToSet
  <2> QED BY <2>1, <2>2, <2>3, <2>4, <2>5 DEF IInv, CollectInv, PollInv, ChannelInv, TypeOK
<1> QED BY <1>1, Invariant, PTL

\* However the processData goroutines interleave: a message nobody holds any
\* more is with every broker that publishes its topic exactly once, or was
\* refused there, and with no other (kafka.go 58-88).
THEOREM EachPassedOnOnce == Spec => []PassedOnOnce
<1>1. IInv => PassedOnOnce
  BY DEF IInv, WriteInv, PlaceInv, PassedOnOnce, BagToSet
<1> QED BY <1>1, Invariant, PTL

\* With any number of goroutines on the channel an event is overtaken by
\* fewer than there are of them (polling.go 465-468).
THEOREM DisorderIsBounded == Spec => BoundedDisorder
<1>1. ASSUME IInv, [Next]_vars, NEW b \in Brokers,
             NEW new \in BagToSet(log'[b]) \ BagToSet(log[b])
      PROVE  Cardinality({n \in 1 .. new - 1 :
                            /\ sent[n].topic \in Publishes[b]
                            /\ n \notin BagToSet(log[b]) \cup refused[b]})
               < Cardinality(Processors)
  <2> DEFINE Missing == {n \in 1 .. new - 1 :
                           /\ sent[n].topic \in Publishes[b]
                           /\ n \notin BagToSet(log[b]) \cup refused[b]}
  <2>1. PICK p \in Processors : Write(p)
    <3>1. log' # log
      BY <1>1
    <3> QED BY <1>1, <3>1, CollectKeeps
            DEF Next, Done, vars, ProcessStep, Take, WriteSkip, WriteRefused
  <2>2. new = proc[p].msg /\ new \in 1 .. taken /\ taken \in Nat
    <3>1. /\ log' = [log EXCEPT ![proc[p].broker] = log[proc[p].broker] (+) SetToBag({proc[p].msg})]
          /\ proc[p].msg # 0
      BY <2>1 DEF Write, Wants, IInv, WriteInv, LogInv
    <3>2. log'[b] = log[b] (+) SetToBag({proc[p].msg})
      BY <3>1 DEF IInv, WriteInv, LogInv
    <3>4. DOMAIN log'[b] \subseteq DOMAIN log[b] \cup {proc[p].msg}
      BY <3>2 DEF SetToBag, (+)
    <3>3. new = proc[p].msg
      BY <3>4, <1>1 DEF BagToSet
    <3> QED BY <1>1, <3>1, <3>3, OnChannel DEF IInv, WriteInv, HoldInv
  <2> DEFINE Others == Processors \ {p}
             Held == {proc[q].msg : q \in Others}
  <2>3. Missing \subseteq Held
    <3> SUFFICES ASSUME NEW n \in Missing PROVE n \in Held
      OBVIOUS
    <3>0. n \in 1 .. new - 1
      OBVIOUS
    <3>3. n \in 1 .. taken /\ n # new
      BY <2>2, <3>0
    <3>1. /\ n \in 1 .. taken /\ n # new /\ sent[n].topic \in Publishes[b]
          /\ n \notin DOMAIN log[b] \cup refused[b]
      BY <3>3 DEF BagToSet
    <3>2. PICK q \in Processors : proc[q].msg = n
      BY <1>1, <3>1 DEF IInv, WriteInv, PlaceInv
    <3> QED BY <2>2, <3>1, <3>2
  <2>4. /\ IsFiniteSet(Others) /\ Cardinality(Others) = Cardinality(Processors) - 1
        /\ Cardinality(Processors) \in Nat
    BY Limits, FS_RemoveElement, FS_CardinalityType
  <2>5. IsFiniteSet(Held) /\ Cardinality(Held) <= Cardinality(Others)
    <3> DEFINE f == [q \in Others |-> proc[q].msg]
    <3>1. f \in Surjection(Others, Held)
      BY DEF Surjection
    <3> QED BY <2>4, <3>1, FS_Surjection
  <2> HIDE DEF Missing, Others, Held
  <2>6. Cardinality(Missing) <= Cardinality(Held)
    BY <2>3, <2>5, FS_Subset
  <2>7. Cardinality(Missing) \in Nat /\ Cardinality(Held) \in Nat /\ Cardinality(Others) \in Nat
    BY <2>3, <2>4, <2>5, FS_Subset, FS_CardinalityType
  <2>8. Cardinality(Missing) < Cardinality(Processors)
    BY <2>4, <2>5, <2>6, <2>7
  <2> QED BY <2>8 DEF Missing
<1>2. IInv /\ [Next]_vars =>
        [\A b \in Brokers : \A new \in BagToSet(log'[b]) \ BagToSet(log[b]) :
           Cardinality({n \in 1 .. new - 1 :
                          /\ sent[n].topic \in Publishes[b]
                          /\ n \notin BagToSet(log[b]) \cup refused[b]})
             < Cardinality(Processors)]_vars
  BY <1>1
<1> QED BY <1>2, Invariant, PTL DEF Spec, BoundedDisorder

(***************************************************************************)
(* From the payloads to the brokers.                                       *)
(***************************************************************************)
\* Every event of a collector has a topic, the one parseRequest gives it.
LEMMA TopicsAgree ==
  \A id \in MessageId : PollTopic(id) = RestTopic(AsSent(id)) /\ PollTopic(id) # NoTopic
<1>1. /\ PollTopic("Power") = "cray-telemetry-power"
      /\ PollTopic("Current") = "cray-telemetry-power"
      /\ PollTopic("Voltage") = "cray-telemetry-voltage"
      /\ PollTopic("Energy") = "cray-telemetry-energy"
      /\ PollTopic("Temperature") = "cray-telemetry-temperature"
      /\ PollTopic("Fan") = "cray-telemetry-fan"
      /\ PollTopic("ResourcePowerStateChanged") = "cray-dmtf-resource-event"
  BY DEF PollTopic
<1>2. RestTopic(AsSent("ResourcePowerStateChanged")) = "cray-dmtf-resource-event"
  BY DEF RestTopic, AsSent
<1>3. ASSUME NEW id \in Sensor \ {"other"}, id # "ResourcePowerStateChanged"
      PROVE  RestTopic(AsSent(id)) = SensorTopic[id]
  <2>1. AsSent(id).registry = "CrayTelemetry" /\ AsSent(id).sensor = id
    BY <1>3 DEF AsSent
  <2>2. id \in DOMAIN SensorTopic
    BY DEF SensorTopic
  <2> QED BY <2>1, <2>2 DEF RestTopic
<1>4. {"Power", "Current", "Voltage", "Energy", "Temperature", "Fan"} \subseteq Sensor \ {"other"}
  BY DEF Sensor
<1>5. /\ SensorTopic["Power"] = "cray-telemetry-power"
      /\ SensorTopic["Current"] = "cray-telemetry-power"
      /\ SensorTopic["Voltage"] = "cray-telemetry-voltage"
      /\ SensorTopic["Energy"] = "cray-telemetry-energy"
      /\ SensorTopic["Temperature"] = "cray-telemetry-temperature"
      /\ SensorTopic["Fan"] = "cray-telemetry-fan"
  BY <1>4 DEF SensorTopic
<1>6. \A id \in MessageId : id = "ResourcePowerStateChanged" \/
        id \in {"Power", "Current", "Voltage", "Energy", "Temperature", "Fan"}
  BY DEF MessageId
<1> QED BY <1>1, <1>2, <1>3, <1>4, <1>5, <1>6 DEF NoTopic

\* As long as nothing has panicked, the events of every answer are what it
\* should give.
LEMMA AnswersMake ==
  ASSUME CollectInv, ~panicked, NEW k \in DOMAIN answers
  PROVE  Makes(answers[k].events, Expected(k))
<1> DEFINE a == answers[k]
<1>1. /\ a.ep \in Endpoints /\ a.type \in TelemetryType
      /\ a.url \in Urls[fleet[a.ep]][a.type] /\ a.payload \in Payloads[fleet[a.ep]][a.url]
      /\ a.events \in GetEventsForPayload(fleet[a.ep], a.type, a.payload,
                                          SensorsBefore(fleet[a.ep], answers, a.ep, k))
  BY DEF CollectInv, AnswersInv, IsAnswer, IsHandled
<1>2. Expected(k) = IF a.payload = Undecodable THEN {}
                    ELSE Meant(fleet[a.ep], a.payload, StateBefore(a.ep, a.payload.Oid, k))
  BY DEF Expected
<1> HIDE DEF a
<1>3. /\ a.payload = Undecodable => a.events = <<>>
      /\ a.payload # Undecodable =>
           Makes(a.events, Meant(fleet[a.ep], a.payload, StateBefore(a.ep, a.payload.Oid, k)))
  BY <1>1, EventsAre
<1>4. Makes(a.events, Expected(k))
  BY <1>2, <1>3, MakesNothing
<1> QED BY <1>4 DEF a

\* Two places in events that make different items hold different ones, and
\* the item of a place is one of those, with the MessageId of its event.
LEMMA MakesApart ==
  ASSUME NEW evs, NEW X, Makes(evs, X), NEW j \in DOMAIN evs, NEW l \in DOMAIN evs,
         NEW i \in DOMAIN Items(evs[j]), NEW h \in DOMAIN Items(evs[l]),
         Items(evs[j])[i] = Items(evs[l])[h]
  PROVE  j = l /\ i = h
BY DEF Makes
LEMMA MakesOnly ==
  ASSUME NEW evs, NEW X, Makes(evs, X), NEW j \in DOMAIN evs,
         NEW i \in DOMAIN Items(evs[j])
  PROVE  /\ Items(evs[j])[i] \in X /\ Items(evs[j])[i].q = evs[j].id
         /\ evs[j].id \in MessageId
BY DEF Makes

\* What a broker got of an answer.
LEMMA BrokersHave ==
  ASSUME IInv, Quiet, ~panicked, NEW k \in DOMAIN answers, NEW b \in Brokers,
         NEW t \in Publishes[b], \A n \in refused[b] : sent[n].answer # k
  PROVE  /\ \A n \in BagToSet(log[b]) : log[b][n] = 1
         /\ \A x, y \in Places(k, b, t) : ItemAt(x) = ItemAt(y) => x = y
         /\ {ItemAt(x) : x \in Places(k, b, t)} =
              {x \in Expected(k) : RestTopic(AsSent(x.q)) = t}
<1>0. Len(sent) \in Nat /\ taken \in 0 .. Len(sent) => taken = Len(sent)
  <2>1. \A n : n \notin (taken + 1) .. Len(sent)
    BY Zenon DEF Quiet, InFlight
  <2>2. ASSUME Len(sent) \in Nat, taken \in 0 .. Len(sent), taken # Len(sent)
        PROVE  FALSE
    <3>1. taken + 1 \in (taken + 1) .. Len(sent)
      BY <2>2
    <3> QED BY <2>1, <3>1, Zenon
  <2> QED BY <2>2
<1> USE DEF IInv, CollectInv
<1> DEFINE evs == answers[k].events
           X == Expected(k)
           Had == DOMAIN log[b]
<1>1. Makes(evs, X)
  BY AnswersMake
<1>2. /\ \A n \in Had : n \in 1 .. taken
      /\ 1 .. taken = DOMAIN sent /\ taken \in Nat
  <2>1. Len(sent) \in Nat /\ DOMAIN sent = 1 .. Len(sent) /\ taken \in 0 .. Len(sent)
    BY DEF ChannelInv, IsSequence
  <2>2. taken = Len(sent)
    BY <1>0, <2>1
  <2> QED BY <2>1, <2>2 DEF WriteInv, LogInv
<1>3. \A n \in Had : log[b][n] = 1
  BY <1>2 DEF WriteInv, PlaceInv
<1>4. BagToSet(log[b]) = Had
  BY DEF BagToSet
\* a place is a message of the answer that the broker has, and an item of it
<1>5. ASSUME NEW x \in Places(k, b, t)
      PROVE  /\ x = <<x[1], x[2]>> /\ x[1] \in Had /\ sent[x[1]].topic = t
             /\ sent[x[1]].answer = k /\ x[2] \in DOMAIN Items(sent[x[1]].ev)
             /\ sent[x[1]].at \in DOMAIN evs /\ sent[x[1]].ev = evs[sent[x[1]].at]
             /\ sent[x[1]].topic = PollTopic(sent[x[1]].ev.id) /\ x[1] \in DOMAIN sent
             /\ ItemAt(x) = Items(evs[sent[x[1]].at])[x[2]]
  <2>1. PICK n \in Had : /\ sent[n].topic = t /\ sent[n].answer = k
                         /\ x \in {<<n, i>> : i \in DOMAIN Items(sent[n].ev)}
    BY <1>4 DEF Places
  <2>2. PICK i \in DOMAIN Items(sent[n].ev) : x = <<n, i>>
    BY <2>1
  <2>3. x[1] = n /\ x[2] = i
    BY <2>2
  <2>4. n \in DOMAIN sent
    BY <1>2
  <2> QED BY <2>1, <2>2, <2>3, <2>4 DEF SentInv, ItemAt
<1>6. ASSUME NEW n \in Had, sent[n].topic = t, sent[n].answer = k,
             NEW i \in DOMAIN Items(sent[n].ev)
      PROVE  <<n, i>> \in Places(k, b, t)
  BY <1>4, <1>6 DEF Places
<1>7. ASSUME NEW x \in Places(k, b, t), NEW y \in Places(k, b, t), ItemAt(x) = ItemAt(y)
      PROVE  x = y
  <2> DEFINE j == sent[x[1]].at
             l == sent[y[1]].at
  <2>3. /\ j \in DOMAIN evs /\ x[2] \in DOMAIN Items(evs[j])
        /\ l \in DOMAIN evs /\ y[2] \in DOMAIN Items(evs[l])
        /\ Items(evs[j])[x[2]] = Items(evs[l])[y[2]]
    BY <1>5, <1>7
  <2> HIDE DEF j, l, evs, X
  <2>4. j = l /\ x[2] = y[2]
    BY <2>3, <1>1, MakesApart
  <2>1. sent[x[1]].at = sent[y[1]].at /\ x[2] = y[2]
    BY <2>4 DEF j, l
  <2>2. x[1] = y[1]
    BY <2>1, <1>5 DEF SentInv
  <2> QED BY <2>1, <2>2, <1>5
<1>8. ASSUME NEW x \in Places(k, b, t)
      PROVE  ItemAt(x) \in X /\ RestTopic(AsSent(ItemAt(x).q)) = t
  <2> DEFINE j == sent[x[1]].at
  <2>1. /\ j \in DOMAIN evs /\ x[2] \in DOMAIN Items(evs[j]) /\ ItemAt(x) = Items(evs[j])[x[2]]
        /\ PollTopic(evs[j].id) = t
    BY <1>5
  <2> HIDE DEF j, evs, X
  <2>2. ItemAt(x) \in X /\ ItemAt(x).q = evs[j].id /\ evs[j].id \in MessageId
    BY <2>1, <1>1, MakesOnly
  <2> QED BY <2>1, <2>2, TopicsAgree
<1>9. ASSUME NEW z \in X, RestTopic(AsSent(z.q)) = t
      PROVE  \E x \in Places(k, b, t) : ItemAt(x) = z
  <2>1. PICK j \in DOMAIN evs : \E i \in DOMAIN Items(evs[j]) : Items(evs[j])[i] = z
    BY <1>1 DEF Makes
  <2>2. PICK i \in DOMAIN Items(evs[j]) : Items(evs[j])[i] = z
    BY <2>1
  <2>3. z.q = evs[j].id /\ evs[j].id \in MessageId
    BY <2>2, <1>1 DEF Makes
  <2>4. PollTopic(evs[j].id) = t /\ PollTopic(evs[j].id) # NoTopic
    BY <2>3, <1>9, TopicsAgree
  <2>5. ~Waits(k, j)
    <3>1. \A e \in Endpoints : poll[e].answer = 0
      BY IdleIsPoll DEF Quiet
    <3>2. k # 0
      BY DEF AnswersInv, IsSequence
    <3> QED BY <3>1, <3>2 DEF Waits
  <2>6. IsSent(k, j)
    BY <2>4, <2>5 DEF ProgressInv
  <2>7. PICK n \in DOMAIN sent : sent[n].answer = k /\ sent[n].at = j
    BY <2>6 DEF IsSent
  <2>8. sent[n].ev = evs[j] /\ sent[n].topic = t
    BY <2>4, <2>7 DEF SentInv
  <2>9. n \in Had
    <3>1. \A p \in Processors : proc[p].msg = 0
      BY DEF Quiet, IdleProcessor
    <3>2. n \in 1 .. taken /\ n # 0
      BY <1>2
    <3>3. n \notin refused[b]
      BY <2>7
    <3>4. sent[n].topic \in Publishes[b]
      BY <2>8
    <3> QED BY <3>1, <3>2, <3>3, <3>4 DEF WriteInv, PlaceInv
  <2> DEFINE x == <<n, i>>
  <2>10. x \in Places(k, b, t)
    BY <2>7, <2>8, <2>9, <1>6
  <2>11. ItemAt(x) = z
    BY <2>2, <2>8 DEF ItemAt
  <2> QED BY <2>10, <2>11
<1> HIDE DEF X, Had
<1>10. {ItemAt(x) : x \in Places(k, b, t)} = {x \in X : RestTopic(AsSent(x.q)) = t}
  <2>1. \A z : z \in {ItemAt(x) : x \in Places(k, b, t)} =>
                z \in {x \in X : RestTopic(AsSent(x.q)) = t}
    BY <1>8
  <2>2. \A z : z \in {x \in X : RestTopic(AsSent(x.q)) = t} =>
                z \in {ItemAt(x) : x \in Places(k, b, t)}
    BY <1>9
  <2> QED BY <2>1, <2>2
<1> QED BY <1>3, <1>4, <1>7, <1>10 DEF X

\* Whatever the vendors, the payloads and their sizes, and however workers
\* and goroutines interleave: once everything polled has been passed on,
\* every reading of every answer is with every broker that publishes its
\* topic exactly once, on the topic parseRequest would have put it on, every
\* change of an outlet's power state with it and nothing else, unless a
\* payload is one a collector panics over (polling.go 108-162, kafka.go 58-88).
THEOREM EverythingDelivered == Spec => []Delivered
<1>1. IInv => Delivered
  <2> SUFFICES ASSUME IInv, panicked \/ Quiet, \A k \in DOMAIN answers : WellFormed(answers[k])
               PROVE  /\ ~panicked
                      /\ \A k \in DOMAIN answers, b \in Brokers : \A t \in Publishes[b] :
                           (\A n \in refused[b] : sent[n].answer # k) =>
                             /\ \A n \in BagToSet(log[b]) : log[b][n] = 1
                             /\ \A x, y \in Places(k, b, t) : ItemAt(x) = ItemAt(y) => x = y
                             /\ {ItemAt(x) : x \in Places(k, b, t)} =
                                  {x \in Expected(k) : RestTopic(AsSent(x.q)) = t}
    BY DEF Delivered
  <2>1. ~panicked
    BY DEF IInv, CollectInv, AnswersInv
  <2> QED BY <2>1, BrokersHave
<1> QED BY <1>1, Invariant, PTL

(***************************************************************************)
(* What a consumer can tell apart.                                         *)
(***************************************************************************)
\* A sensor x of a message, with the events of its answer.
LEMMA SensorFrom ==
  ASSUME CollectInv, NEW n \in DOMAIN sent, NEW x \in Range(sent[n].ev.sensors)
  PROVE  LET a == answers[sent[n].answer] v == fleet[a.ep] IN
         /\ sent[n].answer \in DOMAIN answers /\ IsAnswer(a) /\ v \in Vendor
         /\ a.payload # Undecodable /\ a.payload \in Decoded(v, a.type)
         /\ a.payload \in Mains =>
              \A keys \in {a.payload.PolyPhasePowerWatts, a.payload.PolyPhaseVoltage,
                           a.payload.PolyPhaseCurrentAmps} : IsFiniteSet(keys)
         /\ v = "hpepdu" => a.type = "Power"
         /\ a.events \in GetEventsForPayload(v, a.type, a.payload,
                           SensorsBefore(v, answers, a.ep, sent[n].answer))
         /\ \A D : Tells(a.events, D) => <<sent[n].ev.id, x>> \in D
<1> USE DEF CollectInv
<1> DEFINE k == sent[n].answer
           a == answers[k]
           v == fleet[a.ep]
           j == sent[n].at
<1>1. k \in DOMAIN answers /\ j \in DOMAIN a.events /\ sent[n].ev = a.events[j]
  BY DEF SentInv
<1>2. IsAnswer(a) /\ IsHandled(k)
  BY <1>1 DEF AnswersInv
<1>3. a.events # <<>>
  BY <1>1
<1>4. a.events \in GetEventsForPayload(v, a.type, a.payload, SensorsBefore(v, answers, a.ep, k))
  BY <1>2, <1>3 DEF IsHandled
<1>5. PICK h \in DOMAIN sent[n].ev.sensors : x = sent[n].ev.sensors[h]
  BY DEF Range
<1>6. \A D : Tells(a.events, D) => <<sent[n].ev.id, x>> \in D
  BY <1>1, <1>5 DEF Tells
<1>7. v \in Vendor
  BY <1>2, TelemetryAssumption DEF PollInv, Endpoints, IsAnswer
<1>8. a.payload # Undecodable
  BY <1>3, <1>4 DEF GetEventsForPayload
<1> HIDE DEF k, a, v, j
<1>9. /\ a.type \in TelemetryType /\ a.url \in Urls[v][a.type] /\ a.payload \in Payloads[v][a.url]
  BY <1>2 DEF IsAnswer, v
<1>10. /\ a.payload \in Decoded(v, a.type)
       /\ a.payload \in Mains =>
            \A keys \in {a.payload.PolyPhasePowerWatts, a.payload.PolyPhaseVoltage,
                         a.payload.PolyPhaseCurrentAmps} : IsFiniteSet(keys)
       /\ v = "hpepdu" => a.type = "Power"
  BY <1>7, <1>8, <1>9, PayloadsDecode
<1> QED BY <1>1, <1>2, <1>4, <1>6, <1>7, <1>8, <1>10 DEF k, a, v

\* Sensors of one answer.
LEMMA OneAnswer ==
  ASSUME NEW evs, NEW D, Tells(evs, D), NEW id, NEW x, NEW y,
         <<id, x>> \in D, <<id, y>> \in D, Same(x, y)
  PROVE  x = y
<1>1. Told(D)
  BY DEF Tells
<1> DEFINE X == <<id, x>>
           Y == <<id, y>>
<1>2. X[1] = Y[1] /\ X[2] = x /\ Y[2] = y
  OBVIOUS
<1> HIDE DEF X, Y
<1>3. X \in D /\ Y \in D
  BY DEF X, Y
<1> QED BY <1>1, <1>2, <1>3 DEF Told

\* Whatever the fleet and the payloads, of any size: the readings of one poll
\* that look the same on a topic are the same reading, if the BMC's own names
\* and numbers tell them apart and fit the Index (CrayJSONPayload, redfish.go 31-42).
THEOREM ReadingsToldApart == Spec => []Distinguishable
<1>1. IInv => Distinguishable
  <2> DEFINE clean == \A k \in DOMAIN answers :
                        Clean(fleet[answers[k].ep], answers[k].payload)
             apart == \A k, l \in DOMAIN answers :
                        (k # l /\ SamePoll(answers[k], answers[l])
                           /\ fleet[answers[k].ep] = "hpepdu")
                          => PduClean(answers[k], answers[l])
             told(i, j) == \A x \in Range(sent[i].ev.sensors), y \in Range(sent[j].ev.sensors) :
                             [x EXCEPT !.value = 0] = [y EXCEPT !.value = 0] => x.value = y.value
             alike(i, j) == /\ sent[i].ev.id = sent[j].ev.id
                            /\ SamePoll(answers[sent[i].answer], answers[sent[j].answer])
  <2>a. Distinguishable <=>
          ((Quiet /\ clean /\ apart) =>
             \A b \in Brokers : \A i, j \in BagToSet(log[b]) : alike(i, j) => told(i, j))
    BY DEF Distinguishable
  <2> SUFFICES ASSUME IInv, clean, apart,
                 NEW b \in Brokers, NEW i \in BagToSet(log[b]), NEW j \in BagToSet(log[b]),
                 alike(i, j),
                 NEW x \in Range(sent[i].ev.sensors), NEW y \in Range(sent[j].ev.sensors),
                 [x EXCEPT !.value = 0] = [y EXCEPT !.value = 0]
               PROVE  x.value = y.value
    BY <2>a
  <2> SUFFICES x = y
    OBVIOUS
  <2>0. Same(x, y)
    BY DEF Same
  <2> USE DEF IInv
  <2>1. i \in DOMAIN sent /\ j \in DOMAIN sent
    <3>1. i \in 1 .. taken /\ j \in 1 .. taken
      BY DEF WriteInv, LogInv, BagToSet
    <3>2. Len(sent) \in Nat /\ DOMAIN sent = 1 .. Len(sent) /\ taken \in 0 .. Len(sent)
      BY DEF ChannelInv, IsSequence
    <3> QED BY <3>1, <3>2
  <2> DEFINE k == sent[i].answer
             l == sent[j].answer
             id == sent[i].ev.id
             a == answers[k]
             c == answers[l]
             v == fleet[a.ep]
  <2>2. SamePoll(a, c) /\ a.ep = c.ep /\ v = fleet[c.ep] /\ id = sent[j].ev.id
    BY DEF SamePoll
  <2>3. /\ k \in DOMAIN answers /\ IsAnswer(a) /\ v \in Vendor
        /\ a.payload # Undecodable /\ a.payload \in Decoded(v, a.type)
        /\ a.payload \in Mains =>
             \A keys \in {a.payload.PolyPhasePowerWatts, a.payload.PolyPhaseVoltage,
                          a.payload.PolyPhaseCurrentAmps} : IsFiniteSet(keys)
        /\ v = "hpepdu" => a.type = "Power"
        /\ \A D : Tells(a.events, D) => <<id, x>> \in D
    BY <2>1, SensorFrom
  <2>4. PICK before : a.events \in GetEventsForPayload(v, a.type, a.payload, before)
    BY <2>1, SensorFrom
  <2>5. /\ l \in DOMAIN answers /\ IsAnswer(c)
        /\ c.payload # Undecodable /\ c.payload \in Decoded(v, c.type)
        /\ c.payload \in Mains =>
             \A keys \in {c.payload.PolyPhasePowerWatts, c.payload.PolyPhaseVoltage,
                          c.payload.PolyPhaseCurrentAmps} : IsFiniteSet(keys)
        /\ v = "hpepdu" => c.type = "Power"
        /\ \A D : Tells(c.events, D) => <<id, y>> \in D
    BY <2>1, <2>2, SensorFrom
  <2>6. PICK past : c.events \in GetEventsForPayload(v, c.type, c.payload, past)
    BY <2>1, <2>2, SensorFrom
  <2>7. /\ Clean(v, a.payload) /\ Clean(v, c.payload)
        /\ a.type \in TelemetryType /\ c.type \in TelemetryType
        /\ a.url \in Urls[v][a.type] /\ c.url \in Urls[v][c.type]
        /\ (SamePoll(a, c) /\ a.type = c.type /\ a.url = c.url) => k = l
        /\ (k # l /\ SamePoll(a, c) /\ v = "hpepdu") => PduClean(a, c)
    BY <2>2, <2>3, <2>5 DEF IsAnswer, CollectInv, OnceInv
  <2> HIDE DEF k, l, id, v
  <2>8. CASE v # "hpepdu"
    <3>1. PICK D : /\ Tells(a.events, D)
                   /\ \A z \in D : IF a.type = "Power" THEN z[1] \in {"Power", "Voltage"}
                                   ELSE z[1] \in {"Fan", "Temperature"}
      BY <2>3, <2>4, <2>7, <2>8, NodesTell
    <3>2. PICK E : /\ Tells(c.events, E)
                   /\ \A z \in E : IF c.type = "Power" THEN z[1] \in {"Power", "Voltage"}
                                   ELSE z[1] \in {"Fan", "Temperature"}
      BY <2>3, <2>5, <2>6, <2>7, <2>8, NodesTell
    <3>3. <<id, x>> \in D /\ <<id, y>> \in E
      BY <3>1, <3>2, <2>3, <2>5
    <3>4. a.type = c.type
      <4>1. IF a.type = "Power" THEN id \in {"Power", "Voltage"} ELSE id \in {"Fan", "Temperature"}
        BY <3>1, <3>3
      <4>2. IF c.type = "Power" THEN id \in {"Power", "Voltage"} ELSE id \in {"Fan", "Temperature"}
        BY <3>2, <3>3
      <4> QED BY <4>1, <4>2, <2>7 DEF TelemetryType
    <3>5. a.url = c.url
      BY <3>4, <2>3, <2>7, <2>8, TelemetryAssumption
    <3>6. k = l
      BY <3>4, <3>5, <2>2, <2>7
    <3>7. <<id, y>> \in D
      BY <3>1, <3>6, <2>5
    <3> QED BY <3>1, <3>3, <3>7, <2>0, OneAnswer
  <2>9. CASE v = "hpepdu"
    <3>1. PICK D : Tells(a.events, D) /\ \A z \in D : FromPdu(a.payload, z)
      BY <2>3, <2>4, <2>9, PdusTell
    <3>2. PICK E : Tells(c.events, E) /\ \A z \in E : FromPdu(c.payload, z)
      BY <2>5, <2>6, <2>9, PdusTell
    <3>3. <<id, x>> \in D /\ <<id, y>> \in E
      BY <3>1, <3>2, <2>3, <2>5
    <3>4. CASE k = l
      <4>1. <<id, y>> \in D
        BY <3>1, <3>4, <2>5
      <4> QED BY <3>1, <3>3, <4>1, <2>0, OneAnswer
    <3>5. CASE k # l
      <4> DEFINE X == <<id, x>>
                 Y == <<id, y>>
      <4>1. X[2] = x /\ Y[2] = y
        OBVIOUS
      <4>2. X \in D /\ Y \in E
        BY <3>3
      <4> HIDE DEF X, Y
      <4>3. FromPdu(a.payload, X) /\ FromPdu(c.payload, Y)
        BY <4>2, <3>1, <3>2
      <4>4. PduClean(a, c)
        BY <3>5, <2>2, <2>7, <2>9
      <4>5. x.ctx # y.ctx \/ x.index # y.index
        BY <4>1, <4>3, <4>4, <2>3, <2>5, PduApart
      <4>6. Payload(x) /\ Payload(y)
        BY <4>1, <4>2, <3>1, <3>2 DEF Tells, Told
      <4>7. x.ctx = y.ctx /\ x.index = y.index
        BY <4>6, <2>0, SameIs
      <4> QED BY <4>5, <4>7
    <3> QED BY <3>4, <3>5
  <2> QED BY <2>8, <2>9
<1> QED BY <1>1, Invariant, PTL
==============================================================================
