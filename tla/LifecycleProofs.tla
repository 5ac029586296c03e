--------------------------- MODULE LifecycleProofs ---------------------------
(***************************************************************************)
(* Type correctness of Lifecycle and the theorem that main flushes Kafka   *)
(* only after everything the WaitGroup counts has stopped, for every set   *)
(* of flag settings, brokers and workers.                                  *)
(***************************************************************************)
EXTENDS Lifecycle, TLAPS

One(b) == IF b THEN 1 ELSE 0

RestUp == rest # "closed"
PollUp == poller \in {"top", "send", "sleep"}
SubUp  == loop["sub"] \in {"top", "body", "select"}

\* The WaitGroup counts the goroutines that have not called Done.
Counted == wg = One(RestUp) + One(PollUp) + One(SubUp)

\* main starts the poller and the subscriber once each.
NotStarted ==
  /\ main \in {"vault", "kafka", "startHsm", "startPoll"} => ~PollUp
  /\ main \in {"vault", "kafka", "startHsm", "startPoll", "startSub"} => ~SubUp

\* Only the signal handler stops the REST server.
HandlerFirst ==
  /\ handler # "idle" => ~Running
  /\ rest # "serving" => handler \in {"quiesce", "done"}

Bounds ==
  /\ main \in {"vault", "kafka"} => nconn < NBrokers
  /\ (main = "flush" /\ Up) => flushed < NBrokers
  /\ main # "flush" => flushed = 0
  /\ poller = "send" => nsent < NPolled

IInv ==
  /\ TypeOK
  /\ Counted
  /\ NotStarted
  /\ HandlerFirst
  /\ Bounds
  /\ main = "flush" => wg = 0

LEMMA InitIInv == Init => IInv
BY ConfigAssumption
   DEF Init, IInv, TypeOK, Counted, NotStarted, HandlerFirst, Bounds, One,
       RestUp, PollUp, SubUp, Up, Config, Loops, Brokers

\* The next send of the handler is a state of the handler.
LEMMA NextSendType ==
  \A from : NextSend(from) \in {"hsm", "sub", "mon", "rest"}
BY DEF NextSend

LEMMA ProduceType ==
  ASSUME TypeOK, Produce
  PROVE  buffered' \in [Brokers -> 0 .. QueueCap]
BY ConfigAssumption DEF TypeOK, Produce, Brokers

LEMMA MainIInv == IInv /\ MainStep => IInv'
<1> SUFFICES ASSUME IInv, MainStep PROVE IInv'
  OBVIOUS
<1> USE ConfigAssumption DEF IInv, TypeOK, Counted, NotStarted, HandlerFirst,
        Bounds, One, RestUp, PollUp, SubUp, Up, restVars, pollVars
<1>1. CASE SetupVault
  BY <1>1 DEF SetupVault
<1>2. CASE SetupKafka
  BY <1>2 DEF SetupKafka
<1>3. CASE StartHsm
  BY <1>3 DEF StartHsm, Loops
<1>4. CASE StartPoll
  BY <1>4 DEF StartPoll, Loops
<1>5. CASE StartSub
  BY <1>5 DEF StartSub, Loops
<1>6. CASE Wait
  BY <1>6 DEF Wait
<1>7. CASE Flush
  BY <1>7 DEF Flush
<1> QED
  BY <1>1, <1>2, <1>3, <1>4, <1>5, <1>6, <1>7 DEF MainStep

LEMMA HandlerIInv == IInv /\ (Signal \/ HandlerStep) => IInv'
<1> SUFFICES ASSUME IInv, Signal \/ HandlerStep PROVE IInv'
  OBVIOUS
<1> USE DEF IInv, TypeOK, Counted, NotStarted, HandlerFirst,
        Bounds, One, RestUp, PollUp, SubUp, Up, restVars, pollVars, mainVars
<1>1. CASE Signal
  BY <1>1 DEF Signal
<1>2. CASE Cancel
  BY <1>2, NextSendType DEF Cancel
<1>3. CASE RestShutdown
  BY <1>3 DEF RestShutdown
<1>4. CASE RestQuiesce
  BY <1>4 DEF RestQuiesce
<1> QED
  BY <1>1, <1>2, <1>3, <1>4 DEF HandlerStep

LEMMA LoopIInv == ASSUME NEW l \in Loops, IInv, LoopStep(l) PROVE IInv'
<1> USE DEF IInv, TypeOK, Counted, NotStarted, HandlerFirst, Bounds, One,
        RestUp, PollUp, SubUp, Up, restVars, pollVars, mainVars, Loops
<1>1. CASE LoopTop(l)
  BY <1>1 DEF LoopTop
<1>2. CASE LoopBody(l)
  BY <1>2 DEF LoopBody
<1>3. CASE LoopTimer(l)
  BY <1>3 DEF LoopTimer
<1>4. CASE LoopShutdown(l)
  <2>1. handler' \in {"hsm", "sub", "mon", "rest"}
    BY <1>4, NextSendType DEF LoopShutdown
  <2>2. handler \notin {"idle", "quiesce", "done"}
    BY <1>4 DEF LoopShutdown
  <2> QED
    BY <1>4, <2>1, <2>2 DEF LoopShutdown
<1> QED
  BY <1>1, <1>2, <1>3, <1>4 DEF LoopStep

LEMMA RestIInv == IInv /\ (Request \/ Serve \/ RestReturn) => IInv'
<1> SUFFICES ASSUME IInv, Request \/ Serve \/ RestReturn PROVE IInv'
  OBVIOUS
<1>1. CASE Request
  BY <1>1, ConfigAssumption
     DEF Request, IInv, TypeOK, Counted, NotStarted, HandlerFirst, Bounds, One,
         RestUp, PollUp, SubUp, Up, pollVars, mainVars
<1>2. CASE Serve
  <2>1. buffered' \in [Brokers -> 0 .. QueueCap]
    BY <1>2, ProduceType DEF Serve, IInv
  <2> QED
    BY <1>2, <2>1, ConfigAssumption
       DEF Serve, IInv, TypeOK, Counted, NotStarted, HandlerFirst, Bounds, One,
           RestUp, PollUp, SubUp, Up, pollVars, mainVars
<1>3. CASE RestReturn
  BY <1>3 DEF RestReturn, IInv, TypeOK, Counted, NotStarted, HandlerFirst,
              Bounds, One, RestUp, PollUp, SubUp, Up, pollVars
<1> QED
  BY <1>1, <1>2, <1>3

LEMMA PollerIInv == IInv /\ PollerStep => IInv'
<1> SUFFICES ASSUME IInv, PollerStep PROVE IInv'
  OBVIOUS
<1> USE ConfigAssumption DEF IInv, TypeOK, Counted, NotStarted, HandlerFirst,
        Bounds, One, RestUp, PollUp, SubUp, Up, restVars, mainVars
<1>1. CASE PollTop
  BY <1>1 DEF PollTop
<1>2. CASE PollClose
  BY <1>2 DEF PollClose
<1>3. CASE PollSleep
  BY <1>3 DEF PollSleep
<1>4. ASSUME NEW w \in Workers, PollSend(w) PROVE IInv'
  BY <1>4 DEF PollSend
<1> QED
  BY <1>1, <1>2, <1>3, <1>4 DEF PollerStep

LEMMA WorkerIInv == ASSUME NEW w \in Workers, IInv, WorkerStep(w) PROVE IInv'
<1> USE ConfigAssumption DEF IInv, TypeOK, Counted, NotStarted, HandlerFirst,
        Bounds, One, RestUp, PollUp, SubUp, Up, restVars, mainVars
<1>1. CASE WorkerHttp(w)
  BY <1>1 DEF WorkerHttp
<1>2. CASE WorkerEmit(w)
  BY <1>2 DEF WorkerEmit
<1>3. CASE WorkerExit(w)
  BY <1>3 DEF WorkerExit
<1> QED
  BY <1>1, <1>2, <1>3 DEF WorkerStep

LEMMA KafkaIInv ==
  IInv /\ (Process \/ \E b \in Brokers : Deliver(b)) => IInv'
<1> SUFFICES ASSUME IInv, Process \/ \E b \in Brokers : Deliver(b) PROVE IInv'
  OBVIOUS
<1>1. CASE Process
  <2>1. buffered' \in [Brokers -> 0 .. QueueCap]
    BY <1>1, ProduceType DEF Process, IInv
  <2> QED
    BY <1>1, <2>1, ConfigAssumption
       DEF Process, IInv, TypeOK, Counted, NotStarted, HandlerFirst, Bounds,
           One, RestUp, PollUp, SubUp, Up, restVars, mainVars
<1>2. ASSUME NEW b \in Brokers, Deliver(b) PROVE IInv'
  BY <1>2, ConfigAssumption
     DEF Deliver, IInv, TypeOK, Counted, NotStarted, HandlerFirst, Bounds, One,
         RestUp, PollUp, SubUp, Up, restVars, pollVars, mainVars
<1> QED
  BY <1>1, <1>2

LEMMA NextIInv == IInv /\ [Next]_vars => IInv'
<1> SUFFICES ASSUME IInv, [Next]_vars PROVE IInv'
  OBVIOUS
<1>1. CASE UNCHANGED vars
  BY <1>1 DEF vars, mainVars, restVars, pollVars, IInv, TypeOK, Counted,
              NotStarted, HandlerFirst, Bounds, One, RestUp, PollUp, SubUp, Up
<1>2. CASE Next
  BY <1>1, <1>2, MainIInv, HandlerIInv, LoopIInv, RestIInv, PollerIInv,
     WorkerIInv, KafkaIInv DEF Next, Ended
<1> QED
  BY <1>1, <1>2

LEMMA IInvImplies == IInv => FlushAfterStop
BY DEF IInv, FlushAfterStop, TypeOK, Counted, HandlerFirst, One, RestUp,
       PollUp, SubUp, Loops

\* Every variable of the start-up and shutdown machinery keeps its type:
\* the WaitGroup never goes below zero (which would panic in Go), main never
\* flushes a broker that does not exist.
THEOREM TypeCorrect == Spec => []TypeOK
<1>1. IInv => TypeOK
  BY DEF IInv
<1> QED
  BY <1>1, InitIInv, NextIInv, PTL DEF Spec

\* main reaches the Kafka flush (hmcollector.go 487-500) only after a signal
\* and after the REST listener, doPolling and doRFSubscribe have stopped.
THEOREM FlushLast == Spec => []FlushAfterStop
BY InitIInv, NextIInv, IInvImplies, PTL DEF Spec
==============================================================================
