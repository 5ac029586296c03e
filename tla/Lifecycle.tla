------------------------------ MODULE Lifecycle ------------------------------
(***************************************************************************)
(* Start-up and shutdown of the hmcollector process (main in               *)
(* cmd/hmcollector/hmcollector.go): the main goroutine, the signal         *)
(* handler, the REST server, the three loops that wait on a shutdown       *)
(* channel, the poller with its pool of workers, and what the Kafka        *)
(* producers still hold when the process ends.                             *)
(*                                                                         *)
(* What the loops do between two waits is in other modules; here it is the *)
(* one step LoopBody.  Time is not modelled: a timer may fire whenever its *)
(* goroutine waits for it.                                                 *)
(***************************************************************************)
EXTENDS Naturals, FiniteSets

CONSTANTS
  Configs,      \* the flag settings to start with
  NBrokers,     \* Kafka brokers in the configuration file
  MaxRequests,  \* bound on the REST requests being served at a time
  QueueCap,     \* messages a producer can hold
  ChanCap,      \* capacity of jsonPayloads, 10000 in the code
  FlushTimesOut, \* whether Flush may give up on a broker
  NPolled,      \* endpoints the poller knows
  Workers       \* the collectData goroutines, NumWorkers = 30 in the code

\* pollingEnabled, rfSubscribeEnabled, VaultEnabled
Config == [polling : BOOLEAN, subscribe : BOOLEAN, vault : BOOLEAN]

ASSUME ConfigAssumption ==
  /\ Configs \subseteq Config
  /\ NBrokers \in Nat \ {0}
  /\ QueueCap \in Nat /\ ChanCap \in Nat \ {0}
  /\ FlushTimesOut \in BOOLEAN
  /\ MaxRequests \in Nat /\ NPolled \in Nat

Brokers == 1 .. NBrokers

\* doUpdateHSMEndpoints, doRFSubscribe, monitorPollingEndpoints
Loops == {"hsm", "sub", "mon"}

VARIABLES
  cfg,       \* the flags
  Running,   \* the global of that name
  wg,        \* counter of the global WaitGroup
  main,      \* where the main goroutine is
  nconn,     \* brokers with a producer: setupKafka connects them in order
  flushed,   \* brokers main has flushed
  handler,   \* where the signal goroutine is
  loop,      \* where every loop is
  rest,      \* the REST server's goroutine
  inflight,  \* requests parseRequest is serving
  poller,    \* where doPolling is
  nsent,     \* endpoints doPolling has queued in this round
  worker,    \* where every collectData goroutine is
  payloads,  \* messages in the channel jsonPayloads
  buffered,  \* messages every broker's producer has not delivered
  outcome    \* how the process ended, "up" while it runs

mainVars == <<wg, main, nconn, flushed>>
restVars == <<rest, inflight>>
pollVars == <<poller, nsent, worker, payloads>>
vars == <<cfg, Running, mainVars, handler, loop, restVars, pollVars,
          buffered, outcome>>

TypeOK ==
  /\ cfg \in Config
  /\ Running \in BOOLEAN
  /\ wg \in Nat
  /\ main \in {"vault", "kafka", "startHsm", "startPoll", "startSub", "wait",
               "flush"}
  /\ nconn \in 0 .. NBrokers /\ flushed \in 0 .. NBrokers
  /\ handler \in {"idle", "cancel", "hsm", "sub", "mon", "rest", "quiesce",
                  "done"}
  /\ loop \in [Loops -> {"none", "top", "body", "select", "exited"}]
  /\ rest \in {"serving", "closing", "closed"}
  /\ inflight \in 0 .. MaxRequests
  /\ poller \in {"none", "top", "send", "sleep", "done", "exited"}
  /\ nsent \in 0 .. NPolled
  /\ worker \in [Workers -> {"none", "idle", "http", "emit", "exited"}]
  /\ payloads \in 0 .. ChanCap
  /\ buffered \in [Brokers -> 0 .. QueueCap]
  /\ outcome \in {"up", "exited", "exit0", "panic"}

Up == outcome = "up"

\* cancel() has run: every Redfish request fails
Cancelled == handler \notin {"idle", "cancel"}

\* writeToKafka: the producers made so far take the message, the first
\* missing one ends the walk (a nil producer panics; net/http recovers it).
\* A full producer refuses it, which is only logged.
Produce ==
  buffered' = [b \in Brokers |->
                 IF b <= nconn /\ buffered[b] < QueueCap
                 THEN buffered[b] + 1 ELSE buffered[b]]

(***************************************************************************)
(* The main goroutine.                                                     *)
(***************************************************************************)
\* setupVault: tries until it connects or Running is false
SetupVault ==
  /\ Up /\ main = "vault"
  /\ \E connects \in BOOLEAN :
       main' = IF connects \/ ~Running THEN "kafka" ELSE "vault"
  /\ UNCHANGED <<cfg, Running, wg, nconn, flushed, handler, loop, restVars,
                 pollVars, buffered, outcome>>

\* setupKafka: one attempt at the next broker
SetupKafka ==
  /\ Up /\ main = "kafka"
  /\ \/ /\ nconn' = nconn + 1
        /\ main' = IF nconn' = NBrokers THEN "startHsm" ELSE "kafka"
        /\ UNCHANGED outcome
     \/ /\ outcome' = IF Running THEN "up" ELSE "exit0"
        /\ UNCHANGED <<nconn, main>>
  /\ UNCHANGED <<cfg, Running, wg, flushed, handler, loop, restVars, pollVars,
                 buffered>>

StartHsm ==
  /\ Up /\ main = "startHsm"
  /\ main' = "startPoll"
  /\ loop' = IF cfg.polling \/ cfg.subscribe
             THEN [loop EXCEPT !["hsm"] = "top"] ELSE loop
  /\ UNCHANGED <<cfg, Running, wg, nconn, flushed, handler, restVars, pollVars,
                 buffered, outcome>>

\* Mutant: doPolling is not counted.
StartPoll_NoAdd ==
  /\ Up /\ main = "startPoll"
  /\ main' = "startSub"
  /\ IF cfg.polling
     THEN /\ poller' = "top"
          /\ loop' = [loop EXCEPT !["mon"] = "top"]
          /\ worker' = [w \in Workers |-> "idle"]
     ELSE UNCHANGED <<poller, loop, worker>>
  /\ UNCHANGED <<cfg, Running, wg, nconn, flushed, handler, restVars, nsent,
                 payloads, buffered, outcome>>

\* go doPolling(), which starts the monitor and the pool of workers
StartPoll ==
  /\ Up /\ main = "startPoll"
  /\ main' = "startSub"
  /\ IF cfg.polling
     THEN /\ wg' = wg + 1
          /\ poller' = "top"
          /\ loop' = [loop EXCEPT !["mon"] = "top"]
          /\ worker' = [w \in Workers |-> "idle"]
     ELSE UNCHANGED <<wg, poller, loop, worker>>
  /\ UNCHANGED <<cfg, Running, nconn, flushed, handler, restVars, nsent,
                 payloads, buffered, outcome>>

StartSub ==
  /\ Up /\ main = "startSub"
  /\ main' = "wait"
  /\ IF cfg.subscribe
     THEN /\ wg' = wg + 1
          /\ loop' = [loop EXCEPT !["sub"] = "top"]
     ELSE UNCHANGED <<wg, loop>>
  /\ UNCHANGED <<cfg, Running, nconn, flushed, handler, restVars, pollVars,
                 buffered, outcome>>

\* WaitGroup.Wait() returns
Wait ==
  /\ Up /\ main = "wait"
  /\ wg = 0
  /\ main' = "flush"
  /\ UNCHANGED <<cfg, Running, wg, nconn, flushed, handler, loop, restVars,
                 pollVars, buffered, outcome>>

\* Mutant: the walk over the brokers goes one too far.
Flush_Past ==
  /\ Up /\ main = "flush"
  /\ flushed < NBrokers => (buffered[flushed + 1] = 0 \/ FlushTimesOut)
  /\ flushed' = flushed + 1
  /\ outcome' = IF flushed' > NBrokers THEN "exited" ELSE "up"
  /\ UNCHANGED <<cfg, Running, wg, main, nconn, handler, loop, restVars,
                 pollVars, buffered>>

\* Flush returns for the next broker once its producer is empty, or after
\* 15 seconds; main returns after the last one
Flush ==
  /\ Up /\ main = "flush"
  /\ buffered[flushed + 1] = 0 \/ FlushTimesOut
  /\ flushed' = flushed + 1
  /\ outcome' = IF flushed' = NBrokers THEN "exited" ELSE "up"
  /\ UNCHANGED <<cfg, Running, wg, main, nconn, handler, loop, restVars,
                 pollVars, buffered>>

\* librdkafka's background thread delivers one message
Deliver(b) ==
  /\ Up /\ buffered[b] > 0
  /\ buffered' = [buffered EXCEPT ![b] = @ - 1]
  /\ UNCHANGED <<cfg, Running, mainVars, handler, loop, restVars, pollVars,
                 outcome>>

(***************************************************************************)
(* The signal handler.  Its sends are on unbuffered channels: they happen  *)
(* together with the receive, in LoopShutdown.                             *)
(***************************************************************************)
\* the send that comes next, given the flags
NextSend(from) ==
  CASE from = "hsm" /\ (cfg.polling \/ cfg.subscribe) -> "hsm"
    [] from \in {"hsm", "sub"} /\ cfg.subscribe -> "sub"
    [] from \in {"hsm", "sub", "mon"} /\ cfg.polling -> "mon"
    [] OTHER -> "rest"

Signal ==
  /\ Up /\ handler = "idle"
  /\ Running' = FALSE
  /\ handler' = "cancel"
  /\ UNCHANGED <<cfg, mainVars, loop, restVars, pollVars, buffered, outcome>>

\* Mutant: the channel of the HSM loop is written whatever the flags say.
Cancel_Always ==
  /\ Up /\ handler = "cancel"
  /\ handler' = "hsm"
  /\ UNCHANGED <<cfg, Running, mainVars, loop, restVars, pollVars, buffered,
                 outcome>>

Cancel ==
  /\ Up /\ handler = "cancel"
  /\ handler' = NextSend("hsm")
  /\ UNCHANGED <<cfg, Running, mainVars, loop, restVars, pollVars, buffered,
                 outcome>>

\* RestSRV.Shutdown(nil) closes the listener ...
RestShutdown ==
  /\ Up /\ handler = "rest"
  /\ handler' = "quiesce"
  /\ rest' = "closing"
  /\ UNCHANGED <<cfg, Running, mainVars, loop, inflight, pollVars, buffered,
                 outcome>>

\* ... and, when a connection is still active, waits on the nil context
RestQuiesce ==
  /\ Up /\ handler = "quiesce"
  /\ IF inflight = 0
     THEN handler' = "done" /\ UNCHANGED outcome
     ELSE outcome' = "panic" /\ UNCHANGED handler
  /\ UNCHANGED <<cfg, Running, mainVars, loop, restVars, pollVars, buffered>>

(***************************************************************************)
(* The loops: for Running { body; select { shutdown, timer } }             *)
(***************************************************************************)
\* Mutant: break is taken to leave the loop, so the condition is dropped.
LoopTop_Forever(l) ==
  /\ Up /\ loop[l] = "top"
  /\ loop' = [loop EXCEPT ![l] = "body"]
  /\ UNCHANGED <<cfg, Running, mainVars, handler, restVars, pollVars, buffered,
                 outcome>>

\* only doRFSubscribe has the deferred WaitGroup.Done()
LoopTop(l) ==
  /\ Up /\ loop[l] = "top"
  /\ loop' = [loop EXCEPT ![l] = IF Running THEN "body" ELSE "exited"]
  /\ wg' = IF ~Running /\ l = "sub" THEN wg - 1 ELSE wg
  /\ UNCHANGED <<cfg, Running, main, nconn, flushed, handler, restVars,
                 pollVars, buffered, outcome>>

LoopBody(l) ==
  /\ Up /\ loop[l] = "body"
  /\ loop' = [loop EXCEPT ![l] = "select"]
  /\ UNCHANGED <<cfg, Running, mainVars, handler, restVars, pollVars, buffered,
                 outcome>>

LoopTimer(l) ==
  /\ Up /\ loop[l] = "select"
  /\ loop' = [loop EXCEPT ![l] = "top"]
  /\ UNCHANGED <<cfg, Running, mainVars, handler, restVars, pollVars, buffered,
                 outcome>>

\* the handler's send and the loop's receive; break only leaves the select
LoopShutdown(l) ==
  /\ Up /\ loop[l] = "select" /\ handler = l
  /\ loop' = [loop EXCEPT ![l] = "top"]
  /\ handler' = NextSend(CASE l = "hsm" -> "sub" [] l = "sub" -> "mon"
                           [] OTHER -> "rest")
  /\ UNCHANGED <<cfg, Running, mainVars, restVars, pollVars, buffered, outcome>>

(***************************************************************************)
(* The REST server.                                                        *)
(***************************************************************************)
Request ==
  /\ Up /\ rest = "serving"
  /\ inflight < MaxRequests
  /\ inflight' = inflight + 1
  /\ UNCHANGED <<cfg, Running, mainVars, handler, loop, rest, pollVars,
                 buffered, outcome>>

\* parseRequest writes the event of the request and returns
Serve ==
  /\ Up /\ inflight > 0
  /\ inflight' = inflight - 1
  /\ Produce
  /\ UNCHANGED <<cfg, Running, mainVars, handler, loop, rest, pollVars, outcome>>

\* ListenAndServe returns as soon as the listener is closed
RestReturn ==
  /\ Up /\ rest = "closing"
  /\ rest' = "closed"
  /\ wg' = wg - 1
  /\ UNCHANGED <<cfg, Running, main, nconn, flushed, handler, loop, inflight,
                 pollVars, buffered, outcome>>

(***************************************************************************)
(* doPolling and its workers.                                              *)
(***************************************************************************)
PollTop ==
  /\ Up /\ poller = "top"
  /\ IF Running
     THEN /\ poller' = IF NPolled = 0 THEN "sleep" ELSE "send"
          /\ nsent' = 0
          /\ UNCHANGED wg
     ELSE poller' = "done" /\ wg' = wg - 1 /\ UNCHANGED nsent
  /\ UNCHANGED <<cfg, Running, main, nconn, flushed, handler, loop, restVars,
                 worker, payloads, buffered, outcome>>

\* the deferred close of both channels, after WaitGroup.Done()
PollClose ==
  /\ Up /\ poller = "done"
  /\ poller' = "exited"
  /\ UNCHANGED <<cfg, Running, mainVars, handler, loop, restVars, nsent, worker,
                 payloads, buffered, outcome>>

\* pendingEndpoints has the capacity len(endpoints) had at start-up: 0
PollSend(w) ==
  /\ Up /\ poller = "send" /\ worker[w] = "idle"
  /\ worker' = [worker EXCEPT ![w] = "http"]
  /\ nsent' = nsent + 1
  /\ poller' = IF nsent' = NPolled THEN "sleep" ELSE "send"
  /\ UNCHANGED <<cfg, Running, mainVars, handler, loop, restVars, payloads,
                 buffered, outcome>>

PollSleep ==
  /\ Up /\ poller = "sleep"
  /\ poller' = "top"
  /\ UNCHANGED <<cfg, Running, mainVars, handler, loop, restVars, nsent, worker,
                 payloads, buffered, outcome>>

\* the request fails, or its response holds an event
WorkerHttp(w) ==
  /\ Up /\ worker[w] = "http"
  /\ \E to \in {"idle", "emit"} :
       /\ to = "emit" => ~Cancelled
       /\ worker' = [worker EXCEPT ![w] = to]
  /\ UNCHANGED <<cfg, Running, mainVars, handler, loop, restVars, poller, nsent,
                 payloads, buffered, outcome>>

\* jsonPayloads <- payload: panics once doPolling has closed the channel
WorkerEmit(w) ==
  /\ Up /\ worker[w] = "emit"
  /\ IF poller = "exited"
     THEN outcome' = "panic" /\ UNCHANGED <<worker, payloads>>
     ELSE /\ payloads < ChanCap
          /\ payloads' = payloads + 1
          /\ worker' = [worker EXCEPT ![w] = "idle"]
          /\ UNCHANGED outcome
  /\ UNCHANGED <<cfg, Running, mainVars, handler, loop, restVars, poller, nsent,
                 buffered>>

\* pendingEndpoints is closed: range ends
WorkerExit(w) ==
  /\ Up /\ worker[w] = "idle" /\ poller = "exited"
  /\ worker' = [worker EXCEPT ![w] = "exited"]
  /\ UNCHANGED <<cfg, Running, mainVars, handler, loop, restVars, poller, nsent,
                 payloads, buffered, outcome>>

\* processData drains jsonPayloads, after it is closed too
Process ==
  /\ Up /\ payloads > 0
  /\ payloads' = payloads - 1
  /\ Produce
  /\ UNCHANGED <<cfg, Running, mainVars, handler, loop, restVars, poller, nsent,
                 worker, outcome>>

(***************************************************************************)
(* The process.  The REST server and the signal handler are up before      *)
(* setupVault is called.                                                   *)
(***************************************************************************)
Init ==
  /\ cfg \in Configs
  /\ Running = TRUE
  /\ wg = 1
  /\ main = IF cfg.vault THEN "vault" ELSE "kafka"
  /\ nconn = 0 /\ flushed = 0
  /\ handler = "idle"
  /\ loop = [l \in Loops |-> "none"]
  /\ rest = "serving" /\ inflight = 0
  /\ poller = "none" /\ nsent = 0
  /\ worker = [w \in Workers |-> "none"]
  /\ payloads = 0
  /\ buffered = [b \in Brokers |-> 0]
  /\ outcome = "up"

MainStep == SetupVault \/ SetupKafka \/ StartHsm \/ StartPoll \/ StartSub
              \/ Wait \/ Flush
HandlerStep == Cancel \/ RestShutdown \/ RestQuiesce
LoopStep(l) == LoopTop(l) \/ LoopBody(l) \/ LoopTimer(l) \/ LoopShutdown(l)
PollerStep == PollTop \/ PollClose \/ PollSleep \/ \E w \in Workers : PollSend(w)
WorkerStep(w) == WorkerHttp(w) \/ WorkerEmit(w) \/ WorkerExit(w)

\* the process is gone
Ended == outcome # "up" /\ UNCHANGED vars

Next ==
  \/ MainStep
  \/ Signal
  \/ HandlerStep
  \/ \E l \in Loops : LoopStep(l)
  \/ Request
  \/ Serve
  \/ RestReturn
  \/ PollerStep
  \/ \E w \in Workers : WorkerStep(w)
  \/ Process
  \/ \E b \in Brokers : Deliver(b)
  \/ Ended

Spec == Init /\ [][Next]_vars

\* Every goroutine that can run is scheduled and timers fire; nothing makes
\* a signal or a request come, a connection succeed or a broker answer.
FairSpec ==
  /\ Spec
  /\ WF_vars(MainStep) /\ WF_vars(HandlerStep)
  /\ \A l \in Loops : WF_vars(LoopStep(l))
  /\ WF_vars(Serve) /\ WF_vars(RestReturn)
  /\ WF_vars(PollerStep)
  /\ \A w \in Workers : WF_vars(WorkerStep(w))
  /\ WF_vars(Process)

(***************************************************************************)
(* Properties.                                                             *)
(***************************************************************************)
\* The main goroutine flushes Kafka only after a signal, once the REST
\* listener, doPolling and doRFSubscribe, the goroutines counted by the
\* WaitGroup, have all stopped (hmcollector.go 404, 458, 477, 485).
FlushAfterStop ==
  main = "flush" =>
    /\ ~Running
    /\ rest = "closed"
    /\ poller \in {"none", "done", "exited"}
    /\ loop["sub"] \in {"none", "exited"}

\* A signal ends the process whatever stage it has reached, the wait for
\* Kafka included (hmcollector.go 414-437, kafka.go 160-174).
ShutdownEnds == ~Running ~> ~Up

\* An ingress-only collector, one that neither polls nor subscribes, does end
\* after a signal, at every stage of its start-up: the handler's sends are
\* under the flags its loops are started under (hmcollector.go 417-428,
\* 443-483) and both connection loops look at Running (vault.go 42,
\* kafka.go 160-174).
IngressEnds == (~Running /\ ~cfg.polling /\ ~cfg.subscribe) ~> ~Up

\* Every loop that was started stops after a signal, because its condition
\* is evaluated again after the shutdown message and after the timer
\* (hmcollector.go 132, rf_subscriptions.go 616, polling.go 167).
LoopsStop ==
  \A l \in Loops : (~Running /\ loop[l] # "none") ~> (loop[l] = "exited" \/ ~Up)

\* "Close the connection to Kafka to make sure any buffered data gets
\* flushed." (hmcollector.go 487): when the process has ended after start-up
\* no producer holds a message.
BufferedFlushed ==
  outcome \in {"exited", "panic"} => \A b \in Brokers : buffered[b] = 0
==============================================================================
