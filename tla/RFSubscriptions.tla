--------------------------- MODULE RFSubscriptions ---------------------------
(***************************************************************************)
(* The Redfish event subscription manager of hmcollector                   *)
(* (cmd/hmcollector/rf_subscriptions.go): the scan loop doRFSubscribe, the *)
(* rfSubscribe dispatcher with one goroutine per queued record, the        *)
(* rfVerifySub dispatcher with one goroutine per verification, and the     *)
(* subscription store of every BMC they talk to.                           *)
(*                                                                         *)
(* Every HTTP exchange with a BMC and every write of a shared status cell  *)
(* is a step of its own; the probes getDestination makes (checkILO,        *)
(* checkOpenBmc) change nothing on the BMC and are part of the step that   *)
(* uses their answer.                                                      *)
(***************************************************************************)
EXTENDS Naturals, Sequences, FiniteSets

CONSTANTS
  Endpoints,    \* IDs of the Redfish endpoints HSM may report
  NoSubscribe,  \* CabinetPDUControllers whose FQDN does not contain "rts"
  NoStreaming,  \* endpoints that answer 400 to a streaming subscription
  HttpsOnly,    \* iLO and OpenBMC endpoints: events go to an https URL
  Names,        \* strings a Context or a last path segment may hold
  Xnames,       \* the names GetHMSType recognises
  NormalizeHMSCompID,    \* [Xnames -> Xnames]
  rfStreamingEnabled,    \* flag rf_streaming_enabled
  pruneOldSubscriptions, \* flag prune_old_subscriptions
  SubIds,       \* ids a BMC gives to its subscriptions (bound on their number)
  ReuseIds,     \* whether a BMC may give a freed id to a new subscription
  Stores,       \* subscription stores a BMC may start or come back with
  ForeignSubs,  \* subscriptions other services may create
  Recs,         \* heap cells for RFSub records (bound on the live ones)
  EpOf,         \* [Recs -> Endpoints]
  NoRec,        \* nil
  NoId,         \* no subscription id
  Verifiers,    \* goroutines of rfVerifySub (bound on the live ones)
  ChanCap,      \* capacity of the two channels, 1000 in the code
  SubCheckFreq, \* 20 in the code
  Faults,       \* the kinds of fault the environment may inject
  MaxFaults     \* how many of them

(***************************************************************************)
(* Data: registry prefix groups, subscriptions, goroutine frames.          *)
(***************************************************************************)
CrayTelemetry == "CrayTelemetry"
Group == {{}, {CrayTelemetry}}

\* nil first, then the streaming group when it is enabled
registryPrefixGroups ==
  IF rfStreamingEnabled THEN <<{}, {CrayTelemetry}>> ELSE <<{}>>

\* Destination is base + "/" + x; "other" stands for any URL that is not
\* derived from the configured restURL.
Base == {"http", "https", "other"}
EventSubscription == [base : Base, x : Names, ctx : Names, pfx : Group]
NoSub == [base |-> "none"]
Store == [SubIds -> EventSubscription \cup {NoSub}]

Procs == Recs \cup Verifiers

Pc == {"idle", "pruneList", "pruneGet", "pruneDelete", "next", "range",
       "get", "dupPrune", "patch", "fixDelete", "ret", "eventTypes", "post",
       "append"}
Result == {"none", "dup", "missing", "err"}

Frame == [rec : Recs \cup {NoRec}, pc : Pc, todo : Seq(Group), grp : Group,
          members : SUBSET SubIds, cur : SubIds \cup {NoId}, res : Result]
Idle == [rec |-> NoRec, pc |-> "idle", todo |-> <<>>, grp |-> {},
         members |-> {}, cur |-> NoId, res |-> "none"]

Status == {"ERROR", "PENDING", "COMPLETE"}

ASSUME ConstantsAssumption ==
  /\ NoSubscribe \subseteq Endpoints /\ NoStreaming \subseteq Endpoints
  /\ HttpsOnly \subseteq Endpoints
  /\ Endpoints \subseteq Names /\ Xnames \subseteq Names
  /\ NormalizeHMSCompID \in [Xnames -> Xnames]
  /\ rfStreamingEnabled \in BOOLEAN /\ pruneOldSubscriptions \in BOOLEAN
  /\ ReuseIds \in BOOLEAN
  /\ Stores \subseteq Store /\ ForeignSubs \subseteq EventSubscription
  /\ EpOf \in [Recs -> Endpoints] /\ NoRec \notin Recs
  /\ NoId \notin SubIds
  /\ Recs \cap Verifiers = {}
  /\ ChanCap \in Nat \ {0} /\ SubCheckFreq \in Nat \ {0}
  /\ MaxFaults \in Nat

VARIABLES
  hsmEndpoints,  \* keys of the HSMEndpoints map
  toScan,        \* what is left of the scan's snapshot of it
  subCheckCnt,   \* scans since the last verification round
  endpoints,     \* doRFSubscribe's map: endpoint -> current RFSub record
  status,        \* *RFSub.Status, one heap cell per record
  prefixGroups,  \* *RFSub.PrefixGroups
  pending,       \* channel pendingRFSubscriptions
  verify,        \* channel verifyRFSubscriptions
  proc,          \* goroutines: one per record, and the verifiers
  subs,          \* the subscription store of every BMC
  used,          \* ids every BMC has given out so far
  nfaults        \* faults injected so far

scanVars == <<hsmEndpoints, toScan, subCheckCnt, endpoints>>
recVars  == <<status, prefixGroups>>
chanVars == <<pending, verify>>
bmcVars  == <<subs, used>>
vars == <<scanVars, recVars, chanVars, proc, bmcVars, nfaults>>

(***************************************************************************)
(* Reading a subscription.                                                 *)
(***************************************************************************)
\* restURL has the scheme http; iLO and OpenBMC get https.  probed is FALSE
\* when checkILO / checkOpenBmc failed to read the endpoint's answer.
getDestination(e, probed) ==
  [base |-> IF probed /\ e \in HttpsOnly THEN "https" ELSE "http", x |-> e]

Destination(sub) == [base |-> sub.base, x |-> sub.x]

\* the registry prefixes of sub are those of the group we look for
Matches(sub, grp) == IF grp = {} THEN sub.pfx = {} ELSE grp \subseteq sub.pfx

\* Context when it is an xname, else the destination's last path segment
XnameOfSub(sub) == IF sub.ctx \in Xnames THEN sub.ctx ELSE sub.x

\* Mutant: a name that is no xname counts as the wrong xname.
WrongXname_NoValidity(e, sub) ==
  /\ pruneOldSubscriptions /\ e \in Xnames /\ sub # NoSub
  /\ XnameOfSub(sub) \in Xnames
       => NormalizeHMSCompID[XnameOfSub(sub)] # NormalizeHMSCompID[e]

\* Mutant: only the endpoint's name is normalised.
WrongXname_NotNormalized(e, sub) ==
  /\ pruneOldSubscriptions /\ e \in Xnames /\ sub # NoSub
  /\ XnameOfSub(sub) \in Xnames
  /\ XnameOfSub(sub) # NormalizeHMSCompID[e]

isSubscriptionForWrongXname(e, sub) ==
  /\ pruneOldSubscriptions
  /\ e \in Xnames
  /\ sub # NoSub
  /\ XnameOfSub(sub) \in Xnames
  /\ NormalizeHMSCompID[XnameOfSub(sub)] # NormalizeHMSCompID[e]

appendUniqueRegPrefix(grp, pg) ==
  IF \E k \in DOMAIN pg : pg[k] = grp THEN pg ELSE Append(pg, grp)

Elems(s) == {s[k] : k \in DOMAIN s}

Fault(f) == f \in Faults /\ nfaults < MaxFaults /\ nfaults' = nfaults + 1
NoFault  == UNCHANGED nfaults

Ep(p) == EpOf[proc[p].rec]
Goto(p, frame) == proc' = [proc EXCEPT ![p] = frame]

(***************************************************************************)
(* The environment: HSM and the BMCs.                                      *)
(***************************************************************************)
\* doUpdateHSMEndpoints adds an endpoint; it never removes one
HSMDiscover(e) ==
  /\ e \notin hsmEndpoints
  /\ hsmEndpoints' = hsmEndpoints \cup {e}
  /\ UNCHANGED <<toScan, subCheckCnt, endpoints, recVars, chanVars, proc,
                 bmcVars, nfaults>>

IdsOf(store) == {i \in SubIds : store[i] # NoSub}

\* the BMC is reset, or the hardware behind this xname is exchanged
Replace(e) ==
  /\ Fault("replace")
  /\ \E s \in Stores :
       /\ ReuseIds \/ IdsOf(s) \cap used[e] = {}
       /\ subs' = [subs EXCEPT ![e] = s]
       /\ used' = [used EXCEPT ![e] = @ \cup IdsOf(s)]
  /\ UNCHANGED <<scanVars, recVars, chanVars, proc>>

FreeIds(e) ==
  {i \in SubIds : subs[e][i] = NoSub /\ (ReuseIds \/ i \notin used[e])}

Create(e, i, sub) ==
  /\ subs' = [subs EXCEPT ![e][i] = sub]
  /\ used' = [used EXCEPT ![e] = @ \cup {i}]

\* a DELETE or PATCH of a subscription that is gone changes nothing
Delete(e, i) ==
  /\ subs' = [subs EXCEPT ![e][i] = NoSub]
  /\ UNCHANGED used

\* another service (Slingshot's fabric manager, say) subscribes
ForeignSubscribe(e) ==
  /\ Fault("foreign")
  /\ \E i \in FreeIds(e), s \in ForeignSubs : Create(e, i, s)
  /\ UNCHANGED <<scanVars, recVars, chanVars, proc>>

(***************************************************************************)
(* doRFSubscribe: the scan loop.                                           *)
(***************************************************************************)
ScanStart ==
  /\ toScan = {}
  /\ toScan' = hsmEndpoints
  /\ subCheckCnt' = (subCheckCnt + 1) % SubCheckFreq
  /\ UNCHANGED <<hsmEndpoints, endpoints, recVars, chanVars, proc, bmcVars,
                 nfaults>>

NeedsSubscribing(e) ==
  endpoints[e] # NoRec => status[endpoints[e]] = "ERROR"

\* a heap cell no one refers to any more: Go's new(RFSubStatus)
FreeRecs(e) ==
  {r \in Recs : /\ EpOf[r] = e
                /\ endpoints[e] # r
                /\ r \notin Elems(pending) \cup Elems(verify)
                /\ \A p \in Procs : proc[p].rec # r}

\* A HPE PDU is skipped, and so is an endpoint in good state between two
\* verification rounds.
ScanSkip(e) ==
  /\ e \in toScan
  /\ \/ e \in NoSubscribe
     \/ ~NeedsSubscribing(e) /\ subCheckCnt # 0
  /\ toScan' = toScan \ {e}
  /\ UNCHANGED <<hsmEndpoints, subCheckCnt, endpoints, recVars, chanVars,
                 proc, bmcVars, nfaults>>

\* The send blocks the loop while the channel is full.
ScanQueue(e) ==
  /\ e \in toScan \ NoSubscribe
  /\ NeedsSubscribing(e)
  /\ Len(pending) < ChanCap
  /\ \E r \in FreeRecs(e) :
       /\ endpoints' = [endpoints EXCEPT ![e] = r]
       /\ status' = [status EXCEPT ![r] = "PENDING"]
       /\ prefixGroups' = [prefixGroups EXCEPT ![r] = <<>>]
       /\ pending' = Append(pending, r)
  /\ toScan' = toScan \ {e}
  /\ UNCHANGED <<hsmEndpoints, subCheckCnt, verify, proc, bmcVars, nfaults>>

\* Mutant: an unbounded verification queue.
ScanVerify_Unbounded(e) ==
  /\ e \in toScan \ NoSubscribe
  /\ ~NeedsSubscribing(e)
  /\ subCheckCnt = 0
  /\ verify' = Append(verify, endpoints[e])
  /\ toScan' = toScan \ {e}
  /\ UNCHANGED <<hsmEndpoints, subCheckCnt, endpoints, recVars, pending,
                 proc, bmcVars, nfaults>>

ScanVerify(e) ==
  /\ e \in toScan \ NoSubscribe
  /\ ~NeedsSubscribing(e)
  /\ subCheckCnt = 0
  /\ Len(verify) < ChanCap
  /\ verify' = Append(verify, endpoints[e])
  /\ toScan' = toScan \ {e}
  /\ UNCHANGED <<hsmEndpoints, subCheckCnt, endpoints, recVars, pending,
                 proc, bmcVars, nfaults>>

Scan(e) == ScanSkip(e) \/ ScanQueue(e) \/ ScanVerify(e)

(***************************************************************************)
(* rfSubscribe: the dispatcher starts one goroutine per queued record.     *)
(***************************************************************************)
SubRecv ==
  /\ pending # <<>>
  /\ LET r == Head(pending) IN
       Goto(r, [Idle EXCEPT !.rec = r, !.todo = registryPrefixGroups,
                  !.pc = IF pruneOldSubscriptions THEN "pruneList" ELSE "next"])
  /\ pending' = Tail(pending)
  /\ UNCHANGED <<scanVars, recVars, verify, bmcVars, nfaults>>

\* on to the next member of the list that is being pruned
PruneOn(frame, rest) ==
  [frame EXCEPT !.members = rest, !.cur = NoId,
                !.pc = IF rest = {} THEN "next" ELSE "pruneGet"]

\* Mutant: the worker returns when the list cannot be read.
PruneList_Return(p) ==
  /\ proc[p].pc = "pruneList"
  /\ \/ NoFault /\ Goto(p, PruneOn(proc[p], IdsOf(subs[Ep(p)])))
     \/ Fault("get") /\ Goto(p, Idle)
  /\ UNCHANGED <<scanVars, recVars, chanVars, bmcVars>>

\* getSubscriptions; when it fails the worker goes on without pruning
PruneList(p) ==
  /\ proc[p].pc = "pruneList"
  /\ \/ NoFault /\ Goto(p, PruneOn(proc[p], IdsOf(subs[Ep(p)])))
     \/ Fault("get") /\ Goto(p, PruneOn(proc[p], {}))
  /\ UNCHANGED <<scanVars, recVars, chanVars, bmcVars>>

\* Mutant: pruning stops at the first subscription that is in order.
PruneGet_Break(p) ==
  /\ proc[p].pc = "pruneGet"
  /\ \E i \in proc[p].members :
       IF isSubscriptionForWrongXname(Ep(p), subs[Ep(p)][i])
       THEN Goto(p, [proc[p] EXCEPT !.pc = "pruneDelete", !.cur = i])
       ELSE Goto(p, PruneOn(proc[p], {}))
  /\ UNCHANGED <<scanVars, recVars, chanVars, bmcVars, nfaults>>

\* getSubscription; when it fails the member is skipped
PruneGet(p) ==
  /\ proc[p].pc = "pruneGet"
  /\ \E i \in proc[p].members :
       \/ /\ NoFault
          /\ isSubscriptionForWrongXname(Ep(p), subs[Ep(p)][i])
          /\ Goto(p, [proc[p] EXCEPT !.pc = "pruneDelete", !.cur = i])
       \/ /\ \/ NoFault /\ ~isSubscriptionForWrongXname(Ep(p), subs[Ep(p)][i])
             \/ Fault("get")
          /\ Goto(p, PruneOn(proc[p], proc[p].members \ {i}))
  /\ UNCHANGED <<scanVars, recVars, chanVars, bmcVars>>

\* deleteSubscriptionForWrongXname, called from rfSubscribe
PruneDelete(p) ==
  /\ proc[p].pc = "pruneDelete"
  /\ \/ NoFault /\ Delete(Ep(p), proc[p].cur)
     \/ Fault("delete") /\ UNCHANGED bmcVars
  /\ Goto(p, PruneOn(proc[p], proc[p].members \ {proc[p].cur}))
  /\ UNCHANGED <<scanVars, recVars, chanVars>>

(***************************************************************************)
(* isDupRFSubscription, run by workers and verifiers for the head of todo. *)
(***************************************************************************)
Return(frame, result) ==
  [frame EXCEPT !.pc = "ret", !.res = result, !.members = {}, !.cur = NoId]

\* Mutant: the walk over the members ends at the first one that is another
\* subscription.
DupOn_First(frame, rest) ==
  IF rest = {} \/ frame.pc = "get" THEN Return(frame, "missing")
  ELSE [frame EXCEPT !.pc = "get", !.members = rest, !.cur = NoId]

DupOn(frame, rest) ==
  IF rest = {} THEN Return(frame, "missing")
  ELSE [frame EXCEPT !.pc = "get", !.members = rest, !.cur = NoId]

\* The status code is not looked at: a JSON error body decodes to an empty
\* collection.
DupList(p) ==
  /\ proc[p].pc = "next" /\ proc[p].todo # <<>>
  /\ LET f == [proc[p] EXCEPT !.grp = Head(proc[p].todo),
                              !.todo = Tail(proc[p].todo)] IN
       \/ NoFault /\ Goto(p, DupOn(f, IdsOf(subs[Ep(p)])))
       \/ Fault("get") /\ Goto(p, Return(f, "err"))
       \/ Fault("notfound") /\ Goto(p, DupOn(f, {}))
  /\ UNCHANGED <<scanVars, recVars, chanVars, bmcVars>>

\* what the loop body does with member i, read as sub, when getDestination
\* says dest
Examine(p, i, sub, dest) ==
  LET f  == proc[p]
      on == DupOn(f, f.members \ {i})
  IN  CASE sub = NoSub -> on
        [] sub # NoSub /\ Destination(sub) = dest ->
             IF ~Matches(sub, f.grp) THEN on
             ELSE IF sub.ctx = dest.x THEN Return(f, "dup")
             ELSE [f EXCEPT !.pc = "patch", !.cur = i]
        [] OTHER ->
             IF isSubscriptionForWrongXname(dest.x, sub)
             THEN [f EXCEPT !.pc = "dupPrune", !.cur = i]
             ELSE on

DupGet(p) ==
  /\ proc[p].pc = "get"
  /\ \E i \in proc[p].members :
       LET sub == subs[Ep(p)][i] IN
       \/ NoFault /\ Goto(p, Examine(p, i, sub, getDestination(Ep(p), TRUE)))
       \/ Fault("probe")
            /\ Goto(p, Examine(p, i, sub, getDestination(Ep(p), FALSE)))
       \/ Fault("get") /\ Goto(p, Return(proc[p], "err"))
  /\ UNCHANGED <<scanVars, recVars, chanVars, bmcVars>>

\* deleteSubscriptionForWrongXname, called from isDupRFSubscription
DupPrune(p) ==
  /\ proc[p].pc = "dupPrune"
  /\ \/ NoFault /\ Delete(Ep(p), proc[p].cur)
     \/ Fault("delete") /\ UNCHANGED bmcVars
  /\ Goto(p, DupOn(proc[p], proc[p].members \ {proc[p].cur}))
  /\ UNCHANGED <<scanVars, recVars, chanVars>>

\* fixSubscriptionMismatch, its PATCH: only a transport error counts as a
\* failure, so a refused PATCH, or one of a subscription that has gone,
\* is a success to the collector.
DupPatch(p) ==
  LET e == Ep(p)
      i == proc[p].cur
  IN /\ proc[p].pc = "patch"
     /\ \/ /\ NoFault
           /\ subs' = IF subs[e][i] = NoSub THEN subs
                      ELSE [subs EXCEPT ![e][i].ctx = e]
           /\ Goto(p, Return(proc[p], "dup"))
        \/ /\ Fault("patchrefused")
           /\ UNCHANGED subs
           /\ Goto(p, Return(proc[p], "dup"))
        \/ /\ Fault("patch")
           /\ UNCHANGED subs
           /\ Goto(p, [proc[p] EXCEPT !.pc = "fixDelete"])
     /\ UNCHANGED <<scanVars, recVars, chanVars, used>>

\* fixSubscriptionMismatch, its DELETE
FixDelete(p) ==
  /\ proc[p].pc = "fixDelete"
  /\ \/ NoFault /\ Delete(Ep(p), proc[p].cur)
     \/ Fault("delete") /\ UNCHANGED bmcVars
  /\ Goto(p, Return(proc[p], "missing"))
  /\ UNCHANGED <<scanVars, recVars, chanVars>>

(***************************************************************************)
(* rfSubscribe, the rest of the worker's loop body.                        *)
(***************************************************************************)
NextGroup(frame) == [frame EXCEPT !.pc = "next", !.grp = {}, !.res = "none"]

WorkerReturn(r) ==
  /\ proc[r].pc = "ret"
  /\ \/ /\ proc[r].res = "err"
        /\ status' = [status EXCEPT ![r] = "ERROR"]
        /\ Goto(r, NextGroup(proc[r]))
     \/ /\ proc[r].res = "dup"
        /\ status' = [status EXCEPT ![r] = "COMPLETE"]
        /\ Goto(r, [proc[r] EXCEPT !.pc = "append", !.res = "none"])
     \/ /\ proc[r].res = "missing"
        /\ UNCHANGED status
        /\ Goto(r, [proc[r] EXCEPT !.pc = "eventTypes", !.res = "none"])
  /\ UNCHANGED <<scanVars, prefixGroups, chanVars, bmcVars, nfaults>>

\* the group is there: from now on verification looks for it
AppendGroup(r) ==
  /\ proc[r].pc = "append"
  /\ prefixGroups' =
       [prefixGroups EXCEPT ![r] = appendUniqueRegPrefix(proc[r].grp, @)]
  /\ Goto(r, NextGroup(proc[r]))
  /\ UNCHANGED <<scanVars, status, chanVars, bmcVars, nfaults>>

\* doGetEventTypes
GetEventTypes(r) ==
  /\ proc[r].pc = "eventTypes"
  /\ \/ /\ NoFault
        /\ UNCHANGED status
        /\ Goto(r, [proc[r] EXCEPT !.pc = "post"])
     \/ /\ Fault("get")
        /\ status' = [status EXCEPT ![r] = "ERROR"]
        /\ Goto(r, NextGroup(proc[r]))
  /\ UNCHANGED <<scanVars, prefixGroups, chanVars, bmcVars>>

\* The BMC answers 400 to a streaming subscription it does not support and
\* another error when its table is full.
Refuses(e, grp) == FreeIds(e) = {} \/ (grp # {} /\ e \in NoStreaming)

\* Mutant: the context is the normalised name of the endpoint.
NewSub_Normalized(e, grp, probed) ==
  LET d == getDestination(e, probed)
  IN  [base |-> d.base, x |-> d.x, ctx |-> NormalizeHMSCompID[e], pfx |-> grp]

NewSub(e, grp, probed) ==
  LET d == getDestination(e, probed)
  IN  [base |-> d.base, x |-> d.x, ctx |-> e, pfx |-> grp]

\* postRFSubscription returns the error of json.Marshal, never that of the
\* request: whatever the POST's fate, the worker goes on to the next group.
PostCreated(r, probed) ==
  LET e == Ep(r)
  IN /\ ~Refuses(e, proc[r].grp)
     /\ \E i \in FreeIds(e) : Create(e, i, NewSub(e, proc[r].grp, probed))

\* the answer is lost and HTTPClientPair.Do sends the request once more
PostRetried(r) ==
  LET e == Ep(r)
      s == NewSub(e, proc[r].grp, TRUE)
  IN /\ ~Refuses(e, proc[r].grp)
     /\ \E i \in FreeIds(e) : \E j \in FreeIds(e) \ {i} :
          /\ subs' = [subs EXCEPT ![e][i] = s, ![e][j] = s]
          /\ used' = [used EXCEPT ![e] = @ \cup {i, j}]

Post(r) ==
  /\ proc[r].pc = "post"
  /\ \/ /\ \/ NoFault /\ PostCreated(r, TRUE)
           \/ Fault("probe") /\ PostCreated(r, FALSE)
           \/ Fault("postretried") /\ PostRetried(r)
        /\ Goto(r, [proc[r] EXCEPT !.pc = "append"])
     \/ /\ \/ NoFault /\ Refuses(Ep(r), proc[r].grp) /\ UNCHANGED bmcVars
           \/ Fault("post") /\ UNCHANGED bmcVars
           \/ Fault("postlost") /\ PostCreated(r, TRUE)
        /\ Goto(r, NextGroup(proc[r]))
  /\ UNCHANGED <<scanVars, recVars, chanVars>>

\* after the last group, whatever happened to it
WorkerDone(r) ==
  /\ proc[r].pc = "next" /\ proc[r].todo = <<>>
  /\ status' = [status EXCEPT ![r] = "COMPLETE"]
  /\ Goto(r, Idle)
  /\ UNCHANGED <<scanVars, prefixGroups, chanVars, bmcVars, nfaults>>

DupStep(p) ==
  DupList(p) \/ DupGet(p) \/ DupPrune(p) \/ DupPatch(p) \/ FixDelete(p)

Worker(r) ==
  \/ PruneList(r) \/ PruneGet(r) \/ PruneDelete(r)
  \/ DupStep(r)
  \/ WorkerReturn(r) \/ GetEventTypes(r) \/ Post(r) \/ AppendGroup(r)
  \/ WorkerDone(r)

(***************************************************************************)
(* rfVerifySub.                                                            *)
(***************************************************************************)
VerifySkip ==
  /\ verify # <<>>
  /\ status[Head(verify)] # "COMPLETE"
  /\ verify' = Tail(verify)
  /\ UNCHANGED <<scanVars, recVars, pending, proc, bmcVars, nfaults>>

VerifyRecv ==
  /\ verify # <<>>
  /\ status[Head(verify)] = "COMPLETE"
  /\ \E v \in Verifiers :
       /\ proc[v] = Idle
       /\ Goto(v, [Idle EXCEPT !.rec = Head(verify), !.pc = "range"])
  /\ verify' = Tail(verify)
  /\ UNCHANGED <<scanVars, recVars, pending, bmcVars, nfaults>>

\* range *inSub.PrefixGroups evaluates the slice once
VerifyRange(v) ==
  /\ proc[v].pc = "range"
  /\ Goto(v, [proc[v] EXCEPT !.pc = "next",
                             !.todo = prefixGroups[proc[v].rec]])
  /\ UNCHANGED <<scanVars, recVars, chanVars, bmcVars, nfaults>>

\* Mutant: a group that is found resets the status.
VerifierReturn_Reset(v) ==
  /\ proc[v].pc = "ret"
  /\ status' = [status EXCEPT ![proc[v].rec] =
                  IF proc[v].res = "dup" THEN "COMPLETE" ELSE "ERROR"]
  /\ Goto(v, NextGroup(proc[v]))
  /\ UNCHANGED <<scanVars, prefixGroups, chanVars, bmcVars, nfaults>>

\* Mutant: only a failed check counts, a missing subscription does not.
VerifierReturn_ErrOnly(v) ==
  /\ proc[v].pc = "ret"
  /\ status' = IF proc[v].res = "err"
               THEN [status EXCEPT ![proc[v].rec] = "ERROR"] ELSE status
  /\ Goto(v, NextGroup(proc[v]))
  /\ UNCHANGED <<scanVars, prefixGroups, chanVars, bmcVars, nfaults>>

VerifierReturn(v) ==
  /\ proc[v].pc = "ret"
  /\ \/ /\ proc[v].res \in {"err", "missing"}
        /\ status' = [status EXCEPT ![proc[v].rec] = "ERROR"]
     \/ proc[v].res = "dup" /\ UNCHANGED status
  /\ Goto(v, NextGroup(proc[v]))
  /\ UNCHANGED <<scanVars, prefixGroups, chanVars, bmcVars, nfaults>>

VerifierDone(v) ==
  /\ proc[v].pc = "next" /\ proc[v].todo = <<>>
  /\ Goto(v, Idle)
  /\ UNCHANGED <<scanVars, recVars, chanVars, bmcVars, nfaults>>

Verifier(v) ==
  VerifyRange(v) \/ DupStep(v) \/ VerifierReturn(v) \/ VerifierDone(v)

(***************************************************************************)
(* The specification.                                                      *)
(***************************************************************************)
Init ==
  /\ hsmEndpoints = {} /\ toScan = {} /\ subCheckCnt = 0
  /\ endpoints = [e \in Endpoints |-> NoRec]
  /\ status = [r \in Recs |-> "ERROR"]       \* not allocated
  /\ prefixGroups = [r \in Recs |-> <<>>]
  /\ pending = <<>> /\ verify = <<>>
  /\ proc = [p \in Procs |-> Idle]
  /\ subs \in [Endpoints -> Stores]
  /\ used = [e \in Endpoints |-> IdsOf(subs[e])]
  /\ nfaults = 0

Environment ==
  \E e \in Endpoints : HSMDiscover(e) \/ Replace(e) \/ ForeignSubscribe(e)
MainLoop == ScanStart \/ \E e \in Endpoints : Scan(e)
VerifyDispatch == VerifySkip \/ VerifyRecv

Next ==
  \/ Environment
  \/ MainLoop
  \/ SubRecv
  \/ VerifyDispatch
  \/ \E r \in Recs : Worker(r)
  \/ \E v \in Verifiers : Verifier(v)

\* Every goroutine that can take a step is scheduled eventually, and every
\* HTTP request ends (the clients have timeouts).  HSM and the BMCs owe
\* nothing.
Fairness ==
  /\ WF_vars(MainLoop) /\ WF_vars(SubRecv) /\ WF_vars(VerifyDispatch)
  /\ \A r \in Recs : WF_vars(Worker(r))
  /\ \A v \in Verifiers : WF_vars(Verifier(v))

Spec == Init /\ [][Next]_vars
FairSpec == Spec /\ Fairness

(***************************************************************************)
(* Safety.                                                                 *)
(***************************************************************************)
\* Every variable has its type, and neither channel exceeds the capacity
\* doRFSubscribe made it with.
TypeOK ==
  /\ hsmEndpoints \subseteq Endpoints
  /\ toScan \subseteq hsmEndpoints
  /\ subCheckCnt \in 0 .. SubCheckFreq - 1
  /\ endpoints \in [Endpoints -> Recs \cup {NoRec}]
  /\ status \in [Recs -> Status]
  /\ prefixGroups \in [Recs -> Seq(Group)]
  /\ pending \in Seq(Recs) /\ Len(pending) <= ChanCap
  /\ verify \in Seq(Recs) /\ Len(verify) <= ChanCap
  /\ proc \in [Procs -> Frame]
  /\ subs \in [Endpoints -> Store]
  /\ used \in [Endpoints -> SUBSET SubIds]
  /\ nfaults \in 0 .. MaxFaults

Current(r) == endpoints[EpOf[r]] = r

\* An endpoint doRFSubscribe holds as PENDING is never forgotten: its record
\* waits in the channel or its rfSubscribe goroutine is running.  Nothing
\* else would ever take the endpoint out of PENDING again.
PendingHasWorker ==
  \A r \in Recs : Current(r) /\ status[r] = "PENDING"
     => r \in Elems(pending) \/ proc[r].pc # "idle"

\* Once the worker of a record has finished, the ERROR a verifier writes is
\* there until doRFSubscribe reads it and starts over with a new record: no
\* other goroutine, of this or of an earlier record, overwrites it.
VerifyErrorKept ==
  [][\A r \in Recs :
       Current(r) /\ status[r] = "ERROR" /\ proc[r].pc = "idle"
         => status'[r] = "ERROR"]_vars

\* A subscription that shows no trace of the collector: neither its Context
\* nor the end of its destination is an xname or this endpoint's ID.
NotOurs(e, sub) ==
  sub # NoSub /\ sub.ctx \notin Xnames /\ sub.x \notin Xnames \cup {e}

\* No step of the collector (proc changes) deletes or patches a subscription
\* of another service, however the listing, the reading and the deleting of
\* subscriptions by several goroutines interleave with its creation.
ForeignUntouched ==
  [][proc' # proc =>
       \A e \in Endpoints, i \in SubIds :
         NotOurs(e, subs[e][i]) => subs'[e][i] = subs[e][i]]_vars

\* "This function should only be used to delete subscriptions where
\* isSubscriptionForWrongXname returns true": what the DELETE of
\* deleteSubscriptionForWrongXname removes is for the wrong xname.
DeletesOnlyWrongXname ==
  [][\A p \in Procs :
       proc[p].pc \in {"pruneDelete", "dupPrune"} /\ proc'[p] # proc[p] =>
         LET e == Ep(p)
             sub == subs[e][proc[p].cur]
         IN  subs' # subs /\ sub # NoSub
               => isSubscriptionForWrongXname(e, sub)]_vars

\* a subscription for group grp of endpoint e, as the collector makes it
Right(e, grp, sub) ==
  /\ sub # NoSub
  /\ Destination(sub) = getDestination(e, TRUE)
  /\ sub.ctx = e
  /\ Matches(sub, grp)

\* a goroutine has picked this subscription for a PATCH or a DELETE
CurPcs == {"pruneDelete", "dupPrune", "patch", "fixDelete"}
Picked(e, i) ==
  \E p \in Procs : proc[p].pc \in CurPcs /\ Ep(p) = e /\ proc[p].cur = i

\* Pruning and context fixing leave a subscription alone that is as the
\* collector makes it for this endpoint: none of their goroutines changes it,
\* deletes it or picks it for that (rf_subscriptions.go 180-301, 491-533).
\* One that was picked while its context was wrong, and that another
\* goroutine has mended since, is not safe from the DELETE.
RightKept ==
  [][proc' # proc =>
       \A e \in Endpoints, i \in SubIds, g \in Group :
         Right(e, g, subs[e][i]) /\ ~Picked(e, i)
           => subs'[e][i] = subs[e][i] /\ ~Picked(e, i)']_vars

\* "If already subscribed, don't add a second one": a BMC never holds two
\* subscriptions for the same endpoint and registry prefix group.  This holds
\* while the requests that look for it work; a failed one, or a POST executed
\* twice, makes it false.
NoDuplicateSubs ==
  \A e \in Endpoints, g \in Group, i, j \in SubIds :
    Right(e, g, subs[e][i]) /\ Right(e, g, subs[e][j]) => i = j

\* "If the subscription is still in the process of being set up ... then
\* don't check it yet": a verifier about to read PrefixGroups never runs
\* beside the worker that appends to them.
VerifyOnlyWhenSetUp ==
  \A v \in Verifiers : proc[v].pc = "range" => proc[proc[v].rec].pc = "idle"

(***************************************************************************)
(* Liveness.                                                               *)
(***************************************************************************)
Required(e) ==
  {g \in Elems(registryPrefixGroups) : ~(g # {} /\ e \in NoStreaming)}

AllPresent(e) ==
  \A g \in Required(e) : \E i \in SubIds : Right(e, g, subs[e][i])

\* Once the BMCs stop losing subscriptions, every endpoint HSM reports ends
\* up with all its subscriptions, with its own destination and context, and
\* keeps them.
Subscribed ==
  \A e \in Endpoints \ NoSubscribe :
    <>[](e \in hsmEndpoints => AllPresent(e))

\* Every subscription of another xname that hardware brought along is
\* deleted in the end.
StalePruned ==
  \A e \in Endpoints \ NoSubscribe :
    (e \in hsmEndpoints) ~>
      (\A i \in SubIds : ~isSubscriptionForWrongXname(e, subs[e][i]))

(***************************************************************************)
(* RFSubscriptions implements SubscriptionStore.                           *)
(***************************************************************************)
BMC == INSTANCE SubscriptionStore WITH
  Foreign <- ForeignSubs,
  Made <- [e \in Endpoints |->
             [base : {"http", "https"}, x : {e}, ctx : {e}, pfx : Group]],
  Addressed <- [e \in Endpoints |->
                  [base : {"http", "https"}, x : {e}, ctx : Names, pfx : Group]],
  Stale <- [e \in Endpoints |->
              {s \in EventSubscription : isSubscriptionForWrongXname(e, s)}]

\* A BMC that gives no id out twice cannot tell the collector, whose
\* goroutines list, read, patch and delete in separate requests and from
\* listings that grow old, from one that looks at a subscription in the
\* moment it changes it (rf_subscriptions.go 80-347).
StoreAsPromised == BMC!Spec
=============================================================================
