---------------------------- MODULE EndpointAccess ----------------------------
(***************************************************************************)
(* How the goroutines of the collector reach a Redfish endpoint: the       *)
(* refresh of the endpoint records from HSM (hmcollector.go), doHTTPAction *)
(* with its refresh of refused credentials (http.go, vault.go), the        *)
(* Redfish type cache (rf.go, cache.go), and the HTTP client, which is     *)
(* made at start-up and exchanged when the CA bundle rolls.                *)
(*                                                                         *)
(* All goroutines share one record per endpoint and use it without a       *)
(* lock.  Its User and Password are read and written in two steps and, as  *)
(* Go strings, each in one; both are numbers here, the generation of the   *)
(* credentials, 0 for the empty string.                                    *)
(***************************************************************************)
EXTENDS Naturals, FiniteSets

CONSTANTS
  Endpoints,     \* IDs of the Redfish endpoints HSM lists
  NodeBMCs,      \* those GetHMSType calls NodeBMC
  Callers,       \* goroutines that use the endpoints
  Kinds,         \* what they do: "plain" requests or "type" lookups
  VaultEnabled,  \* flag vault_enabled
  Locked,        \* endpoints for which Vault always fails with an error
  NoSecret,      \* endpoints whose credentials are not in Vault at first
  StartTries,    \* attempts to make the first client, 10 in the code
  Quiet,         \* TRUE: HSM rediscovers nothing while a type is looked up
  Faults,        \* the kinds of event the environment may cause
  MaxFaults      \* how many of them

ASSUME AccessAssumption ==
  /\ Endpoints # {}   \* with none nothing is ever called
  /\ NodeBMCs \subseteq Endpoints /\ Locked \subseteq Endpoints
  /\ NoSecret \subseteq Endpoints
  /\ Kinds \subseteq {"plain", "type"}
  /\ VaultEnabled \in BOOLEAN /\ Quiet \in BOOLEAN
  /\ StartTries \in Nat \ {0} /\ MaxFaults \in Nat

\* a recognised type stands for every one of the Chassis paths
Type == {"Hpe", "OpenBmc"}
RfType == Type \cup {"Unknown", "Unset"}
Gen == 0 .. MaxFaults + 1
Pair == Gen \X Gen

Caller == [pc : {"idle", "read", "build", "auth", "rlock", "http", "refused",
                 "keep", "vault", "setUser", "setPassword", "compare",
                 "comparePassword", "write"},
           ep : Endpoints, kind : {"plain", "type"},
           sent : Pair,   \* what the request was authorised with
           prev : Pair,   \* previousUsername and previousPassword
           cred : Gen,    \* what Vault answered
           type : RfType]

VARIABLES
  hsm,          \* what HSM says of every endpoint
  hardware,     \* the type of the BMC that is there
  seen,         \* endpoints HSM has discovered since they were exchanged
  bmc, vault,   \* credentials the BMC accepts, and those in Vault (0: none)
  snap, todo,   \* the answer of HSM and what is left of it to go through
  refresher,    \* where doUpdateHSMEndpoints is
  known,        \* keys of HSMEndpoints
  lastAttempt,  \* DiscInfo.LastAttempt of every record
  user, password,
  cache,        \* endpointsCache
  answered,     \* what GetRedfishType last returned for every endpoint
  caller,       \* the goroutines in doHTTPAction and GetRedfishType
  ca,           \* the CA bundle, what is watched of it, and rfClient
  roll,         \* caChangeCB
  unusable,     \* the attempt HSM was at when a lookup's answer could not
                \* be used (history)
  nfaults

envVars == <<hsm, hardware, seen, bmc, vault>>
refVars == <<snap, todo, refresher, known>>
epVars == <<lastAttempt, user, password>>
typeVars == <<cache, answered, unusable>>
rollVars == <<ca, roll>>
vars == <<envVars, refVars, epVars, typeVars, caller, rollVars, nfaults>>

Ca == [phase : {"create", "register", "run"}, tries : 0 .. StartTries,
       bundle : 1 .. MaxFaults + 1,    \* its contents, as generations
       watched : 0 .. MaxFaults + 1,   \* baseChain of the watcher, 0: none
       client : 0 .. MaxFaults + 1,    \* what rfClient was made from, 0: no
                                       \* bundle
       failed : BOOLEAN,   \* the last attempt failed and was logged (history)
       unseen : BOOLEAN]   \* the client was out of date when the watch began,
                           \* of which nothing tells (history)

Hsm == [attempt : 1 .. MaxFaults + 1, ok : BOOLEAN]

TypeOK ==
  /\ hsm \in [Endpoints -> Hsm] /\ snap \in [Endpoints -> Hsm]
  /\ hardware \in [Endpoints -> Type] /\ seen \subseteq Endpoints
  /\ bmc \in [Endpoints -> Gen] /\ vault \in [Endpoints -> Gen]
  /\ todo \subseteq Endpoints /\ known \subseteq Endpoints
  /\ refresher \in {"sleep", "walk"}
  /\ lastAttempt \in [Endpoints -> 0 .. MaxFaults + 1]
  /\ user \in [Endpoints -> Gen] /\ password \in [Endpoints -> Gen]
  /\ cache \in [Endpoints -> [attempt : 0 .. MaxFaults + 1, type : RfType]]
  /\ answered \in [Endpoints -> RfType]
  /\ caller \in [Callers -> Caller]
  /\ ca \in Ca /\ roll \in {"idle", "waiting", "held"}
  /\ unusable \in [Endpoints -> 0 .. MaxFaults + 1]
  /\ nfaults \in 0 .. MaxFaults

Fault(f) == f \in Faults /\ nfaults < MaxFaults /\ nfaults' = nfaults + 1

Idle == [pc |-> "idle", ep |-> CHOOSE e \in Endpoints : TRUE, kind |-> "plain",
         sent |-> <<0, 0>>, prev |-> <<0, 0>>, cred |-> 0, type |-> "Unset"]

(***************************************************************************)
(* doUpdateHSMEndpoints.  A list that cannot be had changes nothing.       *)
(***************************************************************************)
RefreshStart ==
  /\ ca.phase = "run" /\ refresher = "sleep"
  /\ refresher' = "walk"
  /\ snap' = hsm /\ todo' = Endpoints
  /\ UNCHANGED <<envVars, known, epVars, typeVars, caller, rollVars, nfaults>>

\* only the discovery data of a known endpoint is brought up to date
RefreshKnown(e) ==
  /\ e \in todo /\ e \in known
  /\ todo' = todo \ {e}
  /\ lastAttempt' = [lastAttempt EXCEPT ![e] = snap[e].attempt]
  /\ UNCHANGED <<envVars, snap, refresher, known, user, password, typeVars,
                 caller, rollVars, nfaults>>

\* Mutant: an endpoint that cannot be used yet ends the walk.
RefreshSkip_Break(e) ==
  /\ e \in todo /\ e \notin known
  /\ ~snap[e].ok \/ (VaultEnabled /\ e \in Locked)
  /\ todo' = {}
  /\ UNCHANGED <<envVars, snap, refresher, known, epVars, typeVars, caller,
                 rollVars, nfaults>>

\* not DiscoverOK, or Vault fails: perhaps the next time around
RefreshSkip(e) ==
  /\ e \in todo /\ e \notin known
  /\ ~snap[e].ok \/ (VaultEnabled /\ e \in Locked)
  /\ todo' = todo \ {e}
  /\ UNCHANGED <<envVars, snap, refresher, known, epVars, typeVars, caller,
                 rollVars, nfaults>>

\* Vault fails once
RefreshVaultFails(e) ==
  /\ Fault("vault") /\ VaultEnabled
  /\ e \in todo /\ e \notin known /\ snap[e].ok
  /\ todo' = todo \ {e}
  /\ UNCHANGED <<envVars, snap, refresher, known, epVars, typeVars, caller,
                 rollVars>>

\* the record gets what Vault has, which may be nothing: empty credentials
RefreshNew(e) ==
  /\ e \in todo /\ e \notin known
  /\ snap[e].ok /\ ~(VaultEnabled /\ e \in Locked)
  /\ todo' = todo \ {e}
  /\ known' = known \cup {e}
  /\ lastAttempt' = [lastAttempt EXCEPT ![e] = snap[e].attempt]
  /\ IF VaultEnabled
     THEN /\ user' = [user EXCEPT ![e] = vault[e]]
          /\ password' = [password EXCEPT ![e] = vault[e]]
     ELSE UNCHANGED <<user, password>>
  /\ UNCHANGED <<envVars, snap, refresher, typeVars, caller, rollVars, nfaults>>

RefreshEnd ==
  /\ refresher = "walk" /\ todo = {}
  /\ refresher' = "sleep"
  /\ UNCHANGED <<envVars, snap, todo, known, epVars, typeVars, caller,
                 rollVars, nfaults>>

(***************************************************************************)
(* GetRedfishType and doHTTPAction.                                        *)
(***************************************************************************)
\* Mutant: a lookup that fails returns the zero value.
Finish_Zero(frame, type) ==
  IF frame.kind = "plain" THEN Idle
  ELSE [frame EXCEPT !.pc = "write",
                     !.type = IF type = "Unset" THEN "" ELSE type]

\* the action of a plain request ends; a type lookup goes on to the cache
Finish(frame, type) ==
  IF frame.kind = "plain" THEN Idle
  ELSE [frame EXCEPT !.pc = "write", !.type = type]

Goto(c, frame) ==
  /\ caller' = [caller EXCEPT ![c] = frame]
  /\ UNCHANGED <<envVars, refVars, epVars, typeVars, rollVars, nfaults>>

Call(c, e, k) ==
  /\ caller[c].pc = "idle" /\ e \in known
  /\ Goto(c, [Idle EXCEPT !.ep = e, !.kind = k,
                          !.pc = IF k = "type" THEN "read" ELSE "build"])

\* Mutant: the timestamp is not compared.
CacheHit_Any(e) == cache[e].type # "Unset"

\* a hit needs the timestamp of the last discovery; an entry of type Unset
\* counts as none
CacheHit(e) ==
  cache[e].attempt = lastAttempt[e] /\ cache[e].type # "Unset"

\* Mutant: an entry that is out of date is renewed with its old type.
ReadRfType_Renew(c) ==
  LET e == caller[c].ep IN
  /\ caller[c].pc = "read"
  /\ IF CacheHit(e)
     THEN /\ answered' = [answered EXCEPT ![e] = cache[e].type]
          /\ caller' = [caller EXCEPT ![c] = Idle]
     ELSE /\ caller' = [caller EXCEPT ![c] =
                          IF cache[e].type = "Unset" THEN [@ EXCEPT !.pc = "build"]
                          ELSE Finish(@, cache[e].type)]
          /\ UNCHANGED answered
  /\ UNCHANGED <<envVars, refVars, epVars, cache, unusable, rollVars, nfaults>>

ReadRfType(c) ==
  LET e == caller[c].ep IN
  /\ caller[c].pc = "read"
  /\ IF CacheHit(e)
     THEN /\ answered' = [answered EXCEPT ![e] = cache[e].type]
          /\ caller' = [caller EXCEPT ![c] = Idle]
     ELSE /\ caller' = [caller EXCEPT ![c] =
                          IF e \in NodeBMCs THEN [@ EXCEPT !.pc = "build"]
                          ELSE Finish(@, "Unknown")]
          /\ UNCHANGED answered
  /\ UNCHANGED <<envVars, refVars, epVars, cache, unusable, rollVars, nfaults>>

\* SetBasicAuth with the User of the record ...
BuildRequest(c) ==
  /\ caller[c].pc = "build"
  /\ Goto(c, [caller[c] EXCEPT !.pc = "auth",
                             !.sent = <<user[caller[c].ep], 0>>])

\* ... and the Password
BuildPassword(c) ==
  /\ caller[c].pc = "auth"
  /\ Goto(c, [caller[c] EXCEPT !.pc = "rlock",
                             !.sent = <<@[1], password[caller[c].ep]>>])

\* Mutant: the read lock is taken around the whole action too, and the
\* request takes it a second time.
Holds_Nested(c) == caller[c].pc \in {"rlock", "http"}

\* the read lock is held while the request is under way
Holds(c) == caller[c].pc = "http"

\* rfClientLock.RLock(): a writer that waits keeps new readers out
RLock(c) ==
  /\ caller[c].pc = "rlock" /\ roll = "idle"
  /\ Goto(c, [caller[c] EXCEPT !.pc = "http"])

\* the BMC answers, and RUnlock(): 401 for wrong credentials
HttpAnswer(c) ==
  LET e == caller[c].ep IN
  /\ caller[c].pc = "http"
  /\ Goto(c, IF caller[c].sent = <<bmc[e], bmc[e]>>
             THEN Finish(caller[c], hardware[e])
             ELSE [caller[c] EXCEPT !.pc = "refused"])

HttpError(c) ==
  /\ Fault("http")
  /\ caller[c].pc = "http"
  /\ caller' = [caller EXCEPT ![c] = Finish(@, "Unset")]
  /\ UNCHANGED <<envVars, refVars, epVars, typeVars, rollVars>>

\* the answer to a lookup cannot be decoded, or names no known chassis
HttpGarbled(c) ==
  /\ Fault("garbled")
  /\ caller[c].pc = "http" /\ caller[c].kind = "type"
  /\ caller' = [caller EXCEPT ![c] = Finish(@, "Unknown")]
  /\ unusable' = [unusable EXCEPT ![caller[c].ep] = hsm[caller[c].ep].attempt]
  /\ UNCHANGED <<envVars, refVars, epVars, cache, answered, rollVars>>

\* "Keep track of the previous credentials": the user name, the password
Refused(c) ==
  /\ caller[c].pc = "refused"
  /\ Goto(c, [caller[c] EXCEPT !.pc = "keep",
                             !.prev = <<user[caller[c].ep], 0>>])

KeepPassword(c) ==
  /\ caller[c].pc = "keep"
  /\ Goto(c, [caller[c] EXCEPT !.pc = "vault",
                             !.prev = <<@[1], password[caller[c].ep]>>])

GetCompCred(c) ==
  LET e == caller[c].ep IN
  /\ caller[c].pc = "vault"
  /\ Goto(c, IF ~VaultEnabled THEN Finish(caller[c], "Unset")
             ELSE [caller[c] EXCEPT !.pc = "setUser", !.cred = vault[e]])

GetCompCredFails(c) ==
  /\ Fault("vault")
  /\ caller[c].pc = "vault"
  /\ caller' = [caller EXCEPT ![c] = Finish(@, "Unset")]
  /\ UNCHANGED <<envVars, refVars, epVars, typeVars, rollVars>>

\* updateEndpointWithCredentials writes the shared record
SetUser(c) ==
  /\ caller[c].pc = "setUser"
  /\ user' = [user EXCEPT ![caller[c].ep] = caller[c].cred]
  /\ caller' = [caller EXCEPT ![c] = [@ EXCEPT !.pc = "setPassword"]]
  /\ UNCHANGED <<envVars, refVars, lastAttempt, password, typeVars, rollVars,
                 nfaults>>

\* Mutant: only the user name is taken over.
SetPassword_Not(c) ==
  /\ caller[c].pc = "setPassword"
  /\ caller' = [caller EXCEPT ![c] = [@ EXCEPT !.pc = "compare"]]
  /\ UNCHANGED <<envVars, refVars, epVars, typeVars, rollVars, nfaults>>

SetPassword(c) ==
  /\ caller[c].pc = "setPassword"
  /\ password' = [password EXCEPT ![caller[c].ep] = caller[c].cred]
  /\ caller' = [caller EXCEPT ![c] = [@ EXCEPT !.pc = "compare", !.cred = 0]]
  /\ UNCHANGED <<envVars, refVars, lastAttempt, user, typeVars, rollVars, nfaults>>

\* a new call of the action
Again(frame) == [Idle EXCEPT !.ep = frame.ep, !.kind = frame.kind, !.pc = "build"]

\* credentials that changed are tried; others are an error
Compare(c) ==
  /\ caller[c].pc = "compare"
  /\ Goto(c, IF user[caller[c].ep] # caller[c].prev[1] THEN Again(caller[c])
             ELSE [caller[c] EXCEPT !.pc = "comparePassword"])

\* Mutant: the action is repeated whether they changed or not.
ComparePassword_Retry(c) ==
  /\ caller[c].pc = "comparePassword"
  /\ Goto(c, Again(caller[c]))

ComparePassword(c) ==
  /\ caller[c].pc = "comparePassword"
  /\ Goto(c, IF password[caller[c].ep] # caller[c].prev[2] THEN Again(caller[c])
             ELSE Finish(caller[c], "Unset"))

\* LastAttempt is read again
WriteRfType(c) ==
  LET e == caller[c].ep IN
  /\ caller[c].pc = "write"
  /\ cache' = [cache EXCEPT ![e] = [attempt |-> lastAttempt[e],
                                    type |-> caller[c].type]]
  /\ answered' = [answered EXCEPT ![e] = caller[c].type]
  /\ caller' = [caller EXCEPT ![c] = Idle]
  /\ UNCHANGED <<envVars, refVars, epVars, unusable, rollVars, nfaults>>

(***************************************************************************)
(* createRFClient: at start-up, and under rfClientLock when the bundle     *)
(* rolls.                                                                  *)
(***************************************************************************)
restVars == <<envVars, refVars, epVars, typeVars, caller>>

CreateClient ==
  /\ ca.phase = "create"
  /\ ca' = [ca EXCEPT !.client = ca.bundle, !.phase = "register"]
  /\ UNCHANGED <<restVars, roll, nfaults>>

\* after the last attempt a client without the bundle is made, and caURI is
\* emptied: nothing is watched
CreateFails ==
  /\ Fault("ca") /\ ca.phase = "create"
  /\ ca' = IF ca.tries + 1 < StartTries THEN [ca EXCEPT !.tries = @ + 1]
           ELSE [ca EXCEPT !.tries = @ + 1, !.failed = TRUE, !.phase = "run"]
  /\ UNCHANGED <<restVars, roll>>

\* CAUpdateRegister reads the bundle again to see later changes of it; one
\* that came since the client was made is not looked for
Register ==
  /\ ca.phase = "register"
  /\ ca' = [ca EXCEPT !.watched = ca.bundle, !.unseen = ca.bundle # ca.client,
                      !.phase = "run"]
  /\ UNCHANGED <<restVars, roll, nfaults>>

\* "This means no updates when CA bundle is rolled."
RegisterFails ==
  /\ Fault("ca") /\ ca.phase = "register"
  /\ ca' = [ca EXCEPT !.failed = TRUE, !.phase = "run"]
  /\ UNCHANGED <<restVars, roll>>

BundleChange ==
  /\ Fault("roll")
  /\ ca' = [ca EXCEPT !.bundle = @ + 1]
  /\ UNCHANGED <<restVars, roll>>

\* Mutant: a roll that does not get the lock at once is given up.
caChangeCB_TryLock ==
  /\ roll = "idle" /\ ca.watched \notin {0, ca.bundle}
  /\ ca' = [ca EXCEPT !.watched = ca.bundle]
  /\ roll' = IF \E c \in Callers : Holds(c) THEN "idle" ELSE "waiting"
  /\ UNCHANGED <<restVars, nfaults>>

\* the watcher, which waits for the callback, sees the change
caChangeCB ==
  /\ roll = "idle" /\ ca.watched \notin {0, ca.bundle}
  /\ ca' = [ca EXCEPT !.watched = ca.bundle]
  /\ roll' = "waiting"
  /\ UNCHANGED <<restVars, nfaults>>

RollLock ==
  /\ roll = "waiting" /\ \A c \in Callers : ~Holds(c)
  /\ roll' = "held"
  /\ UNCHANGED <<restVars, ca, nfaults>>

\* Mutant: the new client is assigned to a local variable.
RollDone_Local ==
  /\ roll = "held"
  /\ roll' = "idle"
  /\ ca' = [ca EXCEPT !.failed = FALSE, !.unseen = FALSE]
  /\ UNCHANGED <<restVars, nfaults>>

\* the bundle is read under the lock
RollDone ==
  /\ roll = "held"
  /\ roll' = "idle"
  /\ ca' = [ca EXCEPT !.client = ca.bundle, !.failed = FALSE, !.unseen = FALSE]
  /\ UNCHANGED <<restVars, nfaults>>

\* "using previous one"; nothing tries again before the next change
RollFails ==
  /\ Fault("ca") /\ roll = "held"
  /\ roll' = "idle"
  /\ ca' = [ca EXCEPT !.failed = TRUE]
  /\ UNCHANGED restVars

(***************************************************************************)
(* The environment.                                                        *)
(***************************************************************************)
\* The credentials are changed in Vault and at the BMC, in either order: one
\* event, of which the second half may come any time later.
Rotate(behind) ==
  IF behind THEN "rotate" \in Faults /\ UNCHANGED nfaults ELSE Fault("rotate")

ChangeVault(e) ==
  /\ Rotate(vault[e] < bmc[e])
  /\ vault' = [vault EXCEPT ![e] = @ + 1]
  /\ UNCHANGED <<hsm, hardware, seen, bmc, refVars, epVars, typeVars,
                 caller, rollVars>>

ChangeBmc(e) ==
  /\ Rotate(bmc[e] < vault[e])
  /\ bmc' = [bmc EXCEPT ![e] = @ + 1]
  /\ UNCHANGED <<hsm, hardware, seen, vault, refVars, epVars, typeVars,
                 caller, rollVars>>

\* a BMC of another make takes the slot
Exchange(e, t) ==
  /\ Fault("exchange")
  /\ hardware' = [hardware EXCEPT ![e] = t]
  /\ seen' = seen \ {e}
  /\ UNCHANGED <<hsm, bmc, vault, refVars, epVars, typeVars, caller, rollVars>>

\* HSM discovers the endpoint again, with or without success.  With Quiet,
\* and until the record says so, no type is being looked up.
Lookup(e) ==
  \E c \in Callers : /\ caller[c].pc # "idle" /\ caller[c].kind = "type"
                     /\ caller[c].ep = e

Rediscover(e, ok) ==
  /\ Fault("discover")
  /\ Quiet => ~Lookup(e)
  /\ hsm' = [hsm EXCEPT ![e] = [attempt |-> @.attempt + 1, ok |-> ok]]
  /\ seen' = seen \cup {e}
  /\ UNCHANGED <<hardware, bmc, vault, refVars, epVars, typeVars, caller, rollVars>>

Init ==
  /\ hardware = [e \in Endpoints |-> "Hpe"]
  /\ hsm \in {[e \in Endpoints |-> [attempt |-> 1, ok |-> ok[e]]] :
                ok \in [Endpoints -> BOOLEAN]}
  /\ seen = Endpoints
  /\ bmc = [e \in Endpoints |-> 1]
  /\ vault = [e \in Endpoints |-> IF e \in NoSecret THEN 0 ELSE 1]
  /\ snap = hsm /\ todo = {} /\ refresher = "sleep" /\ known = {}
  /\ lastAttempt = [e \in Endpoints |-> 0]
  /\ user = [e \in Endpoints |-> 0] /\ password = user
  /\ cache = [e \in Endpoints |-> [attempt |-> 0, type |-> "Unset"]]
  /\ answered = [e \in Endpoints |-> "Unset"]
  /\ caller = [c \in Callers |-> Idle]
  /\ ca = [phase |-> "create", tries |-> 0, bundle |-> 1, watched |-> 0,
           client |-> 0, failed |-> FALSE, unseen |-> FALSE]
  /\ unusable = [e \in Endpoints |-> 0]
  /\ roll = "idle" /\ nfaults = 0

RefreshStep ==
  \/ RefreshStart \/ RefreshEnd
  \/ \E e \in Endpoints : RefreshKnown(e) \/ RefreshSkip(e) \/ RefreshNew(e)
CallStep(c) == \E e \in Endpoints, k \in Kinds : Call(c, e, k)
ActionStep(c) ==
  \/ ReadRfType(c) \/ BuildRequest(c) \/ BuildPassword(c) \/ RLock(c)
  \/ HttpAnswer(c) \/ Refused(c) \/ KeepPassword(c) \/ GetCompCred(c)
  \/ SetUser(c) \/ SetPassword(c) \/ Compare(c) \/ ComparePassword(c)
  \/ WriteRfType(c)
RollStep == CreateClient \/ Register \/ caChangeCB \/ RollLock \/ RollDone

Environment(e) ==
  \/ ChangeVault(e) \/ ChangeBmc(e)
  \/ \E t \in Type : Exchange(e, t)
  \/ \E ok \in BOOLEAN : Rediscover(e, ok)

Next ==
  \/ RefreshStep
  \/ \E e \in Endpoints : RefreshVaultFails(e) \/ Environment(e)
  \/ \E c \in Callers : \/ CallStep(c) \/ ActionStep(c)
                        \/ HttpError(c) \/ HttpGarbled(c)
                        \/ GetCompCredFails(c)
  \/ RollStep \/ CreateFails \/ RegisterFails \/ RollFails
  \/ BundleChange

Spec == Init /\ [][Next]_vars

\* Goroutines are scheduled, requests end, the watcher looks, the refresh
\* timer fires and the verification of subscriptions uses every endpoint
\* again and again (those in Locked never become known, so they are never
\* used).
FairSpec ==
  /\ Spec
  /\ WF_vars(RefreshStep) /\ WF_vars(RollStep)
  /\ \A c \in Callers : WF_vars(ActionStep(c))
  /\ \A e \in Endpoints \ Locked, k \in Kinds :
       SF_vars(\E c \in Callers : Call(c, e, k))

(***************************************************************************)
(* Properties.                                                             *)
(***************************************************************************)
\* "Ignore this endpoint for now, maybe the situation will improve the next
\* time around." (hmcollector.go 174): an endpoint HSM goes on reporting as
\* discovered and Vault in the end answers for, with a secret or without,
\* becomes known, whatever the state of the endpoints listed before it.
EventuallyKnown ==
  \A e \in Endpoints \ Locked : <>[](hsm[e].ok) => <>[](e \in known)

\* Once Vault and BMC agree, and HSM reports the endpoint as discovered, the
\* shared record ends up with the credentials that work, whatever the order
\* in which the goroutines wrote its two fields, and also when it was made
\* before there was a secret in Vault (hmcollector.go 165-183, http.go
\* 73-100, vault.go 68-70).
CredentialsRecover ==
  \A e \in Endpoints \ Locked :
    <>[](vault[e] = bmc[e] /\ hsm[e].ok) =>
      <>[](e \in known /\ user[e] = bmc[e] /\ password[e] = bmc[e])

\* No action is repeated for ever: one whose credentials stay refused ends
\* with an error (http.go 91-99).
ActionsEnd == \A c \in Callers : caller[c].pc # "idle" ~> caller[c].pc = "idle"

\* "Wait for all reader locks to release, prevent new reader locks."
\* (hmcollector.go 271): the roll of the CA bundle gets its lock and gives
\* it back, and the Redfish operations it holds up go on.
RollCompletes == roll # "idle" ~> roll = "idle"

\* "Keep track of the previous credentials to see if they change." (http.go
\* 79): an action gives up with unchanged credentials only if those it was
\* refused with are the ones the record still holds.
GivesUpOnSame ==
  [][\A c \in Callers :
       (caller[c].pc = "comparePassword" /\
        caller'[c].pc \notin {"comparePassword", "build"})
         => caller[c].sent = <<user[caller[c].ep], password[caller[c].ep]>>]_vars

\* "HTTP transports/clients now set up with new CA bundle." (hmcollector.go
\* 319): the client in use is in the end the one made from the bundle as it
\* is, also when that changes again while the roll waits for requests to
\* end; unless the last attempt failed, or the bundle changed between the
\* making of the first client and the start of the watch and not since.
ClientFollowsBundle ==
  <>[](ca.failed) \/ <>[](ca.unseen) \/ <>[](ca.client = ca.bundle)

\* No change of the watched bundle is lost (hmcollector.go 313-321, 384-393):
\* whenever the client in use is not of the bundle as it is, the watcher has
\* still to see a change, a roll is under way, or the last attempt failed
\* and the log says so.  This is of clients that were up to date when the
\* watch began: a change between createRFClient (361) and CAUpdateRegister
\* (385) is silent, nothing is logged and nothing rolls until the next one.
StaleClientNoticed ==
  (ca.phase = "run" /\ ca.client # ca.bundle /\ ~ca.unseen) =>
    ca.failed \/ roll # "idle" \/ ca.watched \notin {0, ca.bundle}

\* An entry of the cache that bears the timestamp of HSM's last discovery
\* does not name the hardware that was there before it (cache.go 66-75),
\* however the lookup, the refresh of the records and HSM interleave, as long
\* as HSM discovers nothing while the type is being looked up.
CacheRight ==
  \A e \in Endpoints :
    (/\ e \in seen /\ cache[e].attempt = hsm[e].attempt
     /\ cache[e].type \in Type) => cache[e].type = hardware[e]

\* "cache has a value, however, hsm has since rediscovered the redfish
\* endpoint, and so return UnsetRfType" (cache.go 68-69): once HSM has seen
\* the hardware that is there, GetRedfishType ends up returning its type.  It
\* says Unknown for good only where an answer since the last discovery could
\* not be used (rf.go 79).
TypeFollowsHardware ==
  \A e \in NodeBMCs :
    <>[](e \in known /\ e \in seen /\ vault[e] = bmc[e]) =>
      <>[](\/ answered[e] = hardware[e]
           \/ answered[e] = "Unknown" /\ unusable[e] = hsm[e].attempt)
==============================================================================
