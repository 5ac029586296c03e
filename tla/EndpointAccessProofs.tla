------------------------- MODULE EndpointAccessProofs -------------------------
(***************************************************************************)
(* Proofs about module EndpointAccess: its types, with the bounds on what  *)
(* is counted there; that no change of the watched CA bundle is lost       *)
(* before a client is made of it; and that the type cache never gives an   *)
(* old type the timestamp of a new discovery.                              *)
(***************************************************************************)
EXTENDS EndpointAccess, TLAPS

(***************************************************************************)
(* The inductive invariant.                                                *)
(***************************************************************************)
\* No counter is ahead of the events that advance it: one event changes the
\* credentials in both places, and the second half only catches up.
CountInv ==
  /\ \A e \in Endpoints : /\ hsm[e].attempt <= nfaults + 1
                          /\ vault[e] <= nfaults + 1 /\ bmc[e] <= nfaults + 1
  /\ ca.bundle <= nfaults + 1
  /\ ca.phase = "create" => ca.tries < StartTries

\* The watcher knows no bundle that is still to come, and nothing rolls
\* unless it was registered.
RollInv ==
  /\ ca.watched <= ca.bundle
  /\ ca.phase # "run" => roll = "idle" /\ ca.watched = 0
  /\ (ca.phase = "run" /\ ca.watched = 0) => ca.failed /\ roll = "idle"
  /\ StaleClientNoticed

\* Only a lookup has to do with the cache, and attempts reach HSM, the answer
\* that is being gone through, the record and the cache in this order.
LookupInv ==
  /\ \A c \in Callers : caller[c].pc \in {"read", "write"} => caller[c].kind = "type"
  /\ \A e \in Endpoints : /\ cache[e].attempt <= lastAttempt[e]
                          /\ lastAttempt[e] <= snap[e].attempt
                          /\ snap[e].attempt <= hsm[e].attempt

\* What a lookup is about to write is the type of the hardware HSM has seen.
FoundInv ==
  \A c \in Callers :
    (/\ caller[c].pc = "write" /\ caller[c].type \in Type
     /\ caller[c].ep \in seen) => caller[c].type = hardware[caller[c].ep]

IInv == TypeOK /\ CountInv /\ RollInv /\ LookupInv
CacheInv == FoundInv /\ CacheRight

(***************************************************************************)
(* Lemmas about the operators.                                             *)
(***************************************************************************)
\* A goroutine without an action has the fields of one that has.
LEMMA IdleType == /\ Idle \in Caller
                  /\ Idle.pc = "idle" /\ Idle.kind = "plain"
<1>1. (CHOOSE e \in Endpoints : TRUE) \in Endpoints
  BY AccessAssumption
<1>2. 0 \in Gen
  BY AccessAssumption DEF Gen
<1> QED BY <1>1, <1>2 DEF Idle, Caller, Pair, RfType

\* An action that ends leaves the goroutine idle, or a lookup with the type
\* found at its entry of the cache.
LEMMA FinishType ==
  ASSUME NEW f \in Caller, NEW t \in RfType
  PROVE  /\ Finish(f, t) \in Caller
         /\ Finish(f, t).pc \in {"idle", "write"}
         /\ Finish(f, t).pc = "write" => /\ Finish(f, t).kind = "type"
                                         /\ Finish(f, t).ep = f.ep
                                         /\ Finish(f, t).type = t
<1>1. CASE f.kind = "plain"
  BY <1>1, IdleType DEF Finish
<1>2. CASE f.kind # "plain"
  <2>1. f.kind = "type"
    BY <1>2 DEF Caller
  <2>2. Finish(f, t) = [f EXCEPT !.pc = "write", !.type = t]
    BY <1>2 DEF Finish
  <2> QED BY <2>1, <2>2 DEF Caller
<1> QED BY <1>1, <1>2

\* What nobody but a goroutine's own step has changed.
OtherVars == <<envVars, refVars, epVars, typeVars, rollVars>>

\* A step that moves one goroutine to a frame of the right kind, and may
\* count a fault, keeps the invariant.
LEMMA Moves ==
  ASSUME IInv, NEW c \in Callers, NEW f \in Caller,
         f.pc \in {"read", "write"} => f.kind = "type",
         caller' = [caller EXCEPT ![c] = f], UNCHANGED OtherVars,
         nfaults' = nfaults \/ (nfaults < MaxFaults /\ nfaults' = nfaults + 1)
  PROVE  IInv'
<1> USE DEF OtherVars, envVars, refVars, epVars, typeVars, rollVars
<1>1. nfaults' \in 0 .. MaxFaults /\ nfaults <= nfaults'
  BY AccessAssumption DEF IInv, TypeOK
<1>2. TypeOK'
  BY <1>1 DEF IInv, TypeOK
<1>3. CountInv'
  <2>1. \A e \in Endpoints : hsm[e].attempt \in Nat /\ vault[e] \in Nat /\ bmc[e] \in Nat
    BY AccessAssumption DEF IInv, TypeOK, Hsm, Gen
  <2>2. ca.bundle \in Nat /\ nfaults \in Nat /\ nfaults' \in Nat
    BY <1>1, AccessAssumption DEF IInv, TypeOK, Ca
  <2> QED BY <1>1, <2>1, <2>2 DEF IInv, CountInv
<1>4. RollInv'
  BY DEF IInv, RollInv, StaleClientNoticed
<1>5. LookupInv'
  BY DEF IInv, LookupInv, TypeOK
<1> QED BY <1>2, <1>3, <1>4, <1>5 DEF IInv

\* What the cache holds stays right if the new frame's finding is right.
LEMMA MovesCache ==
  ASSUME CacheInv, TypeOK, NEW c \in Callers, NEW f \in Caller,
         (f.pc = "write" /\ f.type \in Type) => f.type = hardware[f.ep],
         caller' = [caller EXCEPT ![c] = f],
         UNCHANGED <<hsm, hardware, seen, cache>>
  PROVE  CacheInv'
<1>1. FoundInv'
  BY DEF CacheInv, FoundInv, TypeOK
<1>2. CacheRight'
  BY DEF CacheInv, CacheRight
<1> QED BY <1>1, <1>2 DEF CacheInv

\* Nothing of the cache is disturbed when these stay.
LEMMA CacheStays ==
  ASSUME CacheInv, UNCHANGED <<hsm, hardware, seen, cache, caller>>
  PROVE  CacheInv'
BY DEF CacheInv, FoundInv, CacheRight

(***************************************************************************)
(* The goroutines that use the endpoints.                                  *)
(***************************************************************************)
\* Every step of a goroutine keeps both invariants; a lookup finds the type
\* of the hardware that answers.
LEMMA CallerKeeps ==
  ASSUME IInv, NEW c \in Callers,
         \/ CallStep(c) \/ ActionStep(c)
         \/ HttpError(c) \/ HttpGarbled(c) \/ GetCompCredFails(c)
  PROVE  IInv' /\ (CacheInv => CacheInv')
<1> DEFINE f == caller[c]
<1> DEFINE e == caller[c].ep
<1>f. f \in Caller /\ e \in Endpoints /\ TypeOK
  BY DEF IInv, TypeOK, Caller
<1>g. f.pc \in {"read", "write"} => f.kind = "type"
  BY DEF IInv, LookupInv
<1>t. /\ {"Hpe", "OpenBmc", "Unknown", "Unset"} = RfType
      /\ "Unset" \notin Type /\ "Unknown" \notin Type
      /\ hardware[e] \in RfType
  BY <1>f DEF RfType, Type, TypeOK
<1>p. /\ <<user[e], 0>> \in Pair
      /\ <<f.sent[1], password[e]>> \in Pair /\ <<f.prev[1], password[e]>> \in Pair
  <2>1. 0 \in Gen
    BY AccessAssumption DEF Gen
  <2>2. f.sent[1] \in Gen /\ f.prev[1] \in Gen
    BY <1>f DEF Caller, Pair
  <2> QED BY <2>1, <2>2, <1>f DEF Pair, TypeOK
<1> HIDE DEF f, e
<1>k. ASSUME NEW h \in Caller, Goto(c, h),
             h.pc \in {"read", "write"} => h.kind = "type",
             (h.pc = "write" /\ h.type \in Type) => h.type = hardware[h.ep]
      PROVE  IInv' /\ (CacheInv => CacheInv')
  <2>1. IInv'
    BY <1>k, Moves DEF Goto, OtherVars
  <2>2. CacheInv => CacheInv'
    BY <1>k, <1>f, MovesCache DEF Goto, envVars, typeVars
  <2> QED BY <2>1, <2>2
<1>1. CASE CallStep(c)
  <2> PICK x \in Endpoints, k \in Kinds : Call(c, x, k)
    BY <1>1 DEF CallStep
  <2> DEFINE h == [Idle EXCEPT !.ep = x, !.kind = k,
                               !.pc = IF k = "type" THEN "read" ELSE "build"]
  <2>1. k \in {"plain", "type"}
    BY AccessAssumption
  <2>2. h \in Caller /\ h.kind = k /\ h.pc = (IF k = "type" THEN "read" ELSE "build")
    BY <2>1, IdleType DEF Caller
  <2>3. Goto(c, h)
    BY DEF Call
  <2> HIDE DEF h
  <2> QED BY <1>k, <2>2, <2>3
<1>2. CASE ReadRfType(c)
  <2>1. CASE CacheHit(e)
    <3>1. /\ answered' = [answered EXCEPT ![e] = cache[e].type]
          /\ caller' = [caller EXCEPT ![c] = Idle]
          /\ UNCHANGED <<envVars, refVars, epVars, cache, unusable, rollVars, nfaults>>
      BY <1>2, <2>1 DEF ReadRfType, e
    <3>2. cache[e].type \in RfType
      BY <1>f DEF TypeOK
    <3>3. TypeOK'
      BY <3>1, <3>2, <1>f, IdleType DEF TypeOK, envVars, refVars, epVars, rollVars
    <3>4. CountInv' /\ RollInv'
      BY <3>1 DEF IInv, CountInv, RollInv, StaleClientNoticed, envVars, rollVars
    <3>5. LookupInv'
      BY <3>1, <1>f, IdleType DEF IInv, LookupInv, TypeOK, envVars, epVars, refVars
    <3>6. CacheInv => CacheInv'
      BY <3>1, <1>f, MovesCache, IdleType DEF envVars
    <3> QED BY <3>3, <3>4, <3>5, <3>6 DEF IInv
  <2>2. CASE ~CacheHit(e)
    <3> DEFINE h == IF e \in NodeBMCs THEN [f EXCEPT !.pc = "build"]
                    ELSE Finish(f, "Unknown")
    <3>1. Goto(c, h)
      BY <1>2, <2>2, <1>f DEF ReadRfType, Goto, e, f, typeVars, TypeOK
    <3>2. CASE e \in NodeBMCs
      <4>1. h = [f EXCEPT !.pc = "build"]
        BY <3>2
      <4>2. h \in Caller /\ h.pc = "build"
        BY <4>1, <1>f DEF Caller
      <4> HIDE DEF h
      <4> QED BY <3>1, <4>2, <1>k
    <3>3. CASE e \notin NodeBMCs
      <4>1. h = Finish(f, "Unknown")
        BY <3>3
      <4> HIDE DEF h
      <4> QED BY <3>1, <4>1, <1>f, <1>t, <1>k, FinishType
    <3> QED BY <3>2, <3>3
  <2> QED BY <2>1, <2>2
<1>3. CASE BuildRequest(c)
  <2> DEFINE h == [f EXCEPT !.pc = "auth", !.sent = <<user[e], 0>>]
  <2>1. Goto(c, h)
    BY <1>3 DEF BuildRequest, e, f
  <2>2. h \in Caller /\ h.pc = "auth"
    BY <1>f, <1>p DEF Caller
  <2> HIDE DEF h
  <2> QED BY <2>1, <2>2, <1>k
<1>4. CASE BuildPassword(c)
  <2> DEFINE h == [f EXCEPT !.pc = "rlock", !.sent = <<f.sent[1], password[e]>>]
  <2>1. Goto(c, h)
    BY <1>4 DEF BuildPassword, e, f
  <2>2. h \in Caller /\ h.pc = "rlock"
    BY <1>f, <1>p DEF Caller
  <2> HIDE DEF h
  <2> QED BY <2>1, <2>2, <1>k
<1>5. CASE RLock(c)
  <2> DEFINE h == [f EXCEPT !.pc = "http"]
  <2>1. Goto(c, h)
    BY <1>5 DEF RLock, f
  <2>2. h \in Caller /\ h.pc = "http"
    BY <1>f DEF Caller
  <2> HIDE DEF h
  <2> QED BY <2>1, <2>2, <1>k
<1>6. CASE HttpAnswer(c)
  <2>1. CASE f.sent = <<bmc[e], bmc[e]>>
    <3>1. Goto(c, Finish(f, hardware[e]))
      BY <1>6, <2>1 DEF HttpAnswer, e, f
    <3>2. Finish(f, hardware[e]).pc = "write" => Finish(f, hardware[e]).ep = e
      BY <1>f, <1>t, FinishType DEF e, f
    <3> QED BY <3>1, <3>2, <1>f, <1>t, <1>k, FinishType
  <2>2. CASE f.sent # <<bmc[e], bmc[e]>>
    <3> DEFINE h == [f EXCEPT !.pc = "refused"]
    <3>1. Goto(c, h)
      BY <1>6, <2>2 DEF HttpAnswer, e, f
    <3>2. h \in Caller /\ h.pc = "refused"
      BY <1>f DEF Caller
    <3> HIDE DEF h
    <3> QED BY <3>1, <3>2, <1>k
  <2> QED BY <2>1, <2>2
<1>7. CASE Refused(c)
  <2> DEFINE h == [f EXCEPT !.pc = "keep", !.prev = <<user[e], 0>>]
  <2>1. Goto(c, h)
    BY <1>7 DEF Refused, e, f
  <2>2. h \in Caller /\ h.pc = "keep"
    BY <1>f, <1>p DEF Caller
  <2> HIDE DEF h
  <2> QED BY <2>1, <2>2, <1>k
<1>8. CASE KeepPassword(c)
  <2> DEFINE h == [f EXCEPT !.pc = "vault", !.prev = <<f.prev[1], password[e]>>]
  <2>1. Goto(c, h)
    BY <1>8 DEF KeepPassword, e, f
  <2>2. h \in Caller /\ h.pc = "vault"
    BY <1>f, <1>p DEF Caller
  <2> HIDE DEF h
  <2> QED BY <2>1, <2>2, <1>k
<1>9. CASE GetCompCred(c)
  <2>1. CASE ~VaultEnabled
    <3>1. Goto(c, Finish(f, "Unset"))
      BY <1>9, <2>1 DEF GetCompCred, f
    <3> QED BY <3>1, <1>f, <1>t, <1>k, FinishType
  <2>2. CASE VaultEnabled
    <3> DEFINE h == [f EXCEPT !.pc = "setUser", !.cred = vault[e]]
    <3>1. Goto(c, h)
      BY <1>9, <2>2 DEF GetCompCred, e, f
    <3>2. h \in Caller /\ h.pc = "setUser"
      BY <1>f DEF Caller, TypeOK
    <3> HIDE DEF h
    <3> QED BY <3>1, <3>2, <1>k
  <2> QED BY <2>1, <2>2
<1>10. CASE SetUser(c)
  <2> DEFINE h == [f EXCEPT !.pc = "setPassword"]
  <2>1. /\ caller' = [caller EXCEPT ![c] = h]
        /\ user' = [user EXCEPT ![e] = f.cred]
        /\ UNCHANGED <<envVars, refVars, lastAttempt, password, typeVars, rollVars, nfaults>>
    BY <1>10, <1>f DEF SetUser, e, f, TypeOK
  <2>2. h \in Caller /\ h.pc = "setPassword" /\ f.cred \in Gen
    BY <1>f DEF Caller
  <2> HIDE DEF h
  <2>3. TypeOK'
    BY <2>1, <2>2, <1>f DEF TypeOK, envVars, refVars, typeVars, rollVars
  <2>4. CountInv' /\ RollInv'
    BY <2>1 DEF IInv, CountInv, RollInv, StaleClientNoticed, envVars, rollVars
  <2>5. LookupInv'
    BY <2>1, <2>2, <1>f DEF IInv, LookupInv, TypeOK, envVars, refVars, typeVars
  <2>6. CacheInv => CacheInv'
    BY <2>1, <2>2, <1>f, MovesCache DEF envVars, typeVars
  <2> QED BY <2>3, <2>4, <2>5, <2>6 DEF IInv
<1>11. CASE SetPassword(c)
  <2> DEFINE h == [f EXCEPT !.pc = "compare", !.cred = 0]
  <2>1. /\ caller' = [caller EXCEPT ![c] = h]
        /\ password' = [password EXCEPT ![e] = f.cred]
        /\ UNCHANGED <<envVars, refVars, lastAttempt, user, typeVars, rollVars, nfaults>>
    BY <1>11, <1>f DEF SetPassword, e, f, TypeOK
  <2>z. 0 \in Gen
    BY AccessAssumption DEF Gen
  <2>2. h \in Caller /\ h.pc = "compare" /\ f.cred \in Gen
    BY <1>f, <2>z DEF Caller
  <2> HIDE DEF h
  <2>3. TypeOK'
    BY <2>1, <2>2, <1>f DEF TypeOK, envVars, refVars, typeVars, rollVars
  <2>4. CountInv' /\ RollInv'
    BY <2>1 DEF IInv, CountInv, RollInv, StaleClientNoticed, envVars, rollVars
  <2>5. LookupInv'
    BY <2>1, <2>2, <1>f DEF IInv, LookupInv, TypeOK, envVars, refVars, typeVars
  <2>6. CacheInv => CacheInv'
    BY <2>1, <2>2, <1>f, MovesCache DEF envVars, typeVars
  <2> QED BY <2>3, <2>4, <2>5, <2>6 DEF IInv
<1>a. /\ Again(f) \in Caller /\ Again(f).pc = "build"
  BY <1>f, IdleType DEF Again, Caller
<1>12. CASE Compare(c)
  <2>1. CASE user[e] # f.prev[1]
    <3>1. Goto(c, Again(f))
      BY <1>12, <2>1 DEF Compare, e, f
    <3> QED BY <3>1, <1>a, <1>k
  <2>2. CASE user[e] = f.prev[1]
    <3> DEFINE h == [f EXCEPT !.pc = "comparePassword"]
    <3>1. Goto(c, h)
      BY <1>12, <2>2 DEF Compare, e, f
    <3>2. h \in Caller /\ h.pc = "comparePassword"
      BY <1>f DEF Caller
    <3> HIDE DEF h
    <3> QED BY <3>1, <3>2, <1>k
  <2> QED BY <2>1, <2>2
<1>13. CASE ComparePassword(c)
  <2>1. CASE password[e] # f.prev[2]
    <3>1. Goto(c, Again(f))
      BY <1>13, <2>1 DEF ComparePassword, e, f
    <3> QED BY <3>1, <1>a, <1>k
  <2>2. CASE password[e] = f.prev[2]
    <3>1. Goto(c, Finish(f, "Unset"))
      BY <1>13, <2>2 DEF ComparePassword, e, f
    <3> QED BY <3>1, <1>f, <1>t, <1>k, FinishType
  <2> QED BY <2>1, <2>2
<1>14. CASE WriteRfType(c)
  <2>1. /\ f.pc = "write"
        /\ cache' = [cache EXCEPT ![e] = [attempt |-> lastAttempt[e], type |-> f.type]]
        /\ answered' = [answered EXCEPT ![e] = f.type]
        /\ caller' = [caller EXCEPT ![c] = Idle]
        /\ UNCHANGED <<envVars, refVars, epVars, unusable, rollVars, nfaults>>
    BY <1>14 DEF WriteRfType, e, f
  <2>2. f.type \in RfType
    BY <1>f DEF Caller
  <2>3. TypeOK'
    BY <2>1, <2>2, <1>f, IdleType DEF TypeOK, envVars, refVars, epVars, rollVars
  <2>4. CountInv' /\ RollInv'
    BY <2>1 DEF IInv, CountInv, RollInv, StaleClientNoticed, envVars, rollVars
  <2>5. LookupInv'
    <3>1. \A x \in Endpoints : cache'[x].attempt \in {cache[x].attempt, lastAttempt[x]}
      BY <2>1, <1>f DEF TypeOK
    <3>2. \A x \in Endpoints : lastAttempt[x] \in Nat
      BY <1>f, AccessAssumption DEF TypeOK
    <3>3. \A x \in Endpoints : cache'[x].attempt <= lastAttempt[x]
      BY <3>1, <3>2 DEF IInv, LookupInv
    <3> QED
      BY <3>3, <2>1, <1>f, IdleType DEF IInv, LookupInv, TypeOK, envVars, epVars, refVars
  <2>6. ASSUME CacheInv PROVE CacheInv'
    <3>1. FoundInv'
      BY <2>1, <2>6, <1>f, IdleType DEF CacheInv, FoundInv, TypeOK, envVars
    <3>2. f.type \in Type /\ e \in seen => f.type = hardware[e]
      BY <2>1, <2>6 DEF CacheInv, FoundInv, e, f
    <3>3. CacheRight'
      BY <2>1, <2>6, <3>2, <1>f DEF CacheInv, CacheRight, TypeOK, envVars
    <3> QED BY <3>1, <3>3 DEF CacheInv
  <2> QED BY <2>3, <2>4, <2>5, <2>6 DEF IInv
<1>15. CASE HttpError(c) \/ GetCompCredFails(c)
  <2>1. /\ caller' = [caller EXCEPT ![c] = Finish(f, "Unset")]
        /\ UNCHANGED OtherVars
        /\ nfaults < MaxFaults /\ nfaults' = nfaults + 1
    BY <1>15, <1>f DEF HttpError, GetCompCredFails, Fault, OtherVars, f, TypeOK
  <2>2. IInv'
    BY <2>1, <1>f, <1>t, Moves, FinishType
  <2>3. CacheInv => CacheInv'
    BY <2>1, <1>f, <1>t, MovesCache, FinishType DEF OtherVars, envVars, typeVars
  <2> QED BY <2>2, <2>3
<1>16. CASE HttpGarbled(c)
  <2>1. /\ caller' = [caller EXCEPT ![c] = Finish(f, "Unknown")]
        /\ unusable' = [unusable EXCEPT ![e] = hsm[e].attempt]
        /\ UNCHANGED <<envVars, refVars, epVars, cache, answered, rollVars>>
        /\ nfaults < MaxFaults /\ nfaults' = nfaults + 1
    BY <1>16, <1>f DEF HttpGarbled, Fault, f, e, TypeOK
  <2>2. hsm[e].attempt \in 0 .. MaxFaults + 1 /\ nfaults' \in 0 .. MaxFaults
    BY <2>1, <1>f, AccessAssumption DEF TypeOK, Hsm
  <2>3. TypeOK'
    BY <2>1, <2>2, <1>f, <1>t, FinishType DEF TypeOK, envVars, refVars, epVars, rollVars
  <2>4. CountInv'
    <3>1. \A x \in Endpoints : hsm[x].attempt \in Nat /\ vault[x] \in Nat /\ bmc[x] \in Nat
      BY <1>f, AccessAssumption DEF TypeOK, Hsm, Gen
    <3>2. ca.bundle \in Nat /\ nfaults \in Nat
      BY <1>f, AccessAssumption DEF TypeOK, Ca
    <3> QED BY <2>1, <3>1, <3>2 DEF IInv, CountInv, envVars, rollVars
  <2>5. RollInv'
    BY <2>1 DEF IInv, RollInv, StaleClientNoticed, rollVars
  <2>6. LookupInv'
    <3> DEFINE g == Finish(f, "Unknown")
    <3>1. g.pc \in {"read", "write"} => g.kind = "type"
      BY <1>f, <1>t, FinishType
    <3>2. caller' = [caller EXCEPT ![c] = g]
      BY <2>1
    <3> HIDE DEF g
    <3>3. \A d \in Callers :
            caller'[d].pc \in {"read", "write"} => caller'[d].kind = "type"
      BY <3>1, <3>2 DEF IInv, LookupInv, TypeOK
    <3>4. UNCHANGED <<cache, lastAttempt, snap, hsm>>
      BY <2>1 DEF envVars, epVars, refVars
    <3> QED BY <3>3, <3>4 DEF IInv, LookupInv
  <2>7. CacheInv => CacheInv'
    BY <2>1, <1>f, <1>t, MovesCache, FinishType DEF envVars
  <2> QED BY <2>3, <2>4, <2>5, <2>6, <2>7 DEF IInv
<1> QED
  BY <1>1, <1>2, <1>3, <1>4, <1>5, <1>6, <1>7, <1>8, <1>9, <1>10, <1>11,
     <1>12, <1>13, <1>14, <1>15, <1>16 DEF ActionStep

(***************************************************************************)
(* The refresh, the client and the environment.                            *)
(***************************************************************************)
\* What only the goroutines that use the endpoints and HSM decide stays.
LEMMA RefreshKeeps ==
  ASSUME IInv,
         \/ RefreshStep
         \/ \E e \in Endpoints : RefreshVaultFails(e)
  PROVE  IInv' /\ (CacheInv => CacheInv')
<1> USE DEF IInv, envVars, refVars, epVars, typeVars, rollVars
<1>n. /\ \A e \in Endpoints : /\ hsm[e].attempt \in Nat /\ snap[e].attempt \in Nat
                              /\ vault[e] \in Nat /\ bmc[e] \in Nat
                              /\ cache[e].attempt \in Nat /\ lastAttempt[e] \in Nat
                              /\ snap[e].attempt \in 0 .. MaxFaults + 1
      /\ ca.bundle \in Nat /\ nfaults \in Nat
  BY AccessAssumption DEF TypeOK, Hsm, Gen, Ca
<1>1. ASSUME RefreshStart PROVE IInv' /\ (CacheInv => CacheInv')
  <2>1. TypeOK'
    BY <1>1 DEF RefreshStart, TypeOK
  <2>2. CountInv' /\ RollInv'
    BY <1>1 DEF RefreshStart, CountInv, RollInv, StaleClientNoticed
  <2>3. LookupInv'
    <3>1. \A e \in Endpoints : lastAttempt[e] <= hsm[e].attempt /\ hsm[e].attempt <= hsm[e].attempt
      BY <1>n DEF LookupInv
    <3> QED BY <3>1, <1>1 DEF RefreshStart, LookupInv
  <2>4. CacheInv => CacheInv'
    BY <1>1, CacheStays DEF RefreshStart
  <2> QED BY <2>1, <2>2, <2>3, <2>4
<1>2. ASSUME NEW e \in Endpoints, RefreshSkip(e) PROVE IInv' /\ (CacheInv => CacheInv')
  <2>1. TypeOK' /\ CountInv' /\ RollInv' /\ LookupInv'
    BY <1>2 DEF RefreshSkip, TypeOK, CountInv, RollInv, StaleClientNoticed, LookupInv
  <2>2. CacheInv => CacheInv'
    BY <1>2, CacheStays DEF RefreshSkip
  <2> QED BY <2>1, <2>2
<1>3. ASSUME RefreshEnd PROVE IInv' /\ (CacheInv => CacheInv')
  <2>1. TypeOK' /\ CountInv' /\ RollInv' /\ LookupInv'
    BY <1>3 DEF RefreshEnd, TypeOK, CountInv, RollInv, StaleClientNoticed, LookupInv
  <2>2. CacheInv => CacheInv'
    BY <1>3, CacheStays DEF RefreshEnd
  <2> QED BY <2>1, <2>2
<1>4. ASSUME NEW e \in Endpoints, RefreshKnown(e) \/ RefreshNew(e)
      PROVE  IInv' /\ (CacheInv => CacheInv')
  <2>1. /\ lastAttempt' = [lastAttempt EXCEPT ![e] = snap[e].attempt]
        /\ UNCHANGED <<hsm, hardware, seen, bmc, vault, snap, refresher, cache,
                       answered, unusable, caller, ca, roll, nfaults>>
        /\ todo' = todo \ {e} /\ known' \subseteq known \cup {e}
    BY <1>4 DEF RefreshKnown, RefreshNew
  <2>2. user' \in [Endpoints -> Gen] /\ password' \in [Endpoints -> Gen]
    BY <1>4 DEF RefreshKnown, RefreshNew, TypeOK
  <2>3. TypeOK'
    BY <2>1, <2>2, <1>n DEF TypeOK
  <2>4. CountInv' /\ RollInv'
    BY <2>1 DEF CountInv, RollInv, StaleClientNoticed
  <2>5. LookupInv'
    <3>1. \A x \in Endpoints : lastAttempt'[x] = IF x = e THEN snap[e].attempt ELSE lastAttempt[x]
      BY <2>1 DEF TypeOK
    <3>2. \A x \in Endpoints : cache[x].attempt <= lastAttempt'[x] /\ lastAttempt'[x] <= snap[x].attempt
      BY <3>1, <1>n DEF LookupInv
    <3> QED BY <3>2, <2>1 DEF LookupInv
  <2>6. CacheInv => CacheInv'
    BY <2>1, CacheStays
  <2> QED BY <2>3, <2>4, <2>5, <2>6
<1>5. ASSUME NEW e \in Endpoints, RefreshVaultFails(e) PROVE IInv' /\ (CacheInv => CacheInv')
  <2>0. nfaults' = nfaults + 1 /\ nfaults' \in 0 .. MaxFaults
    BY <1>5, <1>n, AccessAssumption DEF RefreshVaultFails, Fault
  <2>1. TypeOK'
    BY <1>5, <2>0 DEF RefreshVaultFails, TypeOK
  <2>2. CountInv'
    BY <1>5, <2>0, <1>n DEF RefreshVaultFails, CountInv
  <2>3. RollInv' /\ LookupInv'
    BY <1>5 DEF RefreshVaultFails, RollInv, StaleClientNoticed, LookupInv
  <2>4. CacheInv => CacheInv'
    BY <1>5, CacheStays DEF RefreshVaultFails
  <2> QED BY <2>1, <2>2, <2>3, <2>4
<1> QED BY <1>1, <1>2, <1>3, <1>4, <1>5 DEF RefreshStep

\* A client is made, or cannot be; the bundle changes.
LEMMA RollKeeps ==
  ASSUME IInv,
         RollStep \/ CreateFails \/ RegisterFails \/ RollFails \/ BundleChange
  PROVE  IInv' /\ (CacheInv => CacheInv')
<1> USE DEF IInv
<1>n. /\ \A e \in Endpoints : /\ hsm[e].attempt \in Nat
                              /\ vault[e] \in Nat /\ bmc[e] \in Nat
      /\ nfaults \in Nat /\ MaxFaults \in Nat /\ StartTries \in Nat
      /\ ca.bundle \in Nat \ {0} /\ ca.watched \in Nat /\ ca.tries \in Nat
      /\ ca.client \in Nat /\ ca \in Ca
  BY AccessAssumption DEF TypeOK, Hsm, Gen, Ca
<1>0. UNCHANGED restVars
  BY DEF RollStep, CreateClient, Register, caChangeCB, RollLock, RollDone,
         CreateFails, RegisterFails, RollFails, BundleChange
<1>1. UNCHANGED <<envVars, refVars, epVars, typeVars, caller>>
  BY <1>0 DEF restVars
<1>2. nfaults' = nfaults \/ (nfaults < MaxFaults /\ nfaults' = nfaults + 1)
  BY DEF RollStep, CreateClient, Register, caChangeCB, RollLock, RollDone,
         CreateFails, RegisterFails, RollFails, BundleChange, Fault
<1>r. /\ ca.phase \in {"create", "register", "run"} /\ ca.failed \in BOOLEAN
      /\ ca.unseen \in BOOLEAN
      /\ ca.tries \in 0 .. StartTries /\ ca.bundle \in 1 .. MaxFaults + 1
      /\ ca.watched \in 0 .. MaxFaults + 1 /\ ca.client \in 0 .. MaxFaults + 1
      /\ ca.bundle \in 0 .. MaxFaults + 1
  BY <1>n DEF Ca
<1>b. ca.bundle <= nfaults + 1 /\ ca.bundle <= nfaults' + 1
  BY <1>n, <1>2 DEF CountInv
<1>3. /\ ca' \in Ca /\ roll' \in {"idle", "waiting", "held"}
      /\ ca'.bundle <= nfaults' + 1
      /\ ca'.phase = "create" => ca'.tries < StartTries
  <2>1. CASE CreateClient
    <3>1. ca' = [ca EXCEPT !.client = ca.bundle, !.phase = "register"] /\ roll' = roll
      BY <2>1 DEF CreateClient
    <3>2. ca' \in Ca
      BY <3>1, <1>n, <1>r DEF Ca
    <3>3. ca'.bundle = ca.bundle /\ ca'.phase = "register"
      BY <3>1, <1>n DEF Ca
    <3> QED BY <3>1, <3>2, <3>3, <1>b DEF TypeOK
  <2>2. CASE Register
    <3>1. /\ ca' = [ca EXCEPT !.watched = ca.bundle, !.unseen = ca.bundle # ca.client,
                              !.phase = "run"]
          /\ roll' = roll
      BY <2>2 DEF Register
    <3>2. (ca.bundle # ca.client) \in BOOLEAN
      OBVIOUS
    <3>3. ca' \in Ca
      BY <3>1, <3>2, <1>n, <1>r DEF Ca
    <3>4. ca'.bundle = ca.bundle /\ ca'.phase = "run"
      BY <3>1, <1>n DEF Ca
    <3> QED BY <3>1, <3>3, <3>4, <1>b DEF TypeOK
  <2>3. CASE caChangeCB \/ RollLock \/ RollDone
    <3>1. /\ ca' \in Ca
          /\ ca'.bundle = ca.bundle /\ ca'.phase = ca.phase /\ ca'.tries = ca.tries
      BY <2>3, <1>n, <1>r DEF caChangeCB, RollLock, RollDone, Ca
    <3>2. roll' \in {"idle", "waiting", "held"}
      BY <2>3 DEF caChangeCB, RollLock, RollDone
    <3> QED BY <3>1, <3>2, <1>b DEF CountInv
  <2>4. CASE CreateFails
    <3>0. ca.phase = "create" /\ roll' = roll
      BY <2>4 DEF CreateFails
    <3>1. ca.tries + 1 \in 0 .. StartTries
      BY <3>0, <1>n, <1>r DEF CountInv
    <3>2. CASE ca.tries + 1 < StartTries
      <4>1. ca' = [ca EXCEPT !.tries = ca.tries + 1]
        BY <2>4, <3>2 DEF CreateFails
      <4>2. ca' \in Ca
        BY <4>1, <3>1, <1>n DEF Ca
      <4>3. ca'.bundle = ca.bundle /\ ca'.tries = ca.tries + 1
        BY <4>1, <1>n DEF Ca
      <4> QED BY <4>2, <4>3, <3>0, <3>2, <1>b DEF TypeOK
    <3>3. CASE ~(ca.tries + 1 < StartTries)
      <4>1. ca' = [ca EXCEPT !.tries = ca.tries + 1, !.failed = TRUE, !.phase = "run"]
        BY <2>4, <3>3 DEF CreateFails
      <4>2. ca' \in Ca
        BY <4>1, <3>1, <1>n DEF Ca
      <4>3. ca'.bundle = ca.bundle /\ ca'.phase = "run"
        BY <4>1, <1>n DEF Ca
      <4> QED BY <4>2, <4>3, <3>0, <1>b DEF TypeOK
    <3> QED BY <3>2, <3>3
  <2>5. CASE RegisterFails \/ RollFails
    <3>1. /\ ca' \in Ca /\ ca'.bundle = ca.bundle /\ ca'.tries = ca.tries
          /\ ca'.phase \in {ca.phase, "run"}
      BY <2>5, <1>n, <1>r DEF RegisterFails, RollFails, Ca
    <3>2. roll' \in {"idle", "waiting", "held"}
      BY <2>5 DEF RegisterFails, RollFails, TypeOK
    <3> QED BY <3>1, <3>2, <1>b DEF CountInv
  <2>6. CASE BundleChange
    <3>1. /\ ca' = [ca EXCEPT !.bundle = ca.bundle + 1] /\ roll' = roll
          /\ nfaults < MaxFaults /\ nfaults' = nfaults + 1
      BY <2>6 DEF BundleChange, Fault
    <3>2. ca.bundle + 1 \in 1 .. MaxFaults + 1 /\ ca.bundle + 1 <= nfaults' + 1
      BY <3>1, <1>n, <1>b
    <3>3. /\ ca' \in Ca /\ ca'.bundle = ca.bundle + 1
          /\ ca'.phase = ca.phase /\ ca'.tries = ca.tries
      BY <3>1, <3>2, <1>n DEF Ca
    <3> QED BY <3>1, <3>2, <3>3 DEF CountInv, TypeOK
  <2> QED BY <2>1, <2>2, <2>3, <2>4, <2>5, <2>6 DEF RollStep
<1>4. TypeOK'
  BY <1>1, <1>2, <1>3, <1>n DEF TypeOK, envVars, refVars, epVars, typeVars
<1>5. CountInv'
  BY <1>1, <1>2, <1>3, <1>n DEF CountInv, envVars
<1>6. RollInv'
  <2>1. CASE CreateClient
    <3>1. /\ ca.phase = "create" /\ ca'.phase = "register" /\ roll' = roll
          /\ ca'.watched = ca.watched /\ ca'.bundle = ca.bundle
      BY <2>1, <1>n DEF CreateClient, Ca
    <3> QED BY <3>1 DEF RollInv, StaleClientNoticed
  <2>6. CASE Register
    <3>1. /\ ca.phase = "register" /\ ca'.phase = "run" /\ roll' = roll
          /\ ca'.watched = ca.bundle /\ ca'.bundle = ca.bundle
          /\ ca'.client # ca'.bundle => ca'.unseen
      BY <2>6, <1>n DEF Register, Ca
    <3> QED BY <3>1, <1>n DEF RollInv, StaleClientNoticed
  <2>7. CASE RegisterFails
    <3>1. /\ ca.phase = "register" /\ ca'.phase = "run" /\ roll' = roll
          /\ ca'.watched = ca.watched /\ ca'.bundle = ca.bundle /\ ca'.failed
      BY <2>7, <1>n DEF RegisterFails, Ca
    <3> QED BY <3>1 DEF RollInv, StaleClientNoticed
  <2>5. CASE CreateFails
    <3>1. /\ ca.phase = "create" /\ roll' = roll
          /\ ca'.watched = ca.watched /\ ca'.bundle = ca.bundle
          /\ ca'.phase = "create" \/ (ca'.phase = "run" /\ ca'.failed)
      BY <2>5, <1>n DEF CreateFails, Ca
    <3> QED BY <3>1 DEF RollInv, StaleClientNoticed
  <2>2. CASE caChangeCB \/ RollLock
    BY <2>2, <1>n DEF caChangeCB, RollLock, Ca, RollInv, StaleClientNoticed
  <2>3. CASE RollDone \/ RollFails
    BY <2>3, <1>n DEF RollDone, RollFails, Ca, RollInv, StaleClientNoticed
  <2>4. CASE BundleChange
    BY <2>4, <1>n DEF BundleChange, Ca, RollInv, StaleClientNoticed
  <2> QED BY <2>1, <2>2, <2>3, <2>4, <2>5, <2>6, <2>7 DEF RollStep
<1>7. LookupInv'
  BY <1>1 DEF LookupInv, envVars, refVars, epVars, typeVars
<1>8. CacheInv => CacheInv'
  BY <1>1, CacheStays DEF envVars, typeVars
<1> QED BY <1>4, <1>5, <1>6, <1>7, <1>8

\* Credentials are changed in one place, then in the other; hardware is
\* exchanged; HSM discovers it.
LEMMA EnvironmentKeeps ==
  ASSUME IInv, NEW e \in Endpoints, Environment(e)
  PROVE  IInv' /\ ((Quiet /\ CacheInv) => CacheInv')
<1> USE DEF IInv, refVars, epVars, typeVars, rollVars
<1>n. /\ \A x \in Endpoints : /\ hsm[x].attempt \in Nat /\ snap[x].attempt \in Nat
                              /\ vault[x] \in Nat /\ bmc[x] \in Nat
                              /\ cache[x].attempt \in Nat /\ lastAttempt[x] \in Nat
      /\ nfaults \in Nat /\ MaxFaults \in Nat /\ ca.bundle \in Nat /\ nfaults <= MaxFaults
  BY AccessAssumption DEF TypeOK, Hsm, Gen, Ca
<1>1. CASE ChangeVault(e)
  <2>1. /\ nfaults' \in Nat /\ nfaults' <= MaxFaults /\ nfaults <= nfaults'
        /\ vault[e] + 1 <= nfaults' + 1
    BY <1>1, <1>n DEF ChangeVault, Rotate, Fault, CountInv
  <2>2. vault[e] + 1 \in Gen
    BY <2>1, <1>n DEF Gen
  <2>3. /\ vault' = [vault EXCEPT ![e] = vault[e] + 1]
        /\ UNCHANGED <<hsm, hardware, seen, bmc, refVars, epVars, typeVars, caller, rollVars>>
    BY <1>1 DEF ChangeVault
  <2>4. TypeOK'
    BY <2>1, <2>2, <2>3, <1>n DEF TypeOK
  <2>5. CountInv'
    <3>1. \A x \in Endpoints : vault'[x] <= nfaults' + 1
      BY <2>1, <2>3, <1>n DEF CountInv, TypeOK
    <3> QED BY <3>1, <2>1, <2>3, <1>n DEF CountInv
  <2>6. RollInv' /\ LookupInv'
    BY <2>3 DEF RollInv, StaleClientNoticed, LookupInv
  <2>7. CacheInv => CacheInv'
    BY <2>3, CacheStays
  <2> QED BY <2>4, <2>5, <2>6, <2>7
<1>2. CASE ChangeBmc(e)
  <2>1. /\ nfaults' \in Nat /\ nfaults' <= MaxFaults /\ nfaults <= nfaults'
        /\ bmc[e] + 1 <= nfaults' + 1
    BY <1>2, <1>n DEF ChangeBmc, Rotate, Fault, CountInv
  <2>2. bmc[e] + 1 \in Gen
    BY <2>1, <1>n DEF Gen
  <2>3. /\ bmc' = [bmc EXCEPT ![e] = bmc[e] + 1]
        /\ UNCHANGED <<hsm, hardware, seen, vault, refVars, epVars, typeVars, caller, rollVars>>
    BY <1>2 DEF ChangeBmc
  <2>4. TypeOK'
    BY <2>1, <2>2, <2>3, <1>n DEF TypeOK
  <2>5. CountInv'
    <3>1. \A x \in Endpoints : bmc'[x] <= nfaults' + 1
      BY <2>1, <2>3, <1>n DEF CountInv, TypeOK
    <3> QED BY <3>1, <2>1, <2>3, <1>n DEF CountInv
  <2>6. RollInv' /\ LookupInv'
    BY <2>3 DEF RollInv, StaleClientNoticed, LookupInv
  <2>7. CacheInv => CacheInv'
    BY <2>3, CacheStays
  <2> QED BY <2>4, <2>5, <2>6, <2>7
<1>3. ASSUME NEW t \in Type, Exchange(e, t)
      PROVE  IInv' /\ (CacheInv => CacheInv')
  <2>1. /\ nfaults' = nfaults + 1 /\ nfaults' <= MaxFaults
        /\ hardware' = [hardware EXCEPT ![e] = t] /\ seen' = seen \ {e}
        /\ UNCHANGED <<hsm, bmc, vault, refVars, epVars, typeVars, caller, rollVars>>
    BY <1>3, <1>n DEF Exchange, Fault
  <2>2. TypeOK'
    BY <2>1, <1>n DEF TypeOK
  <2>3. CountInv'
    BY <2>1, <1>n DEF CountInv
  <2>4. RollInv' /\ LookupInv'
    BY <2>1 DEF RollInv, StaleClientNoticed, LookupInv
  <2>5. ASSUME CacheInv PROVE CacheInv'
    <3>1. \A x \in seen' : x # e /\ x \in seen
      BY <2>1
    <3>2. \A x \in Endpoints : x # e => hardware'[x] = hardware[x]
      BY <2>1 DEF TypeOK
    <3>3. \A c \in Callers : caller[c].ep \in Endpoints
      BY DEF TypeOK, Caller
    <3>4. FoundInv'
      BY <2>1, <2>5, <3>1, <3>2, <3>3 DEF CacheInv, FoundInv
    <3>5. CacheRight'
      BY <2>1, <2>5, <3>1, <3>2 DEF CacheInv, CacheRight
    <3> QED BY <3>4, <3>5 DEF CacheInv
  <2> QED BY <2>2, <2>3, <2>4, <2>5
<1>4. ASSUME NEW ok \in BOOLEAN, Rediscover(e, ok)
      PROVE  IInv' /\ ((Quiet /\ CacheInv) => CacheInv')
  <2>1. /\ nfaults' = nfaults + 1 /\ nfaults' <= MaxFaults
        /\ hsm' = [hsm EXCEPT ![e] = [attempt |-> hsm[e].attempt + 1, ok |-> ok]]
        /\ seen' = seen \cup {e}
        /\ UNCHANGED <<hardware, bmc, vault, refVars, epVars, typeVars, caller, rollVars>>
    BY <1>4, <1>n DEF Rediscover, Fault
  <2>2. hsm[e].attempt + 1 <= nfaults' + 1
    BY <2>1, <1>n DEF CountInv
  <2>3. [attempt |-> hsm[e].attempt + 1, ok |-> ok] \in Hsm
    BY <2>1, <2>2, <1>n DEF Hsm
  <2>4. TypeOK'
    BY <2>1, <2>3, <1>n DEF TypeOK
  <2>5. \A x \in Endpoints : hsm'[x].attempt = IF x = e THEN hsm[e].attempt + 1 ELSE hsm[x].attempt
    BY <2>1 DEF TypeOK
  <2>6. CountInv'
    BY <2>1, <2>2, <2>5, <1>n DEF CountInv
  <2>7. RollInv'
    BY <2>1 DEF RollInv, StaleClientNoticed
  <2>8. LookupInv'
    BY <2>1, <2>5, <1>n DEF LookupInv
  <2>9. ASSUME Quiet, CacheInv PROVE CacheInv'
    <3>1. ~Lookup(e)
      BY <1>4, <2>9 DEF Rediscover
    <3>2. \A c \in Callers : caller[c].pc = "write" => caller[c].ep # e
      BY <3>1 DEF Lookup, LookupInv
    <3>3. FoundInv'
      BY <2>1, <2>9, <3>2 DEF CacheInv, FoundInv
    <3>4. cache[e].attempt <= hsm[e].attempt
      BY <1>n DEF LookupInv
    <3>5. cache[e].attempt # hsm'[e].attempt
      BY <2>5, <3>4, <1>n
    <3>6. CacheRight'
      BY <2>1, <2>5, <2>9, <3>5 DEF CacheInv, CacheRight
    <3> QED BY <3>3, <3>6 DEF CacheInv
  <2> QED BY <2>4, <2>6, <2>7, <2>8, <2>9
<1> QED BY <1>1, <1>2, <1>3, <1>4 DEF Environment

(***************************************************************************)
(* The theorems.                                                           *)
(***************************************************************************)
\* At start-up nothing is known, counted, cached or under way.
LEMMA Start == Init => IInv /\ CacheInv
<1> SUFFICES ASSUME Init PROVE IInv /\ CacheInv
  OBVIOUS
<1>1. MaxFaults \in Nat /\ StartTries \in Nat \ {0}
  BY AccessAssumption
<1>2. PICK ok \in [Endpoints -> BOOLEAN] :
        hsm = [e \in Endpoints |-> [attempt |-> 1, ok |-> ok[e]]]
  BY DEF Init
<1>3. hsm \in [Endpoints -> Hsm] /\ \A e \in Endpoints : hsm[e].attempt = 1
  BY <1>1, <1>2 DEF Hsm
<1>4. TypeOK
  BY <1>1, <1>3, IdleType DEF Init, TypeOK, Gen, Ca, Type, RfType
<1>5. CountInv /\ RollInv
  BY <1>1, <1>3 DEF Init, CountInv, RollInv, StaleClientNoticed
<1>6. LookupInv
  BY <1>3, IdleType DEF Init, LookupInv
<1>7. CacheInv
  BY IdleType DEF Init, CacheInv, FoundInv, CacheRight, Type
<1> QED BY <1>4, <1>5, <1>6, <1>7 DEF IInv

\* Every step keeps the invariants.
LEMMA StepKeeps ==
  IInv /\ [Next]_vars => IInv' /\ ((Quiet /\ CacheInv) => CacheInv')
<1> SUFFICES ASSUME IInv, [Next]_vars
             PROVE  IInv' /\ ((Quiet /\ CacheInv) => CacheInv')
  OBVIOUS
<1>1. CASE UNCHANGED vars
  BY <1>1 DEF vars, envVars, refVars, epVars, typeVars, rollVars, IInv, TypeOK,
              CountInv, RollInv, StaleClientNoticed, LookupInv, CacheInv,
              FoundInv, CacheRight
<1>2. CASE Next
  BY <1>2, RefreshKeeps, RollKeeps, EnvironmentKeeps, CallerKeeps DEF Next
<1> QED BY <1>1, <1>2

\* Counters, frames and client keep to their ranges in every reachable state.
THEOREM Invariant == Spec => []IInv
<1>1. Init => IInv
  BY Start
<1>2. IInv /\ [Next]_vars => IInv'
  BY StepKeeps
<1> QED BY <1>1, <1>2, PTL DEF Spec

\* Type correctness, with the generations of credentials and of the CA
\* bundle and the attempts of HSM bounded by the events there were.
THEOREM TypeCorrect == Spec => []TypeOK
<1>1. IInv => TypeOK
  BY DEF IInv
<1> QED BY <1>1, Invariant, PTL

\* No change of the watched bundle is lost: whenever a client that was up to
\* date when the watch began is no longer of the CA bundle as it is, a roll
\* is to come or under way, or the last attempt failed and the log has told
\* of it (hmcollector.go 313-321, 358-393).  What the bundle was between the
\* making of the first client and the watch is outside it: such a change is
\* silent.
THEOREM StaleClientIsNoticed == Spec => []StaleClientNoticed
<1>1. IInv => StaleClientNoticed
  BY DEF IInv, RollInv
<1> QED BY <1>1, Invariant, PTL

\* The Redfish type in the cache is never an old one under the timestamp of
\* the last discovery, if HSM discovers nothing during a lookup (cache.go
\* 60-94).  Without that condition it is false: a lookup that started before
\* the discovery stores its answer under the new timestamp.
THEOREM CacheNamesHardware ==
  ASSUME Quiet
  PROVE  Spec => []CacheRight
<1>1. Init => IInv /\ CacheInv
  BY Start
<1>2. (IInv /\ CacheInv) /\ [Next]_vars => (IInv /\ CacheInv)'
  BY StepKeeps
<1>3. IInv /\ CacheInv => CacheRight
  BY DEF CacheInv
<1> QED BY <1>1, <1>2, <1>3, PTL DEF Spec
==============================================================================
