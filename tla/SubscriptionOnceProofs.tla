------------------------ MODULE SubscriptionOnceProofs ------------------------
(***************************************************************************)
(* A BMC never holds two subscriptions for one endpoint and registry       *)
(* prefix group (NoDuplicateSubs of RFSubscriptions).  The code looks      *)
(* before it posts, in separate requests, and any number of verifiers run  *)
(* beside the worker; what has to be shown is that no second worker ever   *)
(* runs for the endpoint, that is, that nobody writes ERROR into the       *)
(* record of a worker that is queued or running.                           *)
(***************************************************************************)
EXTENDS RFSubscriptionsProofs

\* The faults the theorem allows: a POST that fails or whose answer is lost,
\* a PATCH that is refused, a DELETE that fails, and subscriptions of other
\* services.  It is not about reads that fail or answer 404, failing probes
\* of getDestination, PATCHes that fail in transport, exchanged hardware and
\* POSTs the BMC executes twice: with each of these there can be duplicates.
MildFaults ==
  Faults \subseteq {"post", "postlost", "patchrefused", "delete", "foreign"}

\* a subscription isDupRFSubscription takes for the one of this endpoint and
\* group; its context may still have to be mended
Mine(e, g, sub) ==
  /\ sub # NoSub
  /\ Destination(sub) = getDestination(e, TRUE)
  /\ Matches(sub, g)

\* what is there before the collector comes has no duplicates, and other
\* services do not send their events to the collector
OneEach ==
  /\ \A st \in Stores, e \in Endpoints, g \in Group, i, j \in SubIds :
       Mine(e, g, st[i]) /\ Mine(e, g, st[j]) => i = j
  /\ \A s \in ForeignSubs, e \in Endpoints, g \in Group : ~Mine(e, g, s)

Copies(st, e, g) == {i \in SubIds : Mine(e, g, st[e][i])}

(***************************************************************************)
(* The inductive invariant.                                                *)
(***************************************************************************)
Active(r) == r \in Elems(pending) \/ proc[r].pc # "idle"
PrunePcs == {"pruneList", "pruneGet", "pruneDelete"}
HuntPcs  == {"get", "dupPrune", "patch", "ret"}

\* a record that is queued or worked on is its endpoint's current one, and
\* nobody has given it up: there is one worker for an endpoint
SoleInv == \A r \in Recs : Active(r) => Current(r) /\ status[r] # "ERROR"

QueueInv ==
  /\ \A i, j \in DOMAIN pending : pending[i] = pending[j] => i = j
  /\ \A r \in Elems(pending) : proc[r].pc = "idle"

\* no group is noted before the first one has been looked for
EarlyInv ==
  \A r \in Recs : r \in Elems(pending) \/ proc[r].pc \in PrunePcs
                    => prefixGroups[r] = <<>>

\* a verifier looks for groups its record has noted
Look(p, f, pg) ==
  p \in Verifiers /\ f.pc # "idle" =>
    /\ Elems(f.todo) \subseteq Elems(pg[f.rec])
    /\ f.pc \in HuntPcs => f.grp \in Elems(pg[f.rec])

\* What goroutine p knows of the store st when its frame is f.  busy: the
\* worker of its record is running.
Search(p, f, busy, st, us) ==
  LET e == EpOf[f.rec]
      mine == Copies(st, e, f.grp)
  IN  /\ f.res # "err" /\ f.pc # "fixDelete"
      /\ f.pc = "dupPrune" =>
           f.cur \in us[e] /\ \A g \in Group : f.cur \notin Copies(st, e, g)
      /\ busy /\ f.pc \in {"get", "dupPrune"} => mine \subseteq f.members
      /\ p \in Recs =>
           /\ f.pc = "ret" /\ f.res = "missing" => mine = {}
           /\ f.pc \in {"eventTypes", "post"} => mine = {}
           /\ f.pc = "ret" /\ f.res = "dup" => mine # {}
           /\ f.pc = "append" => mine # {}
           /\ f.pc = "patch" => f.cur \in mine
      /\ p \in Verifiers /\ busy /\ f.pc = "ret" => f.res = "dup"

LookInv(p) == Look(p, proc[p], prefixGroups)
SearchInv(p) ==
  Search(p, proc[p], proc[proc[p].rec].pc # "idle", subs, used)

\* what a running worker has noted is there
HeldInv(r) ==
  proc[r].pc # "idle" =>
    \A g \in Elems(prefixGroups[r]) : Copies(subs, EpOf[r], g) # {}

UniqueInv ==
  \A e \in Endpoints, g \in Group :
    \A i, j \in Copies(subs, e, g) : i = j

ControlInv == SoleInv /\ QueueInv /\ EarlyInv

OnceInv ==
  /\ ControlInv
  /\ UniqueInv
  /\ \A p \in Procs : LookInv(p) /\ SearchInv(p)
  /\ \A r \in Recs : HeldInv(r)

(***************************************************************************)
(* What requests do to the copies.                                         *)
(***************************************************************************)
LEMMA NoOtherFaults ==
  ASSUME MildFaults
  PROVE  /\ ~Fault("get") /\ ~Fault("notfound") /\ ~Fault("probe")
         /\ ~Fault("patch") /\ ~Fault("replace") /\ ~Fault("postretried")
  BY DEF MildFaults, Fault

\* no id that was in use becomes a copy, and the copies stay the same
Quiet ==
  /\ \A e \in Endpoints : used[e] \subseteq used'[e]
  /\ \A e \in Endpoints, g \in Group : Copies(subs', e, g) = Copies(subs, e, g)

\* only copies of a group the record has not noted may come or go
Tame(r) ==
  /\ \A e \in Endpoints : used[e] \subseteq used'[e]
  /\ \A e \in Endpoints, g \in Group :
       Copies(subs', e, g) \cap used[e] \subseteq Copies(subs, e, g)
  /\ \A e \in Endpoints, g \in Group :
       e # EpOf[r] \/ g \in Elems(prefixGroups[r])
         => Copies(subs', e, g) = Copies(subs, e, g)

LEMMA UnchangedQuiet ==
  ASSUME UNCHANGED bmcVars
  PROVE  Quiet
  BY DEF bmcVars, Quiet

LEMMA MinePatched ==
  ASSUME NEW s \in EventSubscription, NEW e, NEW c, NEW g
  PROVE  Mine(e, g, [s EXCEPT !.ctx = c]) <=> Mine(e, g, s)
  <1>1. /\ [s EXCEPT !.ctx = c] # NoSub /\ s # NoSub
        /\ [s EXCEPT !.ctx = c].x = s.x
        /\ [s EXCEPT !.ctx = c].base = s.base
        /\ [s EXCEPT !.ctx = c].pfx = s.pfx
    BY DEF EventSubscription, NoSub
  <1> QED BY <1>1 DEF Mine, Destination, Matches

LEMMA DeleteCopies ==
  ASSUME TypeInv, NEW e \in Endpoints, NEW i \in SubIds, Delete(e, i)
  PROVE  /\ used' = used
         /\ \A x \in Endpoints, g \in Group :
              Copies(subs', x, g) = IF x = e THEN Copies(subs, x, g) \ {i}
                                    ELSE Copies(subs, x, g)
  <1> DEFINE st == [subs[e] EXCEPT ![i] = NoSub]
  <1>1. subs' = [subs EXCEPT ![e] = st] /\ used' = used
    BY DEF Delete
  <1>2. \A x \in Endpoints, k \in SubIds :
          subs'[x][k] = IF x = e /\ k = i THEN NoSub ELSE subs[x][k]
    BY <1>1, StoreTypes
  <1>3. ASSUME NEW x \in Endpoints, NEW g \in Group, NEW k \in SubIds
        PROVE  Mine(x, g, subs'[x][k]) <=>
                 Mine(x, g, subs[x][k]) /\ ~(x = e /\ k = i)
    BY <1>2 DEF Mine
  <1> QED BY <1>1, <1>3 DEF Copies

LEMMA CreateCopies ==
  ASSUME TypeInv, NEW e \in Endpoints, NEW i \in FreeIds(e),
         NEW s, Create(e, i, s)
  PROVE  /\ \A x \in Endpoints : used[x] \subseteq used'[x]
         /\ \A x \in Endpoints, g \in Group :
              Copies(subs', x, g) = IF x = e /\ Mine(e, g, s)
                                    THEN Copies(subs, x, g) \cup {i}
                                    ELSE Copies(subs, x, g)
  <1> DEFINE st == [subs[e] EXCEPT ![i] = s]
  <1>0. i \in SubIds /\ subs[e][i] = NoSub
    BY DEF FreeIds
  <1>1. subs' = [subs EXCEPT ![e] = st] /\ used' = [used EXCEPT ![e] = @ \cup {i}]
    BY DEF Create
  <1>2. \A x \in Endpoints, k \in SubIds :
          subs'[x][k] = IF x = e /\ k = i THEN s ELSE subs[x][k]
    BY <1>0, <1>1, StoreTypes
  <1>3. ASSUME NEW x \in Endpoints, NEW g \in Group, NEW k \in SubIds
        PROVE  Mine(x, g, subs'[x][k]) <=>
                 Mine(x, g, subs[x][k]) \/ (x = e /\ k = i /\ Mine(e, g, s))
    BY <1>0, <1>2 DEF Mine
  <1>4. \A x \in Endpoints : used[x] \subseteq used'[x]
    BY <1>1, StoreTypes
  <1> QED BY <1>0, <1>3, <1>4 DEF Copies

LEMMA PatchQuiet ==
  ASSUME TypeInv, NEW p \in Procs, DupPatch(p)
  PROVE  Quiet
  <1> DEFINE e == Ep(p)
             i == proc[p].cur
             s == [subs[e][i] EXCEPT !.ctx = e]
             st == [subs[e] EXCEPT ![i] = s]
  <1>0. proc[p].pc = "patch" /\ used' = used
    BY DEF DupPatch
  <1>1. e \in Endpoints /\ i \in SubIds
    BY <1>0, Running DEF FrameOK, CurPcs
  <1>2. subs' = subs \/ (subs[e][i] # NoSub /\ subs' = [subs EXCEPT ![e] = st])
    BY DEF DupPatch
  <1>3. CASE subs' = subs
    BY <1>0, <1>3 DEF Quiet
  <1>4. CASE subs[e][i] # NoSub /\ subs' = [subs EXCEPT ![e] = st]
    <2>1. \A x \in Endpoints, k \in SubIds :
            subs'[x][k] = IF x = e /\ k = i THEN s ELSE subs[x][k]
      BY <1>1, <1>4, StoreTypes
    <2>2. subs[e][i] \in EventSubscription
      BY <1>1, <1>4, StoreTypes
    <2> HIDE DEF e, i
    <2>3. \A g : Mine(e, g, s) <=> Mine(e, g, subs[e][i])
      BY <2>2, MinePatched
    <2> HIDE DEF s
    <2>4. \A x \in Endpoints, g \in Group, k \in SubIds :
            Mine(x, g, subs'[x][k]) <=> Mine(x, g, subs[x][k])
      BY <2>1, <2>3
    <2>5. \A x \in Endpoints, g \in Group :
            Copies(subs', x, g) = Copies(subs, x, g)
      BY <2>4 DEF Copies
    <2> QED BY <1>0, <2>5 DEF Quiet
  <1> QED BY <1>2, <1>3, <1>4

\* a POST makes a copy of its own group and of no other
LEMMA NewSubMine ==
  ASSUME NEW e \in Endpoints, NEW g \in Group, NEW h \in Group
  PROVE  Mine(e, h, NewSub(e, g, TRUE)) <=> g = h
  <1> DEFINE s == NewSub(e, g, TRUE)
  <1>1. s # NoSub /\ Destination(s) = getDestination(e, TRUE) /\ s.pfx = g
    BY DEF NewSub, NoSub, Destination, getDestination
  <1>2. Matches(s, h) <=> g = h
    BY <1>1 DEF Matches, Group
  <1> QED BY <1>1, <1>2 DEF Mine

LEMMA QuietTame ==
  ASSUME Quiet, NEW r
  PROVE  Tame(r)
  BY DEF Quiet, Tame

(***************************************************************************)
(* A goroutine that does not move keeps what it knows.                     *)
(***************************************************************************)
LEMMA SearchKept ==
  ASSUME NEW p \in Procs, NEW f, NEW b0 \in BOOLEAN, NEW b1 \in BOOLEAN,
         NEW e, e = EpOf[f.rec],
         Search(p, f, b0, subs, used),
         used[e] \subseteq used'[e],
         \A g \in Group : Copies(subs', e, g) \cap used[e] \subseteq Copies(subs, e, g),
         f.pc \in HuntPcs /\ b1 => b0 /\ Copies(subs', e, f.grp) = Copies(subs, e, f.grp),
         p \in Recs /\ f.pc # "idle" => Copies(subs', e, f.grp) = Copies(subs, e, f.grp)
  PROVE  Search(p, f, b1, subs', used')
  <1>1. f.pc = "dupPrune" =>
          f.cur \in used'[e] /\ \A g \in Group : f.cur \notin Copies(subs', e, g)
    BY DEF Search
  <1>2. b1 /\ f.pc \in {"get", "dupPrune"} =>
          Copies(subs', e, f.grp) \subseteq f.members
    BY DEF Search, HuntPcs
  <1>3. p \in Recs =>
          LET mine == Copies(subs', e, f.grp) IN
          /\ f.pc = "ret" /\ f.res = "missing" => mine = {}
          /\ f.pc \in {"eventTypes", "post"} => mine = {}
          /\ f.pc = "ret" /\ f.res = "dup" => mine # {}
          /\ f.pc = "append" => mine # {}
          /\ f.pc = "patch" => f.cur \in mine
    BY DEF Search
  <1>4. p \in Verifiers /\ b1 /\ f.pc = "ret" => f.res = "dup"
    BY DEF Search, HuntPcs
  <1>5. f.res # "err" /\ f.pc # "fixDelete"
    BY DEF Search
  <1> QED BY <1>1, <1>2, <1>3, <1>4, <1>5 DEF Search

\* only one worker runs for an endpoint
LEMMA OneWorker ==
  ASSUME SoleInv, NEW r \in Recs, NEW q \in Recs, EpOf[r] = EpOf[q],
         Active(r), Active(q)
  PROVE  r = q
  BY DEF SoleInv, Current

\* of a step that is quiet, or is one of the worker of r, q not moving
LEMMA OthersSearch ==
  ASSUME TypeInv, OnceInv, NEW q \in Procs, proc'[q] = proc[q],
         \A x \in Recs : proc'[x].pc # "idle" => proc[x].pc # "idle",
         \/ Quiet
         \/ \E r \in Recs : r # q /\ proc[r].pc # "idle" /\ Tame(r)
  PROVE  SearchInv(q)'
  <1> DEFINE f == proc[q]
             e == EpOf[f.rec]
             b0 == proc[f.rec].pc # "idle"
             b1 == proc'[f.rec].pc # "idle"
  <1>1. Search(q, f, b0, subs, used) /\ LookInv(q)
    BY DEF OnceInv, SearchInv
  <1>2. CASE f.pc = "idle"
    BY <1>1, <1>2 DEF SearchInv, Search
  <1>3. CASE f.pc # "idle"
    <2>1. /\ f.rec \in Recs /\ e \in Endpoints /\ f.grp \in Group
          /\ q \in Recs => f.rec = q
      BY <1>3, Running DEF FrameOK, Ep
    <2>2. b1 => b0
      BY <2>1
    <2>3. PICK r \in Recs : Quiet \/ (r # q /\ proc[r].pc # "idle" /\ Tame(r))
      BY <2>1
    <2>4. Tame(r)
      BY <2>3, QuietTame
    <2>5. q \in Recs => Copies(subs', e, f.grp) = Copies(subs, e, f.grp)
      <3>1. CASE Quiet
        BY <2>1, <3>1 DEF Quiet
      <3>2. CASE r # q /\ proc[r].pc # "idle"
        <4>1. q \in Recs => EpOf[r] # e
          BY <1>3, <2>1, <3>2, OneWorker DEF OnceInv, ControlInv, Active
        <4> QED BY <2>1, <2>4, <4>1 DEF Tame
      <3> QED BY <2>3, <3>1, <3>2
    <2>6. f.pc \in HuntPcs /\ b1 => Copies(subs', e, f.grp) = Copies(subs, e, f.grp)
      <3>1. CASE Quiet
        BY <2>1, <3>1 DEF Quiet
      <3>2. CASE q \in Verifiers /\ r # q /\ proc[r].pc # "idle"
        <4> SUFFICES ASSUME f.pc \in HuntPcs, b1
                     PROVE  Copies(subs', e, f.grp) = Copies(subs, e, f.grp)
          OBVIOUS
        <4>1. EpOf[r] = e => f.rec = r
          BY <2>1, <2>2, <3>2, OneWorker DEF OnceInv, ControlInv, Active
        <4>2. f.grp \in Elems(prefixGroups[f.rec])
          BY <1>1, <1>3, <3>2 DEF LookInv, Look
        <4> QED BY <2>1, <2>4, <4>1, <4>2 DEF Tame
      <3> QED BY <2>3, <2>5, <3>1, <3>2 DEF Procs
    <2>7. /\ used[e] \subseteq used'[e]
          /\ \A g \in Group :
               Copies(subs', e, g) \cap used[e] \subseteq Copies(subs, e, g)
      BY <2>1, <2>4 DEF Tame
    <2>8. SearchInv(q)' <=> Search(q, f, b1, subs', used')
      BY DEF SearchInv
    <2> HIDE DEF f, e, b0, b1
    <2>9. b0 \in BOOLEAN /\ b1 \in BOOLEAN /\ e = EpOf[f.rec]
      BY DEF b0, b1, e
    <2> QED BY <1>1, <2>2, <2>5, <2>6, <2>7, <2>8, <2>9, SearchKept
  <1> QED BY <1>2, <1>3

LEMMA OthersLook ==
  ASSUME TypeInv, OnceInv, NEW q \in Procs, proc'[q] = proc[q],
         q \in Verifiers /\ proc[q].pc # "idle" =>
           Elems(prefixGroups[proc[q].rec]) \subseteq Elems(prefixGroups'[proc[q].rec])
  PROVE  LookInv(q)'
  <1>1. Look(q, proc[q], prefixGroups)
    BY DEF OnceInv, LookInv
  <1>2. Look(q, proc[q], prefixGroups')
    BY <1>1 DEF Look
  <1> QED BY <1>2 DEF LookInv

\* the worker of record x keeps what it has noted
LEMMA HeldKept ==
  ASSUME TypeInv, OnceInv, NEW x \in Recs,
         proc'[x].pc # "idle" => proc[x].pc # "idle",
         Elems(prefixGroups'[x]) \subseteq Elems(prefixGroups[x]),
         \/ Quiet
         \/ \E r \in Recs : proc[r].pc # "idle" /\ Tame(r)
  PROVE  HeldInv(x)'
  <1> SUFFICES ASSUME proc[x].pc # "idle", NEW g \in Elems(prefixGroups[x])
               PROVE  Copies(subs', EpOf[x], g) # {}
    BY DEF HeldInv
  <1>1. Copies(subs, EpOf[x], g) # {}
    BY DEF OnceInv, HeldInv
  <1>2. EpOf[x] \in Endpoints /\ prefixGroups[x] \in Seq(Group)
    BY ConstantsAssumption DEF TypeInv, TypeOK
  <1>3. g \in Group
    BY <1>2 DEF Elems
  <1>4. CASE Quiet
    BY <1>1, <1>2, <1>3, <1>4 DEF Quiet
  <1>5. ASSUME NEW r \in Recs, proc[r].pc # "idle", Tame(r)
        PROVE  Copies(subs', EpOf[x], g) = Copies(subs, EpOf[x], g)
    <2>1. EpOf[x] = EpOf[r] => x = r
      BY <1>5, OneWorker DEF OnceInv, ControlInv, Active
    <2> QED BY <1>2, <1>3, <1>5, <2>1 DEF Tame
  <1> QED BY <1>1, <1>4, <1>5

LEMMA UniqueQuiet ==
  ASSUME UniqueInv, Quiet
  PROVE  UniqueInv'
  BY DEF UniqueInv, Quiet

(***************************************************************************)
(* The goroutine that moves.                                               *)
(***************************************************************************)
LEMMA FrameFields ==
  ASSUME NEW f \in Frame
  PROVE  /\ \A res \in Result :
              LET n == Return(f, res) IN
              /\ n.rec = f.rec /\ n.todo = f.todo /\ n.grp = f.grp
              /\ n.pc = "ret" /\ n.res = res
         /\ \A rest \in SUBSET SubIds :
              LET n == DupOn(f, rest) IN
              /\ n.rec = f.rec /\ n.todo = f.todo /\ n.grp = f.grp
              /\ \/ rest = {} /\ n.pc = "ret" /\ n.res = "missing"
                 \/ rest # {} /\ n.pc = "get" /\ n.res = f.res /\ n.members = rest
         /\ \A rest \in SUBSET SubIds :
              LET n == PruneOn(f, rest) IN
              /\ n.rec = f.rec /\ n.res = f.res
              /\ n.pc \in {"next", "pruneGet"}
         /\ LET n == NextGroup(f) IN
              n.rec = f.rec /\ n.todo = f.todo /\ n.pc = "next" /\ n.res = "none"
  <1>1. ASSUME NEW res \in Result
        PROVE  LET n == Return(f, res) IN
               /\ n.rec = f.rec /\ n.todo = f.todo /\ n.grp = f.grp
               /\ n.pc = "ret" /\ n.res = res
    BY DEF Return, Frame
  <1>2. ASSUME NEW rest \in SUBSET SubIds, rest = {}
        PROVE  LET n == DupOn(f, rest) IN
               /\ n.rec = f.rec /\ n.todo = f.todo /\ n.grp = f.grp
               /\ n.pc = "ret" /\ n.res = "missing"
    BY <1>1, <1>2 DEF DupOn, Result
  <1>3. ASSUME NEW rest \in SUBSET SubIds, rest # {}
        PROVE  LET n == DupOn(f, rest) IN
               /\ n.rec = f.rec /\ n.todo = f.todo /\ n.grp = f.grp
               /\ n.pc = "get" /\ n.res = f.res /\ n.members = rest
    BY <1>3 DEF DupOn, Frame
  <1>4. ASSUME NEW rest \in SUBSET SubIds
        PROVE  LET n == PruneOn(f, rest) IN
               /\ n.rec = f.rec /\ n.res = f.res
               /\ n.pc \in {"next", "pruneGet"}
    BY DEF PruneOn, Frame
  <1>5. LET n == NextGroup(f) IN
          n.rec = f.rec /\ n.todo = f.todo /\ n.pc = "next" /\ n.res = "none"
    BY DEF NextGroup, Frame
  <1>6. ASSUME NEW rest \in SUBSET SubIds
        PROVE  LET n == DupOn(f, rest) IN
               /\ n.rec = f.rec /\ n.todo = f.todo /\ n.grp = f.grp
               /\ \/ rest = {} /\ n.pc = "ret" /\ n.res = "missing"
                  \/ rest # {} /\ n.pc = "get" /\ n.res = f.res /\ n.members = rest
    BY <1>2, <1>3
  <1> QED BY <1>1, <1>4, <1>5, <1>6

LEMMA ElemsHeadTail ==
  ASSUME NEW S, NEW s \in Seq(S), s # <<>>
  PROVE  Head(s) \in Elems(s) /\ Elems(Tail(s)) \subseteq Elems(s)
  <1>1. 1 \in DOMAIN s /\ Head(s) = s[1]
    OBVIOUS
  <1>2. \A k \in DOMAIN Tail(s) : k + 1 \in DOMAIN s /\ Tail(s)[k] = s[k + 1]
    OBVIOUS
  <1> QED BY <1>1, <1>2 DEF Elems

LEMMA MovedOn ==
  ASSUME TypeInv, NEW p \in Procs, proc[p].pc # "idle",
         NEW n, n.rec = proc[p].rec, n.pc # "idle", Goto(p, n)
  PROVE  /\ LookInv(p)' <=> Look(p, n, prefixGroups')
         /\ SearchInv(p)' <=> Search(p, n, proc[n.rec].pc # "idle", subs', used')
  <1>1. /\ proc \in [Procs -> Frame] /\ n.rec \in Procs
        /\ p \in Recs => n.rec = p
    BY Running DEF TypeInv, TypeOK, FrameOK, Procs
  <1>2. proc'[p] = n
    BY <1>1 DEF Goto
  <1>3. (proc'[n.rec].pc # "idle") <=> (proc[n.rec].pc # "idle")
    BY <1>1 DEF Goto
  <1> DEFINE b0 == proc[n.rec].pc # "idle"
             b1 == proc'[n.rec].pc # "idle"
  <1>4. b0 = b1
    BY <1>3
  <1>5. SearchInv(p)' <=> Search(p, n, b1, subs', used')
    BY <1>2 DEF SearchInv
  <1>6. LookInv(p)' <=> Look(p, n, prefixGroups')
    BY <1>2 DEF LookInv
  <1> HIDE DEF b0, b1
  <1>7. SearchInv(p)' <=> Search(p, n, b0, subs', used')
    BY <1>4, <1>5
  <1> QED BY <1>6, <1>7 DEF b0

\* what a goroutine knows before it moves
LEMMA Knows ==
  ASSUME TypeInv, OnceInv, NEW p \in Procs, proc[p].pc # "idle"
  PROVE  /\ Look(p, proc[p], prefixGroups)
         /\ Search(p, proc[p], proc[proc[p].rec].pc # "idle", subs, used)
         /\ HeldInv(proc[p].rec)
         /\ proc[p] \in Frame /\ proc[p].rec \in Recs
         /\ Ep(p) = EpOf[proc[p].rec] /\ Ep(p) \in Endpoints
         /\ proc[p].grp \in Group
         /\ p \in Recs => proc[p].rec = p
         /\ p \in Recs \/ p \in Verifiers
         /\ proc[p].members \in SUBSET SubIds
  BY Running DEF OnceInv, LookInv, SearchInv, FrameOK, Ep, Procs

\* on to the next member, when no copy is left out
LEMMA DupOnKnows ==
  ASSUME TypeInv, OnceInv, NEW p \in Procs, proc[p].pc # "idle",
         NEW f \in Frame, f.rec = proc[p].rec, f.res # "err", f.grp \in Group,
         NEW rest \in SUBSET SubIds, Goto(p, DupOn(f, rest)),
         Quiet, prefixGroups' = prefixGroups,
         proc[f.rec].pc # "idle" => Copies(subs, Ep(p), f.grp) \subseteq rest,
         p \in Verifiers => /\ Elems(f.todo) \subseteq Elems(prefixGroups[f.rec])
                            /\ f.grp \in Elems(prefixGroups[f.rec])
  PROVE  LookInv(p)' /\ SearchInv(p)'
  <1> DEFINE n == DupOn(f, rest)
             b == proc[n.rec].pc # "idle"
             mine == Copies(subs', Ep(p), n.grp)
  <1>1. /\ n.rec = f.rec /\ n.todo = f.todo /\ n.grp = f.grp
        /\ \/ rest = {} /\ n.pc = "ret" /\ n.res = "missing"
           \/ rest # {} /\ n.pc = "get" /\ n.res = f.res /\ n.members = rest
    BY FrameFields
  <1> HIDE DEF n
  <1>2. /\ LookInv(p)' <=> Look(p, n, prefixGroups')
        /\ SearchInv(p)' <=> Search(p, n, b, subs', used')
    BY <1>1, MovedOn DEF n
  <1>3. Look(p, n, prefixGroups')
    BY <1>1 DEF Look
  <1>4. mine = Copies(subs, Ep(p), f.grp) /\ Ep(p) = EpOf[n.rec]
    BY <1>1, Knows DEF Quiet
  <1>5. b => mine \subseteq rest
    BY <1>1, <1>4
  <1>6. p \in Recs => b
    BY <1>1, Knows
  <1>7. p \in Verifiers /\ b => mine # {}
    <2> SUFFICES ASSUME p \in Verifiers, b PROVE mine # {}
      OBVIOUS
    <2>1. HeldInv(n.rec)
      BY <1>1, Knows
    <2> QED BY <1>1, <1>4, <2>1 DEF HeldInv
  <1>8. p \in Recs \/ p \in Verifiers
    BY DEF Procs
  <1>9. p \in Verifiers => p \notin Recs
    BY ConstantsAssumption
  <1> HIDE DEF b
  <1>10. Search(p, n, b, subs', used')
    <2>1. CASE rest = {} /\ n.pc = "ret" /\ n.res = "missing"
      BY <1>4, <1>5, <1>6, <1>7, <2>1 DEF Search
    <2>2. CASE rest # {} /\ n.pc = "get" /\ n.res = f.res /\ n.members = rest
      BY <1>4, <1>5, <2>2 DEF Search
    <2> QED BY <1>1, <2>1, <2>2
  <1> QED BY <1>2, <1>3, <1>10

\* the subscription has been found
LEMMA FoundKnows ==
  ASSUME TypeInv, OnceInv, NEW p \in Procs, proc[p].pc \in {"get", "patch"},
         Goto(p, Return(proc[p], "dup")), Quiet, prefixGroups' = prefixGroups,
         p \in Recs => Copies(subs, Ep(p), proc[p].grp) # {}
  PROVE  LookInv(p)' /\ SearchInv(p)'
  <1> DEFINE f == proc[p]
             n == Return(f, "dup")
             b == proc[n.rec].pc # "idle"
  <1>0. f.pc # "idle"
    OBVIOUS
  <1>1. /\ n.rec = f.rec /\ n.todo = f.todo /\ n.grp = f.grp
        /\ n.pc = "ret" /\ n.res = "dup"
    BY <1>0, Knows, FrameFields DEF Result
  <1> HIDE DEF n
  <1>2. /\ LookInv(p)' <=> Look(p, n, prefixGroups')
        /\ SearchInv(p)' <=> Search(p, n, b, subs', used')
    BY <1>0, <1>1, MovedOn DEF n
  <1>3. Look(p, n, prefixGroups')
    BY <1>0, <1>1, Knows DEF Look, HuntPcs
  <1>4. p \in Recs => Copies(subs', EpOf[n.rec], n.grp) # {}
    BY <1>0, <1>1, Knows DEF Quiet
  <1>5. Search(p, n, b, subs', used')
    BY <1>1, <1>4 DEF Search
  <1> QED BY <1>2, <1>3, <1>5

\* a member has been picked for a PATCH or a DELETE
LEMMA PickedKnows ==
  ASSUME TypeInv, OnceInv, NEW p \in Procs, proc[p].pc = "get",
         NEW pc \in {"patch", "dupPrune"}, NEW i \in SubIds,
         Goto(p, [proc[p] EXCEPT !.pc = pc, !.cur = i]),
         Quiet, prefixGroups' = prefixGroups,
         pc = "patch" => i \in Copies(subs, Ep(p), proc[p].grp),
         pc = "dupPrune" => /\ i \in used[Ep(p)]
                            /\ \A g \in Group : i \notin Copies(subs, Ep(p), g)
  PROVE  LookInv(p)' /\ SearchInv(p)'
  <1> DEFINE f == proc[p]
             n == [f EXCEPT !.pc = pc, !.cur = i]
             b == proc[n.rec].pc # "idle"
             e == Ep(p)
  <1>0. f.pc # "idle"
    OBVIOUS
  <1>1. /\ n.rec = f.rec /\ n.todo = f.todo /\ n.grp = f.grp /\ n.res = f.res
        /\ n.pc = pc /\ n.cur = i /\ n.members = f.members
    BY <1>0, Knows DEF Frame
  <1> HIDE DEF n
  <1>2. /\ LookInv(p)' <=> Look(p, n, prefixGroups')
        /\ SearchInv(p)' <=> Search(p, n, b, subs', used')
    BY <1>0, <1>1, MovedOn DEF n
  <1>3. Look(p, n, prefixGroups')
    BY <1>0, <1>1, Knows DEF Look, HuntPcs
  <1>4. /\ e = EpOf[n.rec] /\ e \in Endpoints
        /\ \A g \in Group : Copies(subs', e, g) = Copies(subs, e, g)
        /\ used[e] \subseteq used'[e]
        /\ n.grp \in Group
    BY <1>0, <1>1, Knows DEF Quiet
  <1>5. f.res # "err" /\ (b => Copies(subs, e, f.grp) \subseteq f.members)
    BY <1>0, <1>1, Knows DEF Search
  <1> HIDE DEF b
  <1>6. Search(p, n, b, subs', used')
    <2>1. CASE pc = "patch"
      BY <1>1, <1>4, <1>5, <2>1 DEF Search
    <2>2. CASE pc = "dupPrune"
      BY <1>1, <1>4, <1>5, <2>2 DEF Search
    <2> QED BY <2>1, <2>2
  <1> QED BY <1>2, <1>3, <1>6

\* isDupRFSubscription leaves the copies alone, and its goroutine knows what
\* it has to
LEMMA DupKnows ==
  ASSUME MildFaults, TypeInv, OursInv, OnceInv, NEW p \in Procs, DupStep(p)
  PROVE  Quiet /\ LookInv(p)' /\ SearchInv(p)'
  <1> DEFINE f == proc[p]
             e == Ep(p)
             b == proc[f.rec].pc # "idle"
  <1>0. f.pc # "idle" /\ prefixGroups' = prefixGroups
    BY DupGoto DEF DupStep, DupList, DupGet, DupPrune, DupPatch, FixDelete, recVars
  <1>1. /\ f \in Frame /\ f.rec \in Recs /\ e \in Endpoints /\ f.grp \in Group
        /\ f.members \in SUBSET SubIds /\ e = EpOf[f.rec]
        /\ p \in Recs => f.rec = p
    BY <1>0, Knows
  <1>2. Look(p, f, prefixGroups) /\ Search(p, f, b, subs, used)
    BY <1>0, Knows
  <1>3. f.res # "err" /\ f.pc # "fixDelete"
    BY <1>2 DEF Search
  <1>4. CASE DupList(p)
    <2> DEFINE h == [f EXCEPT !.grp = Head(f.todo), !.todo = Tail(f.todo)]
               ids == IdsOf(subs[e])
    <2>1. Quiet
      BY <1>4, UnchangedQuiet DEF DupList
    <2>2. f.todo \in Seq(Group) /\ f.todo # <<>>
      BY <1>1, <1>4 DEF DupList, Frame
    <2>3. /\ h \in Frame /\ h.rec = f.rec /\ h.res = f.res
          /\ h.grp = Head(f.todo) /\ h.todo = Tail(f.todo) /\ h.grp \in Group
      <3>1. Head(f.todo) \in Group /\ Tail(f.todo) \in Seq(Group)
        BY <2>2
      <3> QED BY <1>1, <3>1 DEF Frame
    <2>4. Goto(p, DupOn(h, ids))
      BY <1>4, NoOtherFaults DEF DupList
    <2>5. ids \in SUBSET SubIds /\ \A g : Copies(subs, e, g) \subseteq ids
      BY DEF IdsOf, Copies, Mine
    <2>6. p \in Verifiers => /\ Elems(h.todo) \subseteq Elems(prefixGroups[h.rec])
                             /\ h.grp \in Elems(prefixGroups[h.rec])
      BY <1>0, <1>2, <2>2, <2>3, ElemsHeadTail DEF Look
    <2> HIDE DEF h, ids, f
    <2> QED BY <1>0, <1>3, <2>1, <2>3, <2>4, <2>5, <2>6, DupOnKnows DEF f
  <1>5. CASE DupGet(p)
    <2>0. f.pc = "get" /\ Quiet
      BY <1>5, UnchangedQuiet DEF DupGet
    <2>1. PICK i \in f.members :
            Goto(p, Examine(p, i, subs[e][i], getDestination(e, TRUE)))
      BY <1>5, NoOtherFaults DEF DupGet
    <2> DEFINE sub == subs[e][i]
               on == DupOn(f, f.members \ {i})
    <2>2. i \in SubIds /\ (sub # NoSub => i \in used[e])
      BY <1>1 DEF OursInv
    <2>3. \A g : i \in Copies(subs, e, g) <=> Mine(e, g, sub)
      BY <2>2 DEF Copies
    <2>4. \/ Goto(p, on) /\ ~Mine(e, f.grp, sub)
          \/ Goto(p, Return(f, "dup")) /\ Mine(e, f.grp, sub)
          \/ Goto(p, [f EXCEPT !.pc = "patch", !.cur = i]) /\ Mine(e, f.grp, sub)
          \/ /\ Goto(p, [f EXCEPT !.pc = "dupPrune", !.cur = i])
             /\ sub # NoSub /\ \A g : ~Mine(e, g, sub)
      BY <2>1 DEF Examine, Mine
    <2>5. CASE Goto(p, on) /\ ~Mine(e, f.grp, sub)
      <3>1. b => Copies(subs, e, f.grp) \subseteq f.members \ {i}
        BY <1>1, <1>2, <2>0, <2>3, <2>5 DEF Search
      <3>2. p \in Verifiers => /\ Elems(f.todo) \subseteq Elems(prefixGroups[f.rec])
                               /\ f.grp \in Elems(prefixGroups[f.rec])
        BY <1>2, <2>0 DEF Look, HuntPcs
      <3> QED BY <1>0, <1>1, <1>3, <2>0, <2>5, <3>1, <3>2, DupOnKnows
    <2>6. CASE Goto(p, Return(f, "dup")) /\ Mine(e, f.grp, sub)
      BY <1>0, <2>0, <2>3, <2>6, FoundKnows
    <2>7. CASE Goto(p, [f EXCEPT !.pc = "patch", !.cur = i]) /\ Mine(e, f.grp, sub)
      BY <1>0, <2>0, <2>2, <2>3, <2>7, PickedKnows
    <2>8. CASE /\ Goto(p, [f EXCEPT !.pc = "dupPrune", !.cur = i])
               /\ sub # NoSub /\ \A g : ~Mine(e, g, sub)
      BY <1>0, <2>0, <2>2, <2>3, <2>8, PickedKnows
    <2> QED BY <2>4, <2>5, <2>6, <2>7, <2>8
  <1>6. CASE DupPrune(p)
    <2>0. f.pc = "dupPrune"
      BY <1>6 DEF DupPrune
    <2>1. f.cur \in SubIds
      BY <1>0, <2>0, Running DEF FrameOK, CurPcs
    <2>2. \A g \in Group : f.cur \notin Copies(subs, e, g)
      BY <1>1, <1>2, <2>0 DEF Search
    <2>3. Quiet
      <3>1. CASE UNCHANGED bmcVars
        BY <3>1, UnchangedQuiet
      <3>2. CASE Delete(e, f.cur)
        <4>1. /\ used' = used
              /\ \A x \in Endpoints, g \in Group :
                   Copies(subs', x, g) = IF x = e THEN Copies(subs, x, g) \ {f.cur}
                                         ELSE Copies(subs, x, g)
          BY <1>1, <2>1, <3>2, DeleteCopies
        <4> QED BY <2>2, <4>1 DEF Quiet
      <3> QED BY <1>6, <3>1, <3>2 DEF DupPrune
    <2>4. Goto(p, DupOn(f, f.members \ {f.cur}))
      BY <1>6 DEF DupPrune
    <2>5. b => Copies(subs, e, f.grp) \subseteq f.members \ {f.cur}
      BY <1>1, <1>2, <2>0, <2>2 DEF Search
    <2>6. p \in Verifiers => /\ Elems(f.todo) \subseteq Elems(prefixGroups[f.rec])
                             /\ f.grp \in Elems(prefixGroups[f.rec])
      BY <1>2, <2>0 DEF Look, HuntPcs
    <2> QED BY <1>0, <1>1, <1>3, <2>3, <2>4, <2>5, <2>6, DupOnKnows
  <1>7. CASE DupPatch(p)
    <2>0. f.pc = "patch" /\ Goto(p, Return(f, "dup"))
      BY <1>7, NoOtherFaults DEF DupPatch
    <2>1. Quiet
      BY <1>7, PatchQuiet
    <2>2. p \in Recs => Copies(subs, e, f.grp) # {}
      BY <1>1, <1>2, <2>0 DEF Search
    <2> QED BY <1>0, <2>0, <2>1, <2>2, FoundKnows
  <1>8. ~FixDelete(p)
    BY <1>3 DEF FixDelete
  <1> QED BY <1>4, <1>5, <1>6, <1>7, <1>8 DEF DupStep

\* the pruning loop of a worker
LEMMA PruneKnows ==
  ASSUME MildFaults, TypeInv, OnceInv, NEW r \in Recs,
         PruneList(r) \/ PruneGet(r) \/ PruneDelete(r)
  PROVE  /\ Tame(r) /\ UniqueInv'
         /\ LookInv(r)' /\ SearchInv(r)'
         /\ proc'[r].pc \in {"next"} \cup PrunePcs
  <1> DEFINE f == proc[r]
             e == Ep(r)
  <1>0. f.pc \in PrunePcs /\ f.pc # "idle" /\ r \in Procs
    BY DEF PruneList, PruneGet, PruneDelete, PrunePcs, Procs
  <1>1. /\ f \in Frame /\ f.rec = r /\ e = EpOf[r] /\ e \in Endpoints
        /\ f.members \in SUBSET SubIds
        /\ IdsOf(subs[e]) \in SUBSET SubIds
        /\ r \notin Verifiers
        /\ proc \in [Procs -> Frame]
    BY <1>0, Knows, Running, ConstantsAssumption DEF TypeInv, TypeOK
  <1>2. f.res # "err"
    BY <1>0, Knows DEF Search
  <1>3. PICK n : /\ Goto(r, n) /\ n.rec = r /\ n.res # "err"
                 /\ n.pc \in {"next"} \cup PrunePcs
    <2>1. \/ \E rest \in SUBSET SubIds : Goto(r, PruneOn(f, rest))
          \/ \E i \in f.members : Goto(r, [f EXCEPT !.pc = "pruneDelete", !.cur = i])
      BY <1>1 DEF PruneList, PruneGet, PruneDelete
    <2>2. \A rest \in SUBSET SubIds :
            LET n == PruneOn(f, rest) IN
            n.rec = f.rec /\ n.res = f.res /\ n.pc \in {"next", "pruneGet"}
      BY <1>1, FrameFields
    <2>3. \A i : LET n == [f EXCEPT !.pc = "pruneDelete", !.cur = i] IN
            n.rec = f.rec /\ n.res = f.res /\ n.pc = "pruneDelete"
      BY <1>1 DEF Frame
    <2> QED BY <1>1, <1>2, <2>1, <2>2, <2>3 DEF PrunePcs
  <1>4. LookInv(r)' /\ SearchInv(r)'
    <2>1. /\ LookInv(r)' <=> Look(r, n, prefixGroups')
          /\ SearchInv(r)' <=> Search(r, n, proc[n.rec].pc # "idle", subs', used')
      BY <1>0, <1>1, <1>3, MovedOn DEF PrunePcs
    <2> DEFINE b == proc[n.rec].pc # "idle"
    <2> HIDE DEF b
    <2>2. Search(r, n, b, subs', used')
      BY <1>1, <1>3 DEF Search, PrunePcs
    <2> QED BY <1>1, <2>1, <2>2 DEF Look, b
  <1>5. Tame(r) /\ UniqueInv'
    <2>1. CASE UNCHANGED bmcVars
      BY <2>1, UnchangedQuiet, QuietTame, UniqueQuiet DEF OnceInv
    <2>2. CASE PruneDelete(r) /\ Delete(e, f.cur)
      <3>1. f.cur \in SubIds
        BY <1>0, <2>2, Running DEF PruneDelete, FrameOK, CurPcs
      <3>2. /\ used' = used
            /\ \A x \in Endpoints, g \in Group :
                 Copies(subs', x, g) = IF x = e THEN Copies(subs, x, g) \ {f.cur}
                                       ELSE Copies(subs, x, g)
        BY <1>1, <2>2, <3>1, DeleteCopies
      <3>3. Elems(prefixGroups[r]) = {}
        BY <1>0 DEF OnceInv, ControlInv, EarlyInv, Elems
      <3>4. Tame(r)
        BY <1>1, <3>2, <3>3 DEF Tame
      <3>5. UniqueInv'
        BY <3>2 DEF OnceInv, UniqueInv
      <3> QED BY <3>4, <3>5
    <2> QED BY <2>1, <2>2 DEF PruneList, PruneGet, PruneDelete
  <1>6. proc'[r].pc \in {"next"} \cup PrunePcs
    BY <1>0, <1>1, <1>3 DEF Goto
  <1> QED BY <1>4, <1>5, <1>6

\* the POST of a worker that has found nothing
LEMMA PostKnows ==
  ASSUME ~ReuseIds, MildFaults, TypeInv, OursInv, OnceInv, NEW r \in Recs, Post(r)
  PROVE  /\ Tame(r) /\ UniqueInv'
         /\ LookInv(r)' /\ SearchInv(r)'
         /\ proc'[r].pc \in {"next", "append"}
  <1> DEFINE f == proc[r]
             e == Ep(r)
             g == f.grp
             s == NewSub(e, g, TRUE)
  <1>0. f.pc = "post" /\ f.pc # "idle" /\ r \in Procs
    BY DEF Post, Procs
  <1>1. /\ f \in Frame /\ f.rec = r /\ e = EpOf[r] /\ e \in Endpoints /\ g \in Group
        /\ r \notin Verifiers /\ proc \in [Procs -> Frame]
    BY <1>0, Knows, ConstantsAssumption DEF TypeInv, TypeOK
  <1>2. f.res # "err" /\ Copies(subs, e, g) = {}
    <2>1. Search(r, f, proc[f.rec].pc # "idle", subs, used)
      BY <1>0, Knows
    <2> QED BY <1>0, <1>1, <2>1 DEF Search
  <1>3. \/ UNCHANGED bmcVars /\ Goto(r, NextGroup(f))
        \/ PostCreated(r, TRUE) /\ Goto(r, NextGroup(f))
        \/ PostCreated(r, TRUE) /\ Goto(r, [f EXCEPT !.pc = "append"])
    BY NoOtherFaults DEF Post
  <1>4. ASSUME PostCreated(r, TRUE)
        PROVE  Tame(r) /\ UniqueInv' /\ Copies(subs', e, g) # {}
    <2>1. PICK i \in FreeIds(e) : Create(e, i, s)
      BY <1>4 DEF PostCreated
    <2>2. i \notin used[e] /\ i \in SubIds
      BY DEF FreeIds
    <2> HIDE DEF e, g
    <2>3. \A h \in Group : Mine(e, h, s) <=> g = h
      BY <1>1, NewSubMine
    <2> HIDE DEF s
    <2>4. /\ \A x \in Endpoints : used[x] \subseteq used'[x]
          /\ \A x \in Endpoints, h \in Group :
               Copies(subs', x, h) = IF x = e /\ Mine(e, h, s)
                                     THEN Copies(subs, x, h) \cup {i}
                                     ELSE Copies(subs, x, h)
      BY <1>1, <2>1, CreateCopies
    <2>5. g \notin Elems(prefixGroups[r])
      BY <1>0, <1>1, <1>2 DEF OnceInv, HeldInv
    <2>6. /\ \A x \in Endpoints, h \in Group :
               ~(x = e /\ h = g) => Copies(subs', x, h) = Copies(subs, x, h)
          /\ Copies(subs', e, g) = {i}
      BY <1>1, <1>2, <2>3, <2>4
    <2>7. Tame(r)
      BY <1>1, <2>2, <2>4, <2>5, <2>6 DEF Tame
    <2>8. UniqueInv'
      <3> SUFFICES ASSUME NEW x \in Endpoints, NEW h \in Group,
                          NEW j \in Copies(subs', x, h), NEW k \in Copies(subs', x, h)
                   PROVE  j = k
        BY DEF UniqueInv
      <3> QED BY <2>6 DEF OnceInv, UniqueInv
    <2> QED BY <2>6, <2>7, <2>8
  <1>5. Tame(r) /\ UniqueInv'
    <2>1. CASE UNCHANGED bmcVars
      BY <2>1, UnchangedQuiet, QuietTame, UniqueQuiet DEF OnceInv
    <2> QED BY <1>3, <1>4, <2>1
  <1>6. PICK n : /\ Goto(r, n) /\ n.rec = r /\ n.res # "err"
                 /\ n.pc \in {"next", "append"}
                 /\ n.pc = "append" => n.grp = g /\ Copies(subs', e, g) # {}
    <2>1. LET n == NextGroup(f) IN n.rec = f.rec /\ n.pc = "next" /\ n.res = "none"
      BY <1>1, FrameFields
    <2>2. LET n == [f EXCEPT !.pc = "append"] IN
            n.rec = f.rec /\ n.pc = "append" /\ n.res = f.res /\ n.grp = g
      BY <1>1 DEF Frame
    <2>3. CASE Goto(r, NextGroup(f))
      BY <1>1, <2>1, <2>3
    <2>4. CASE PostCreated(r, TRUE) /\ Goto(r, [f EXCEPT !.pc = "append"])
      BY <1>1, <1>2, <1>4, <2>2, <2>4
    <2> QED BY <1>3, <2>3, <2>4
  <1>7. LookInv(r)' /\ SearchInv(r)'
    <2> DEFINE b == proc[n.rec].pc # "idle"
    <2>1. /\ LookInv(r)' <=> Look(r, n, prefixGroups')
          /\ SearchInv(r)' <=> Search(r, n, b, subs', used')
      BY <1>0, <1>1, <1>6, MovedOn
    <2> HIDE DEF b
    <2>2. Search(r, n, b, subs', used')
      BY <1>1, <1>6 DEF Search
    <2> QED BY <1>1, <2>1, <2>2 DEF Look
  <1>8. proc'[r].pc \in {"next", "append"}
    BY <1>0, <1>1, <1>6 DEF Goto
  <1> QED BY <1>5, <1>7, <1>8

\* the steps of a worker between its requests
LEMMA LocalKnows ==
  ASSUME MildFaults, TypeInv, OnceInv, NEW r \in Recs,
         WorkerReturn(r) \/ GetEventTypes(r) \/ AppendGroup(r) \/ WorkerDone(r)
  PROVE  /\ LookInv(r)' /\ SearchInv(r)'
         /\ proc'[r].pc \notin PrunePcs
         /\ status'[r] \in {status[r], "COMPLETE"}
  <1> DEFINE f == proc[r]
             e == Ep(r)
             mine == Copies(subs, e, f.grp)
  <1>0. f.pc # "idle" /\ r \in Procs
    BY DEF WorkerReturn, GetEventTypes, AppendGroup, WorkerDone, Procs
  <1>1. /\ f \in Frame /\ f.rec = r /\ e = EpOf[r] /\ e \in Endpoints
        /\ r \notin Verifiers /\ proc \in [Procs -> Frame]
        /\ status \in [Recs -> Status]
    BY <1>0, Knows, ConstantsAssumption DEF TypeInv, TypeOK
  <1>2. /\ f.res # "err"
        /\ f.pc = "ret" /\ f.res = "missing" => mine = {}
        /\ f.pc = "eventTypes" => mine = {}
        /\ f.pc = "ret" /\ f.res = "dup" => mine # {}
    <2>1. Search(r, f, proc[f.rec].pc # "idle", subs, used)
      BY <1>0, Knows
    <2> QED BY <1>0, <1>1, <2>1 DEF Search
  <1>3. UNCHANGED bmcVars
    BY <1>0, LocalStep
  <1>4. CASE WorkerDone(r)
    <2>1. proc'[r] = Idle /\ status'[r] = "COMPLETE"
      BY <1>0, <1>1, <1>4 DEF WorkerDone, Goto
    <2>2. LookInv(r)' <=> Look(r, Idle, prefixGroups')
      BY <2>1 DEF LookInv
    <2>3. SearchInv(r)' <=> Search(r, Idle, proc'[Idle.rec].pc # "idle", subs', used')
      BY <2>1 DEF SearchInv
    <2>4. \A b : Search(r, Idle, b, subs', used')
      BY DEF Search, Idle
    <2>5. LookInv(r)' /\ SearchInv(r)'
      BY <1>1, <2>2, <2>3, <2>4 DEF Look
    <2>6. proc'[r].pc \notin PrunePcs
      BY <2>1, IdleOK DEF PrunePcs
    <2> QED BY <2>1, <2>5, <2>6
  <1>5. CASE ~WorkerDone(r)
    <2>1. PICK n : /\ Goto(r, n) /\ n.rec = r /\ n.res # "err"
                   /\ n.pc \in {"next", "append", "eventTypes", "post"}
                   /\ n.pc = "append" => n.grp = f.grp /\ mine # {}
                   /\ n.pc \in {"eventTypes", "post"} => n.grp = f.grp /\ mine = {}
      <3>1. LET n == NextGroup(f) IN n.rec = f.rec /\ n.pc = "next" /\ n.res = "none"
        BY <1>1, FrameFields
      <3>2. /\ LET n == [f EXCEPT !.pc = "append", !.res = "none"] IN
                 n.rec = f.rec /\ n.pc = "append" /\ n.res = "none" /\ n.grp = f.grp
            /\ LET n == [f EXCEPT !.pc = "eventTypes", !.res = "none"] IN
                 n.rec = f.rec /\ n.pc = "eventTypes" /\ n.res = "none" /\ n.grp = f.grp
            /\ LET n == [f EXCEPT !.pc = "post"] IN
                 n.rec = f.rec /\ n.pc = "post" /\ n.res = f.res /\ n.grp = f.grp
        BY <1>1 DEF Frame
      <3>3. \/ Goto(r, NextGroup(f))
            \/ /\ Goto(r, [f EXCEPT !.pc = "append", !.res = "none"])
               /\ mine # {}
            \/ /\ Goto(r, [f EXCEPT !.pc = "eventTypes", !.res = "none"])
               /\ mine = {}
            \/ Goto(r, [f EXCEPT !.pc = "post"]) /\ mine = {}
        BY <1>2, <1>5 DEF WorkerReturn, GetEventTypes, AppendGroup
      <3>4. CASE Goto(r, NextGroup(f))
        BY <1>1, <3>1, <3>4
      <3>5. CASE Goto(r, [f EXCEPT !.pc = "append", !.res = "none"]) /\ mine # {}
        BY <1>1, <3>2, <3>5
      <3>6. CASE Goto(r, [f EXCEPT !.pc = "eventTypes", !.res = "none"]) /\ mine = {}
        BY <1>1, <3>2, <3>6
      <3>7. CASE Goto(r, [f EXCEPT !.pc = "post"]) /\ mine = {}
        BY <1>1, <1>2, <3>2, <3>7
      <3> QED BY <3>3, <3>4, <3>5, <3>6, <3>7
    <2> DEFINE b == proc[n.rec].pc # "idle"
    <2>2. /\ LookInv(r)' <=> Look(r, n, prefixGroups')
          /\ SearchInv(r)' <=> Search(r, n, b, subs', used')
      BY <1>0, <1>1, <2>1, MovedOn
    <2> HIDE DEF b
    <2>3. subs' = subs
      BY <1>3 DEF bmcVars
    <2>4. Search(r, n, b, subs', used')
      BY <1>1, <2>1, <2>3 DEF Search
    <2>5. proc'[r] = n
      BY <1>0, <1>1, <2>1 DEF Goto
    <2>6. status'[r] \in {status[r], "COMPLETE"}
      BY <1>1, <1>2, <1>5, NoOtherFaults DEF WorkerReturn, GetEventTypes, AppendGroup
    <2> QED BY <1>1, <2>1, <2>2, <2>4, <2>5, <2>6 DEF Look, PrunePcs
  <1> QED BY <1>4, <1>5

(***************************************************************************)
(* Every step of a worker.                                                 *)
(***************************************************************************)
LEMMA AppendElems ==
  ASSUME NEW g \in Group, NEW pg \in Seq(Group)
  PROVE  /\ Elems(pg) \subseteq Elems(appendUniqueRegPrefix(g, pg))
         /\ Elems(appendUniqueRegPrefix(g, pg)) \subseteq Elems(pg) \cup {g}
  <1>1. Elems(Append(pg, g)) \subseteq Elems(pg) \cup {g}
    <2>1. DOMAIN Append(pg, g) = 1 .. Len(pg) + 1 /\ DOMAIN pg = 1 .. Len(pg)
          /\ Append(pg, g)[Len(pg) + 1] = g
          /\ \A k \in 1 .. Len(pg) : Append(pg, g)[k] = pg[k]
      OBVIOUS
    <2>2. \A k \in 1 .. Len(pg) + 1 : k \in 1 .. Len(pg) \/ k = Len(pg) + 1
      OBVIOUS
    <2> QED BY <2>1, <2>2 DEF Elems
  <1>2. Elems(pg) \subseteq Elems(Append(pg, g))
    BY ElemsAppend
  <1> QED BY <1>1, <1>2 DEF appendUniqueRegPrefix

LEMMA WorkerControl ==
  ASSUME TypeInv, ControlInv, NEW r \in Recs, Worker(r),
         status'[r] \in {status[r], "COMPLETE"},
         \A x \in Recs \ {r} : prefixGroups'[x] = prefixGroups[x],
         proc'[r].pc \in PrunePcs =>
           proc[r].pc \in PrunePcs /\ prefixGroups'[r] = prefixGroups[r]
  PROVE  ControlInv'
  <1>1. /\ endpoints' = endpoints /\ pending' = pending
        /\ proc[r].pc # "idle"
        /\ \A q \in Procs \ {r} : proc'[q] = proc[q]
        /\ \A q \in Recs \ {r} : status'[q] = status[q]
    BY WorkerEffect
  <1>2. \A q \in Recs \ {r} : proc'[q] = proc[q]
    BY <1>1 DEF Procs
  <1>3. r \notin Elems(pending)
    BY <1>1 DEF ControlInv, QueueInv
  <1>4. pending \in Seq(Recs)
    BY DEF TypeInv, TypeOK
  <1>5. SoleInv'
    <2>1. \A q \in Recs : Active(q)' => Active(q)
      BY <1>1, <1>2 DEF Active
    <2>2. \A q \in Recs : Current(q)' <=> Current(q)
      BY <1>1 DEF Current
    <2>3. Active(r)
      BY <1>1 DEF Active
    <2> QED BY <1>1, <2>1, <2>2, <2>3 DEF ControlInv, SoleInv
  <1>6. QueueInv'
    <2>1. Elems(pending) \subseteq Recs \ {r}
      BY <1>3, <1>4 DEF Elems
    <2> QED BY <1>1, <1>2, <2>1 DEF ControlInv, QueueInv
  <1>7. EarlyInv'
    BY <1>1, <1>2, <1>3 DEF ControlInv, EarlyInv
  <1> QED BY <1>5, <1>6, <1>7 DEF ControlInv

LEMMA WorkerOnce ==
  ASSUME ~ReuseIds, MildFaults, TypeInv, OursInv, OnceInv, NEW r \in Recs, Worker(r)
  PROVE  OnceInv'
  <1>1. /\ r \in Procs /\ proc[r].pc # "idle"
        /\ \A q \in Procs \ {r} : proc'[q] = proc[q]
        /\ \A x \in Recs \ {r} : proc'[x] = proc[x]
    BY WorkerEffect DEF Procs
  <1>2. /\ proc[r].grp \in Group /\ prefixGroups \in [Recs -> Seq(Group)]
        /\ proc[r].rec = r /\ Ep(r) = EpOf[r]
    BY <1>1, Knows DEF TypeInv, TypeOK
  <1>3. /\ \A x \in Recs \ {r} : prefixGroups'[x] = prefixGroups[x]
        /\ \/ prefixGroups' = prefixGroups
           \/ /\ proc[r].pc = "append"
              /\ prefixGroups'[r] = appendUniqueRegPrefix(proc[r].grp, prefixGroups[r])
    BY <1>2 DEF Worker, PruneList, PruneGet, PruneDelete, DupStep, DupList,
       DupGet, DupPrune, DupPatch, FixDelete, WorkerReturn, GetEventTypes,
       Post, AppendGroup, WorkerDone, recVars
  <1>4. /\ Tame(r) /\ UniqueInv' /\ LookInv(r)' /\ SearchInv(r)'
        /\ status'[r] \in {status[r], "COMPLETE"}
        /\ proc'[r].pc \in PrunePcs =>
             proc[r].pc \in PrunePcs /\ prefixGroups' = prefixGroups
    <2>1. CASE PruneList(r) \/ PruneGet(r) \/ PruneDelete(r)
      <3>1. proc[r].pc \in PrunePcs /\ prefixGroups' = prefixGroups /\ status' = status
        BY <2>1 DEF PruneList, PruneGet, PruneDelete, PrunePcs, recVars
      <3> QED BY <2>1, <3>1, PruneKnows
    <2>2. CASE DupStep(r)
      <3>1. status' = status
        BY <2>2 DEF DupStep, DupList, DupGet, DupPrune, DupPatch, FixDelete, recVars
      <3>2. Quiet /\ LookInv(r)' /\ SearchInv(r)'
        BY <1>1, <2>2, DupKnows
      <3>3. proc'[r].pc \notin PrunePcs
        <4>1. SearchInv(r)
          BY <1>1 DEF OnceInv
        <4>2. /\ proc[r] \in Frame /\ proc \in [Procs -> Frame]
              /\ proc[r].members \in SUBSET SubIds
              /\ IdsOf(subs[Ep(r)]) \in SUBSET SubIds
              /\ proc[r].todo \in Seq(Group)
          BY <1>1, Running DEF TypeInv, TypeOK
        <4>3. CASE DupList(r)
          <5> DEFINE h == [proc[r] EXCEPT !.grp = Head(proc[r].todo),
                                          !.todo = Tail(proc[r].todo)]
          <5>1. h \in Frame
            <6>1. Head(proc[r].todo) \in Group /\ Tail(proc[r].todo) \in Seq(Group)
              BY <4>2, <4>3 DEF DupList
            <6> QED BY <4>2, <6>1 DEF Frame
          <5>2. Goto(r, DupOn(h, IdsOf(subs[Ep(r)])))
            BY <4>3, NoOtherFaults DEF DupList
          <5> HIDE DEF h
          <5> QED BY <1>1, <4>2, <5>1, <5>2, FrameFields DEF Goto, PrunePcs
        <4>4. CASE DupGet(r)
          <5>1. PICK i \in proc[r].members :
                  Goto(r, Examine(r, i, subs[Ep(r)][i], getDestination(Ep(r), TRUE)))
            BY <4>4, NoOtherFaults DEF DupGet
          <5>2. PICK n \in {DupOn(proc[r], proc[r].members \ {i}),
                            Return(proc[r], "dup"),
                            [proc[r] EXCEPT !.pc = "patch", !.cur = i],
                            [proc[r] EXCEPT !.pc = "dupPrune", !.cur = i]} : Goto(r, n)
            BY <5>1 DEF Examine
          <5>3. /\ [proc[r] EXCEPT !.pc = "patch", !.cur = i].pc = "patch"
                /\ [proc[r] EXCEPT !.pc = "dupPrune", !.cur = i].pc = "dupPrune"
            BY <4>2 DEF Frame
          <5>4. /\ DupOn(proc[r], proc[r].members \ {i}).pc \in {"ret", "get"}
                /\ Return(proc[r], "dup").pc = "ret"
            <6>1. proc[r].members \ {i} \in SUBSET SubIds /\ "dup" \in Result
              BY <4>2 DEF Result
            <6> QED BY <4>2, <6>1, FrameFields
          <5>5. n.pc \notin PrunePcs
            BY <5>2, <5>3, <5>4 DEF PrunePcs
          <5> QED BY <1>1, <4>2, <5>2, <5>5 DEF Goto
        <4>5. CASE DupPrune(r) \/ DupPatch(r) \/ FixDelete(r)
          <5>1. \/ \E rest \in SUBSET SubIds : Goto(r, DupOn(proc[r], rest))
                \/ \E res \in Result : Goto(r, Return(proc[r], res))
            BY <4>2, <4>5, NoOtherFaults DEF DupPrune, DupPatch, FixDelete, Result
          <5>2. /\ \A rest \in SUBSET SubIds : DupOn(proc[r], rest).pc \notin PrunePcs
                /\ \A res \in Result : Return(proc[r], res).pc \notin PrunePcs
            BY <4>2, FrameFields DEF PrunePcs
          <5> QED BY <1>1, <4>2, <5>1, <5>2 DEF Goto
        <4> QED BY <2>2, <4>3, <4>4, <4>5 DEF DupStep
      <3> QED BY <3>1, <3>2, <3>3, QuietTame, UniqueQuiet DEF OnceInv
    <2>3. CASE Post(r)
      <3>1. status' = status
        BY <2>3 DEF Post, recVars
      <3> QED BY <2>3, <3>1, PostKnows DEF PrunePcs
    <2>4. CASE WorkerReturn(r) \/ GetEventTypes(r) \/ AppendGroup(r) \/ WorkerDone(r)
      <3>1. Quiet
        BY <1>1, <2>4, LocalStep, UnchangedQuiet
      <3> QED BY <2>4, <3>1, LocalKnows, QuietTame, UniqueQuiet DEF OnceInv
    <2> QED BY <2>1, <2>2, <2>3, <2>4 DEF Worker
  <1>5. ControlInv'
    BY <1>3, <1>4, WorkerControl DEF OnceInv
  <1>6. \A x \in Recs : proc'[x].pc # "idle" => proc[x].pc # "idle"
    BY <1>1
  <1>7. \A x \in Recs : Elems(prefixGroups[x]) \subseteq Elems(prefixGroups'[x])
    BY <1>2, <1>3, AppendElems
  <1>8. \A q \in Procs : LookInv(q)' /\ SearchInv(q)'
    <2> SUFFICES ASSUME NEW q \in Procs, q # r PROVE LookInv(q)' /\ SearchInv(q)'
      BY <1>4
    <2>1. proc[q].pc # "idle" => proc[q].rec \in Recs
      BY Running
    <2>2. LookInv(q)'
      BY <1>1, <1>7, <2>1, OthersLook
    <2>3. SearchInv(q)'
      BY <1>1, <1>4, <1>6, OthersSearch
    <2> QED BY <2>2, <2>3
  <1>9. \A x \in Recs : HeldInv(x)'
    <2>1. CASE prefixGroups' = prefixGroups
      BY <1>1, <1>4, <1>6, <2>1, HeldKept
    <2>2. CASE /\ proc[r].pc = "append"
               /\ prefixGroups'[r] = appendUniqueRegPrefix(proc[r].grp, prefixGroups[r])
      <3>1. ASSUME NEW x \in Recs, x # r PROVE HeldInv(x)'
        BY <1>1, <1>3, <1>4, <1>6, <3>1, HeldKept
      <3>2. Copies(subs, EpOf[r], proc[r].grp) # {}
        <4>1. Search(r, proc[r], proc[proc[r].rec].pc # "idle", subs, used)
          BY <1>1, Knows
        <4> QED BY <1>2, <2>2, <4>1 DEF Search
      <3>3. AppendGroup(r)
        BY <1>1, <2>2 DEF Worker, PruneList, PruneGet, PruneDelete, DupStep, DupList,
           DupGet, DupPrune, DupPatch, FixDelete, WorkerReturn, GetEventTypes,
           Post, WorkerDone
      <3>4. subs' = subs
        BY <3>3 DEF AppendGroup, bmcVars
      <3>5. Elems(prefixGroups'[r]) \subseteq Elems(prefixGroups[r]) \cup {proc[r].grp}
        BY <1>2, <2>2, AppendElems
      <3>6. HeldInv(r)'
        BY <1>1, <3>2, <3>4, <3>5 DEF OnceInv, HeldInv
      <3> QED BY <3>1, <3>6
    <2> QED BY <1>3, <2>1, <2>2
  <1> QED BY <1>4, <1>5, <1>8, <1>9 DEF OnceInv

(***************************************************************************)
(* The other steps.                                                        *)
(***************************************************************************)
\* steps that leave the records, the queue and the workers alone
LEMMA ControlKept ==
  ASSUME TypeInv, ControlInv, endpoints' = endpoints, pending' = pending,
         prefixGroups' = prefixGroups, \A x \in Recs : proc'[x] = proc[x],
         \A x \in Recs : Active(x) => status'[x] = status[x]
  PROVE  ControlInv'
  <1>1. \A x \in Recs : (Active(x)' <=> Active(x)) /\ (Current(x)' <=> Current(x))
    BY DEF Active, Current
  <1>2. Elems(pending) \subseteq Recs
    BY DEF TypeInv, TypeOK, Elems
  <1>3. SoleInv'
    BY <1>1 DEF ControlInv, SoleInv
  <1>4. QueueInv'
    BY <1>2 DEF ControlInv, QueueInv
  <1>5. EarlyInv'
    BY DEF ControlInv, EarlyInv
  <1> QED BY <1>3, <1>4, <1>5 DEF ControlInv

\* a quiet step that leaves the workers and what they have noted alone
LEMMA QuietOnce ==
  ASSUME TypeInv, OnceInv, ControlInv', Quiet, prefixGroups' = prefixGroups,
         \A x \in Recs : proc'[x] = proc[x],
         \A p \in Verifiers : proc'[p] = proc[p] \/ (LookInv(p)' /\ SearchInv(p)')
  PROVE  OnceInv'
  <1>1. \A p \in Procs : LookInv(p)' /\ SearchInv(p)'
    BY OthersLook, OthersSearch DEF Procs
  <1>2. \A x \in Recs : HeldInv(x)'
    BY HeldKept
  <1> QED BY <1>1, <1>2, UniqueQuiet DEF OnceInv

LEMMA VerifierOnce ==
  ASSUME MildFaults, TypeInv, OursInv, OnceInv, NEW v \in Verifiers, Verifier(v)
  PROVE  OnceInv'
  <1> DEFINE f == proc[v]
             r == f.rec
  <1>0. /\ v \in Procs /\ v \notin Recs /\ f.pc # "idle"
        /\ endpoints' = endpoints /\ pending' = pending
        /\ \A q \in Procs \ {v} : proc'[q] = proc[q]
    BY VerifierEffect, DupGoto, ConstantsAssumption
       DEF Verifier, VerifyRange, VerifierReturn, VerifierDone, Procs
  <1>1. /\ f \in Frame /\ r \in Recs /\ proc \in [Procs -> Frame]
        /\ status \in [Recs -> Status]
        /\ \A x \in Recs : proc'[x] = proc[x]
    BY <1>0, Knows DEF TypeInv, TypeOK, Procs
  <1>2. Look(v, f, prefixGroups) /\ Search(v, f, proc[r].pc # "idle", subs, used)
    BY <1>0, Knows
  <1>3. prefixGroups' = prefixGroups
    BY DEF Verifier, VerifyRange, VerifierReturn, VerifierDone, DupStep, DupList,
       DupGet, DupPrune, DupPatch, FixDelete, recVars
  <1>4. Quiet /\ LookInv(v)' /\ SearchInv(v)'
    <2>1. CASE DupStep(v)
      BY <1>0, <2>1, DupKnows
    <2>2. CASE VerifierDone(v)
      <3>1. UNCHANGED bmcVars /\ proc'[v] = Idle
        BY <1>0, <1>1, <2>2 DEF VerifierDone, Goto
      <3>2. SearchInv(v)' <=> Search(v, Idle, proc'[Idle.rec].pc # "idle", subs', used')
        BY <3>1 DEF SearchInv
      <3>3. \A b : Search(v, Idle, b, subs', used')
        BY DEF Search, Idle
      <3>4. LookInv(v)'
        BY <3>1, IdleOK DEF LookInv, Look
      <3> QED BY <3>1, <3>2, <3>3, <3>4, UnchangedQuiet
    <2>3. CASE VerifyRange(v) \/ VerifierReturn(v)
      <3>1. UNCHANGED bmcVars
        BY <2>3 DEF VerifyRange, VerifierReturn
      <3>2. PICK n : /\ Goto(v, n) /\ n.rec = r /\ n.res # "err" /\ n.pc = "next"
                     /\ Elems(n.todo) \subseteq Elems(prefixGroups[r])
        <4>1. CASE VerifyRange(v)
          <5> DEFINE n == [f EXCEPT !.pc = "next", !.todo = prefixGroups[r]]
          <5>1. n.rec = r /\ n.res = f.res /\ n.pc = "next" /\ n.todo = prefixGroups[r]
            BY <1>1 DEF Frame
          <5>2. Goto(v, n)
            BY <4>1 DEF VerifyRange
          <5>3. f.res # "err"
            BY <1>2 DEF Search
          <5> QED BY <5>1, <5>2, <5>3
        <4>2. CASE VerifierReturn(v)
          <5>1. LET n == NextGroup(f) IN
                  n.rec = r /\ n.todo = f.todo /\ n.pc = "next" /\ n.res = "none"
            BY <1>1, FrameFields
          <5>2. Elems(f.todo) \subseteq Elems(prefixGroups[r])
            BY <1>0, <1>2 DEF Look
          <5>3. Goto(v, NextGroup(f))
            BY <4>2 DEF VerifierReturn
          <5> QED BY <5>1, <5>2, <5>3
        <4> QED BY <2>3, <4>1, <4>2
      <3> DEFINE b == proc[n.rec].pc # "idle"
      <3>3. /\ LookInv(v)' <=> Look(v, n, prefixGroups')
            /\ SearchInv(v)' <=> Search(v, n, b, subs', used')
        BY <1>0, <3>2, MovedOn
      <3> HIDE DEF b
      <3>4. Search(v, n, b, subs', used')
        BY <1>0, <3>2 DEF Search
      <3>5. Look(v, n, prefixGroups')
        BY <1>3, <3>2 DEF Look, HuntPcs
      <3> QED BY <3>1, <3>3, <3>4, <3>5, UnchangedQuiet
    <2> QED BY <2>1, <2>2, <2>3 DEF Verifier
  <1>5. \A x \in Recs : Active(x) => status'[x] = status[x]
    <2>1. CASE VerifierReturn(v) /\ f.res # "dup"
      <3>1. \A x \in Recs \ {r} : status'[x] = status[x]
        BY <1>1, <2>1 DEF VerifierReturn
      <3>2. f.pc = "ret" /\ f.grp \in Elems(prefixGroups[r])
        BY <1>0, <1>2, <2>1 DEF VerifierReturn, Look, HuntPcs
      <3>3. proc[r].pc = "idle"
        BY <1>2, <2>1, <3>2 DEF Search
      <3>4. r \notin Elems(pending)
        <4>1. Elems(<<>>) = {}
          BY DEF Elems
        <4> QED BY <1>1, <3>2, <4>1 DEF OnceInv, ControlInv, EarlyInv
      <3> QED BY <3>1, <3>3, <3>4 DEF Active
    <2>2. CASE ~(VerifierReturn(v) /\ f.res # "dup")
      BY <2>2 DEF Verifier, VerifyRange, VerifierReturn, VerifierDone, DupStep,
         DupList, DupGet, DupPrune, DupPatch, FixDelete, recVars
    <2> QED BY <2>1, <2>2
  <1>6. ControlInv'
    BY <1>0, <1>1, <1>3, <1>5, ControlKept DEF OnceInv
  <1>7. \A q \in Verifiers : proc'[q] = proc[q] \/ (LookInv(q)' /\ SearchInv(q)')
    BY <1>0, <1>4 DEF Procs
  <1> QED BY <1>1, <1>3, <1>4, <1>6, <1>7, QuietOnce

\* rfSubscribe starts the worker of the first record in the queue
LEMMA SubRecvOnce ==
  ASSUME TypeInv, OnceInv, SubRecv
  PROVE  OnceInv'
  <1>0. pending \in Seq(Recs) /\ pending # <<>>
    BY DEF TypeInv, TypeOK, SubRecv
  <1>1. PICK r \in Recs : r = Head(pending)
    BY <1>0
  <1> DEFINE f == [Idle EXCEPT !.rec = r, !.todo = registryPrefixGroups,
                     !.pc = IF pruneOldSubscriptions THEN "pruneList" ELSE "next"]
  <1>2. r \in Elems(pending) /\ Elems(Tail(pending)) \subseteq Elems(pending)
    BY <1>0, <1>1, ElemsHeadTail
  <1>3. f.rec = r /\ f.pc \in {"pruneList", "next"} /\ f.res = "none"
    BY DEF Idle
  <1>4. /\ Goto(r, f) /\ pending' = Tail(pending)
        /\ UNCHANGED <<scanVars, recVars, verify, bmcVars, nfaults>>
    BY <1>1 DEF SubRecv
  <1> HIDE DEF f
  <1>5. /\ r \in Procs /\ proc'[r] = f /\ \A q \in Procs \ {r} : proc'[q] = proc[q]
        /\ \A x \in Recs \ {r} : proc'[x] = proc[x]
    BY <1>4 DEF Goto, Procs, TypeInv, TypeOK
  <1>6. /\ endpoints' = endpoints /\ status' = status
        /\ prefixGroups' = prefixGroups /\ subs' = subs /\ used' = used /\ Quiet
    BY <1>4, UnchangedQuiet DEF scanVars, recVars, bmcVars
  <1>7. r \notin Elems(Tail(pending))
    <2>1. \A k \in DOMAIN Tail(pending) :
            k + 1 \in DOMAIN pending /\ Tail(pending)[k] = pending[k + 1] /\ k + 1 # 1
      BY <1>0
    <2>2. 1 \in DOMAIN pending /\ r = pending[1]
      BY <1>0, <1>1
    <2>3. \A i, j \in DOMAIN pending : pending[i] = pending[j] => i = j
      BY DEF OnceInv, ControlInv, QueueInv
    <2> QED BY <2>1, <2>2, <2>3 DEF Elems
  <1>8. prefixGroups[r] = <<>> /\ Elems(prefixGroups[r]) = {}
    BY <1>1, <1>2 DEF OnceInv, ControlInv, EarlyInv, Elems
  <1>9. ControlInv'
    <2>1. \A x \in Recs : (Active(x)' => Active(x)) /\ (Current(x)' <=> Current(x))
      BY <1>2, <1>4, <1>5, <1>6 DEF Active, Current
    <2>2. SoleInv'
      BY <1>6, <2>1 DEF OnceInv, ControlInv, SoleInv
    <2>3. QueueInv'
      <3>1. \A i, j \in DOMAIN Tail(pending) :
              Tail(pending)[i] = Tail(pending)[j] => i = j
        <4>1. \A k \in DOMAIN Tail(pending) :
                k \in Int /\ k + 1 \in DOMAIN pending /\ Tail(pending)[k] = pending[k + 1]
          BY <1>0
        <4>2. \A i, j \in DOMAIN pending : pending[i] = pending[j] => i = j
          BY DEF OnceInv, ControlInv, QueueInv
        <4>3. SUFFICES ASSUME NEW i \in DOMAIN Tail(pending),
                              NEW j \in DOMAIN Tail(pending),
                              Tail(pending)[i] = Tail(pending)[j]
                       PROVE  i = j
          OBVIOUS
        <4>4. i + 1 = j + 1
          BY <4>1, <4>2, <4>3
        <4> QED BY <4>1, <4>4
      <3>2. Elems(Tail(pending)) \subseteq Recs \ {r}
        BY <1>0, <1>2, <1>7 DEF Elems
      <3> QED BY <1>2, <1>4, <1>5, <3>1, <3>2 DEF OnceInv, ControlInv, QueueInv
    <2>4. EarlyInv'
      BY <1>2, <1>4, <1>5, <1>6, <1>8 DEF OnceInv, ControlInv, EarlyInv
    <2> QED BY <2>2, <2>3, <2>4 DEF ControlInv
  <1>10. LookInv(r)' /\ SearchInv(r)'
    <2>1. SearchInv(r)' <=> Search(r, f, proc'[f.rec].pc # "idle", subs', used')
      BY <1>5 DEF SearchInv
    <2>2. \A b : Search(r, f, b, subs', used')
      BY <1>1, <1>3, ConstantsAssumption DEF Search
    <2>3. LookInv(r)'
      BY <1>1, ConstantsAssumption DEF LookInv, Look
    <2> QED BY <2>1, <2>2, <2>3
  <1>11. ASSUME NEW q \in Procs, q # r
         PROVE  LookInv(q)' /\ SearchInv(q)'
    <2>1. proc'[q] = proc[q]
      BY <1>5, <1>11
    <2>2. LookInv(q)'
      BY <1>6, <2>1, OthersLook
    <2>3. CASE proc[q].pc = "idle"
      BY <2>1, <2>2, <2>3 DEF OnceInv, SearchInv, Search
    <2>4. CASE proc[q].pc # "idle"
      <3> DEFINE h == proc[q]
                 e == EpOf[h.rec]
                 b0 == proc[h.rec].pc # "idle"
                 b1 == proc'[h.rec].pc # "idle"
      <3>1. Search(q, h, b0, subs, used) /\ Look(q, h, prefixGroups)
            /\ h.rec \in Recs /\ (q \in Recs => h.rec = q) /\ e \in Endpoints
            /\ (q \in Recs \/ q \in Verifiers) /\ h.grp \in Group
        BY <2>4, Knows
      <3>2. h.pc \in HuntPcs /\ b1 => b0
        <4>1. q \in Verifiers /\ h.pc \in HuntPcs => h.rec # r
          BY <1>8, <2>4, <3>1 DEF Look
        <4>2. h.rec # r => b0 = b1
          BY <1>5, <3>1
        <4> QED BY <1>11, <3>1, <4>1, <4>2
      <3>3. /\ used[e] \subseteq used'[e]
            /\ \A g \in Group : Copies(subs', e, g) = Copies(subs, e, g)
        BY <1>6, <3>1 DEF Quiet
      <3>4. SearchInv(q)' <=> Search(q, h, b1, subs', used')
        BY <2>1 DEF SearchInv
      <3> HIDE DEF h, e, b0, b1
      <3>5. b0 \in BOOLEAN /\ b1 \in BOOLEAN /\ e = EpOf[h.rec]
        BY DEF b0, b1, e
      <3>6. SearchInv(q)'
        BY <3>1, <3>2, <3>3, <3>4, <3>5, SearchKept
      <3> QED BY <2>2, <3>6
    <2> QED BY <2>2, <2>3, <2>4
  <1>12. \A x \in Recs : HeldInv(x)'
    <2>1. HeldInv(r)'
      BY <1>6, <1>8 DEF HeldInv
    <2>2. ASSUME NEW x \in Recs, x # r PROVE HeldInv(x)'
      BY <1>5, <1>6, <2>2, HeldKept
    <2> QED BY <2>1, <2>2
  <1> QED BY <1>6, <1>9, <1>10, <1>11, <1>12, UniqueQuiet DEF OnceInv

\* rfVerifySub starts a verifier, or leaves the record alone
LEMMA VerifyDispatchOnce ==
  ASSUME TypeInv, OnceInv, VerifyDispatch
  PROVE  OnceInv'
  <1>1. /\ proc \in [Procs -> Frame] /\ Recs \cap Verifiers = {}
        /\ verify \in Seq(Recs)
    BY ConstantsAssumption DEF TypeInv, TypeOK
  <1>2. /\ endpoints' = endpoints /\ pending' = pending /\ status' = status
        /\ prefixGroups' = prefixGroups /\ UNCHANGED bmcVars
    BY DEF VerifyDispatch, VerifySkip, VerifyRecv, scanVars, recVars
  <1>3. Quiet
    BY <1>2, UnchangedQuiet
  <1>4. CASE VerifySkip
    <2>1. proc' = proc
      BY <1>4 DEF VerifySkip
    <2>2. ControlInv'
      BY <1>2, <2>1, ControlKept DEF OnceInv
    <2> QED BY <1>2, <1>3, <2>1, <2>2, QuietOnce
  <1>5. CASE VerifyRecv
    <2> DEFINE f == [Idle EXCEPT !.rec = Head(verify), !.pc = "range"]
    <2>1. f.pc = "range" /\ f.todo = <<>> /\ f.res = "none"
      BY DEF Idle
    <2>2. PICK v \in Verifiers : Goto(v, f)
      BY <1>5 DEF VerifyRecv
    <2> HIDE DEF f
    <2>3. /\ v \in Procs /\ v \notin Recs /\ proc'[v] = f
          /\ \A q \in Procs \ {v} : proc'[q] = proc[q]
          /\ \A x \in Recs : proc'[x] = proc[x]
      BY <1>1, <2>2 DEF Goto, Procs
    <2>4. ControlInv'
      BY <1>2, <2>3, ControlKept DEF OnceInv
    <2>5. LookInv(v)' /\ SearchInv(v)'
      <3>1. SearchInv(v)' <=> Search(v, f, proc'[f.rec].pc # "idle", subs', used')
        BY <2>3 DEF SearchInv
      <3>2. \A b : Search(v, f, b, subs', used')
        BY <2>1, <2>3 DEF Search
      <3>3. Elems(f.todo) = {}
        BY <2>1 DEF Elems
      <3>4. LookInv(v)'
        BY <2>1, <2>3, <3>3 DEF LookInv, Look, HuntPcs
      <3> QED BY <3>1, <3>2, <3>4
    <2> QED BY <1>2, <1>3, <2>3, <2>4, <2>5, QuietOnce DEF Procs
  <1> QED BY <1>4, <1>5 DEF VerifyDispatch

\* HSM and the other services; hardware is not exchanged here
LEMMA EnvironmentOnce ==
  ASSUME MildFaults, OneEach, TypeInv, OnceInv, Environment
  PROVE  OnceInv'
  <1>1. PICK e \in Endpoints : HSMDiscover(e) \/ ForeignSubscribe(e)
    BY NoOtherFaults DEF Environment, Replace
  <1>2. /\ endpoints' = endpoints /\ pending' = pending /\ status' = status
        /\ prefixGroups' = prefixGroups /\ proc' = proc
    BY <1>1 DEF HSMDiscover, ForeignSubscribe, scanVars, recVars, chanVars
  <1>3. Quiet
    <2>1. CASE HSMDiscover(e)
      BY <2>1, UnchangedQuiet DEF HSMDiscover
    <2>2. CASE ForeignSubscribe(e)
      <3>1. PICK i \in FreeIds(e), s \in ForeignSubs : Create(e, i, s)
        BY <2>2 DEF ForeignSubscribe
      <3>2. \A g \in Group : ~Mine(e, g, s)
        BY DEF OneEach
      <3> QED BY <3>1, <3>2, CreateCopies DEF Quiet
    <2> QED BY <1>1, <2>1, <2>2
  <1>4. ControlInv'
    BY <1>2, ControlKept DEF OnceInv
  <1> QED BY <1>2, <1>3, <1>4, QuietOnce

\* The scan loop: a record it queues is new, and the one it replaces has
\* neither a worker nor a place in the queue.
LEMMA ScanQueueOnce ==
  ASSUME TypeInv, OnceInv, NEW e \in Endpoints, ScanQueue(e)
  PROVE  OnceInv'
  <1>1. PICK r \in FreeRecs(e) :
          /\ endpoints' = [endpoints EXCEPT ![e] = r]
          /\ status' = [status EXCEPT ![r] = "PENDING"]
          /\ prefixGroups' = [prefixGroups EXCEPT ![r] = <<>>]
          /\ pending' = Append(pending, r)
    BY DEF ScanQueue
  <1>2. /\ r \in Recs /\ EpOf[r] = e /\ r \notin Elems(pending)
        /\ \A p \in Procs : proc[p].rec # r
    BY DEF FreeRecs
  <1>3. /\ endpoints \in [Endpoints -> Recs \cup {NoRec}]
        /\ status \in [Recs -> Status] /\ prefixGroups \in [Recs -> Seq(Group)]
        /\ pending \in Seq(Recs) /\ NoRec \notin Recs
        /\ EpOf \in [Recs -> Endpoints]
    BY ConstantsAssumption DEF TypeInv, TypeOK
  <1>4. proc[r].pc = "idle"
    <2>1. r \in Procs
      BY <1>2 DEF Procs
    <2>2. proc[r].pc # "idle" => proc[r].rec = r
      BY <1>2, <2>1, Running DEF FrameOK
    <2> QED BY <1>2, <2>1, <2>2
  <1>5. \A x \in Recs : Active(x) => EpOf[x] # e
    <2> SUFFICES ASSUME NEW x \in Recs, Active(x), EpOf[x] = e PROVE FALSE
      OBVIOUS
    <2>1. endpoints[e] = x /\ status[x] # "ERROR"
      BY DEF OnceInv, ControlInv, SoleInv, Current
    <2> QED BY <1>3, <2>1 DEF ScanQueue, NeedsSubscribing
  <1>6. proc' = proc /\ Quiet
    BY UnchangedQuiet DEF ScanQueue
  <1>7. Elems(pending') = Elems(pending) \cup {r}
    <2>1. /\ DOMAIN pending = 1 .. Len(pending) /\ Len(pending) \in Nat
          /\ DOMAIN pending' = 1 .. Len(pending) + 1
          /\ pending'[Len(pending) + 1] = r
          /\ \A k \in 1 .. Len(pending) : pending'[k] = pending[k]
      BY <1>1, <1>2, <1>3
    <2>2. \A k \in 1 .. Len(pending) + 1 :
            k \in 1 .. Len(pending) \/ k = Len(pending) + 1
      BY <2>1
    <2>3. Len(pending) + 1 \in 1 .. Len(pending) + 1
          /\ \A k \in 1 .. Len(pending) : k \in 1 .. Len(pending) + 1
      BY <2>1
    <2> QED BY <2>1, <2>2, <2>3 DEF Elems
  <1>8. ControlInv'
    <2>1. SoleInv'
      <3> SUFFICES ASSUME NEW x \in Recs, Active(x)'
                   PROVE  Current(x)' /\ status'[x] # "ERROR"
        BY DEF SoleInv
      <3>1. CASE x = r
        BY <1>1, <1>2, <1>3, <3>1 DEF Current
      <3>2. CASE x # r
        <4>1. Active(x)
          BY <1>6, <1>7, <3>2 DEF Active
        <4>2. Current(x) /\ status[x] # "ERROR" /\ EpOf[x] # e /\ EpOf[x] \in Endpoints
          BY <1>3, <1>5, <4>1 DEF OnceInv, ControlInv, SoleInv
        <4> QED BY <1>1, <1>2, <1>3, <3>2, <4>2 DEF Current
      <3> QED BY <3>1, <3>2
    <2>2. QueueInv'
      <3>1. /\ \A i, j \in DOMAIN pending : pending[i] = pending[j] => i = j
            /\ \A x \in Elems(pending) : proc[x].pc = "idle"
        BY DEF OnceInv, ControlInv, QueueInv
      <3>2. \A x \in Elems(pending') : proc'[x].pc = "idle"
        BY <1>4, <1>6, <1>7, <3>1
      <3>3. ASSUME NEW i \in DOMAIN pending', NEW j \in DOMAIN pending',
                   pending'[i] = pending'[j]
            PROVE  i = j
        <4>1. /\ DOMAIN pending = 1 .. Len(pending) /\ Len(pending) \in Nat
              /\ DOMAIN pending' = 1 .. Len(pending) + 1
              /\ pending'[Len(pending) + 1] = r
              /\ \A k \in 1 .. Len(pending) : pending'[k] = pending[k]
          BY <1>1, <1>2, <1>3
        <4>2. \A k \in DOMAIN pending : pending[k] # r
          BY <1>2 DEF Elems
        <4>3. /\ i \in DOMAIN pending \/ i = Len(pending) + 1
              /\ j \in DOMAIN pending \/ j = Len(pending) + 1
          BY <4>1
        <4> QED BY <3>1, <3>3, <4>1, <4>2, <4>3
      <3> QED BY <3>2, <3>3 DEF QueueInv
    <2>3. EarlyInv'
      BY <1>1, <1>2, <1>3, <1>6, <1>7 DEF OnceInv, ControlInv, EarlyInv
    <2> QED BY <2>1, <2>2, <2>3 DEF ControlInv
  <1>9. \A x \in Recs \ {r} : prefixGroups'[x] = prefixGroups[x]
    BY <1>1, <1>2, <1>3
  <1>10. \A p \in Procs : LookInv(p)' /\ SearchInv(p)'
    <2> SUFFICES ASSUME NEW p \in Procs PROVE LookInv(p)' /\ SearchInv(p)'
      OBVIOUS
    <2>1. proc'[p] = proc[p] /\ proc[p].rec # r
      BY <1>2, <1>6
    <2>2. proc[p].pc # "idle" => proc[p].rec \in Recs
      BY Running
    <2>3. LookInv(p)'
      BY <1>9, <2>1, <2>2, OthersLook
    <2>4. SearchInv(p)'
      BY <1>6, <2>1, OthersSearch
    <2> QED BY <2>3, <2>4
  <1>11. \A x \in Recs : HeldInv(x)'
    <2>1. HeldInv(r)'
      BY <1>4, <1>6 DEF HeldInv
    <2>2. ASSUME NEW x \in Recs, x # r PROVE HeldInv(x)'
      BY <1>6, <1>9, <2>2, HeldKept
    <2> QED BY <2>1, <2>2
  <1> QED BY <1>6, <1>8, <1>10, <1>11, UniqueQuiet DEF OnceInv

LEMMA MainLoopOnce ==
  ASSUME TypeInv, OnceInv, MainLoop
  PROVE  OnceInv'
  <1>1. ASSUME UNCHANGED <<endpoints, recVars, pending, proc, bmcVars>>
        PROVE  OnceInv'
    <2>1. /\ endpoints' = endpoints /\ pending' = pending /\ status' = status
          /\ prefixGroups' = prefixGroups /\ proc' = proc /\ Quiet
      BY <1>1, UnchangedQuiet DEF recVars
    <2>2. ControlInv'
      BY <2>1, ControlKept DEF OnceInv
    <2> QED BY <2>1, <2>2, QuietOnce
  <1>2. CASE ScanStart
    BY <1>1, <1>2 DEF ScanStart, chanVars
  <1>3. ASSUME NEW e \in Endpoints, ScanSkip(e) \/ ScanVerify(e) PROVE OnceInv'
    BY <1>1, <1>3 DEF ScanSkip, ScanVerify, chanVars
  <1> QED BY <1>2, <1>3, ScanQueueOnce DEF MainLoop, Scan

LEMMA OnceInit ==
  ASSUME OneEach
  PROVE  Init => OnceInv
  <1> SUFFICES ASSUME Init PROVE OnceInv
    OBVIOUS
  <1>1. /\ pending = <<>> /\ \A p \in Procs : proc[p] = Idle
        /\ \A r \in Recs : proc[r] = Idle
        /\ subs \in [Endpoints -> Stores]
    BY DEF Init, Procs
  <1>2. Elems(pending) = {} /\ DOMAIN pending = {}
    BY <1>1 DEF Elems
  <1>3. ControlInv
    BY <1>1, <1>2, IdleOK
       DEF ControlInv, SoleInv, QueueInv, EarlyInv, Active, PrunePcs
  <1>4. UniqueInv
    BY <1>1 DEF UniqueInv, Copies, OneEach
  <1>5. \A p \in Procs : LookInv(p)
    BY <1>1, IdleOK DEF LookInv, Look
  <1>6. \A p \in Procs : SearchInv(p)
    <2>1. \A p, b : Search(p, Idle, b, subs, used)
      BY DEF Search, Idle
    <2> QED BY <1>1, <2>1 DEF SearchInv
  <1>7. \A r \in Recs : HeldInv(r)
    BY <1>1, IdleOK DEF HeldInv
  <1> QED BY <1>3, <1>4, <1>5, <1>6, <1>7 DEF OnceInv

LEMMA OnceNext ==
  ASSUME ~ReuseIds, MildFaults, OneEach
  PROVE  TypeInv /\ OursInv /\ OnceInv /\ [Next]_vars => OnceInv'
  <1> SUFFICES ASSUME TypeInv, OursInv, OnceInv, [Next]_vars PROVE OnceInv'
    OBVIOUS
  <1>1. CASE UNCHANGED vars
    <2>1. /\ endpoints' = endpoints /\ pending' = pending /\ status' = status
          /\ prefixGroups' = prefixGroups /\ proc' = proc /\ Quiet
      BY <1>1, UnchangedQuiet DEF vars, scanVars, recVars, chanVars
    <2>2. ControlInv'
      BY <2>1, ControlKept DEF OnceInv
    <2> QED BY <2>1, <2>2, QuietOnce
  <1>2. CASE Environment
    BY <1>2, EnvironmentOnce
  <1>3. CASE MainLoop
    BY <1>3, MainLoopOnce
  <1>4. CASE SubRecv
    BY <1>4, SubRecvOnce
  <1>5. CASE VerifyDispatch
    BY <1>5, VerifyDispatchOnce
  <1>6. ASSUME NEW r \in Recs, Worker(r) PROVE OnceInv'
    BY <1>6, WorkerOnce
  <1>7. ASSUME NEW v \in Verifiers, Verifier(v) PROVE OnceInv'
    BY <1>7, VerifierOnce
  <1> QED BY <1>1, <1>2, <1>3, <1>4, <1>5, <1>6, <1>7 DEF Next

\* "If already subscribed, don't add a second one": of the faults only those
\* of MildFaults, with ids that are given out once and stores that start
\* without duplicates, a BMC never holds two subscriptions for one endpoint
\* and group, however many verifiers look, mend and prune beside the worker,
\* and whatever other services subscribe (rf_subscriptions.go 225-309,
\* 371-417, 460-577).
THEOREM NeverTwice ==
  ASSUME ~ReuseIds, MildFaults, OneEach
  PROVE  Spec => []NoDuplicateSubs
  <1>1. Init => TypeInv /\ OursInv /\ OnceInv
    BY InitTypes, OursInit, OnceInit
  <1>2. TypeInv /\ OursInv /\ OnceInv /\ [Next]_vars
          => (TypeInv /\ OursInv /\ OnceInv)'
    BY NextTypes, OursNext, OnceNext
  <1>3. OnceInv => NoDuplicateSubs
    BY DEF OnceInv, UniqueInv, Copies, Mine, NoDuplicateSubs, Right
  <1> QED BY <1>1, <1>2, <1>3, PTL DEF Spec
=============================================================================
