------------------------ MODULE RFSubscriptionsProofs ------------------------
(***************************************************************************)
(* Theorems about RFSubscriptions, for every set of endpoints, records,    *)
(* verifiers, subscription ids, stores and faults.                         *)
(***************************************************************************)
EXTENDS RFSubscriptions, SequenceTheorems, TLAPS

\* a frame process p may have: a running one has a record, a worker that of
\* its own, and a request about one subscription has its id
FrameOK(p, f) ==
  /\ f \in Frame
  /\ f.pc # "idle" => f.rec \in Recs
  /\ p \in Recs /\ f.pc # "idle" => f.rec = p
  /\ f.pc \in CurPcs => f.cur \in SubIds

ProcOK == \A p \in Procs : FrameOK(p, proc[p])

\* the inductive strengthening of TypeOK
TypeInv == TypeOK /\ ProcOK

LEMMA IdleOK == Idle \in Frame /\ Idle.pc = "idle"
  BY DEF Idle, Frame, Pc, Group, Result

LEMMA PrefixGroupsType == registryPrefixGroups \in Seq(Group)
  BY DEF registryPrefixGroups, Group

\* the frame constructors keep a frame's record and give legal frames
LEMMA FrameTypes ==
  ASSUME NEW p, NEW f, FrameOK(p, f), f.pc # "idle"
  PROVE  /\ \A rest \in SUBSET SubIds :
              /\ FrameOK(p, PruneOn(f, rest)) /\ PruneOn(f, rest).pc # "idle"
              /\ FrameOK(p, DupOn(f, rest)) /\ DupOn(f, rest).pc # "idle"
         /\ \A res \in Result :
              FrameOK(p, Return(f, res)) /\ Return(f, res).pc # "idle"
         /\ FrameOK(p, NextGroup(f)) /\ NextGroup(f).pc # "idle"
  <1>1. f \in Frame /\ f.rec \in Recs /\ (p \in Recs => f.rec = p)
    BY DEF FrameOK
  <1>2. ASSUME NEW rest \in SUBSET SubIds
        PROVE FrameOK(p, PruneOn(f, rest)) /\ PruneOn(f, rest).pc # "idle"
    BY <1>1 DEF PruneOn, FrameOK, Frame, Pc, CurPcs
  <1>3. ASSUME NEW res \in Result
        PROVE FrameOK(p, Return(f, res)) /\ Return(f, res).pc # "idle"
    BY <1>1 DEF Return, FrameOK, Frame, Pc, CurPcs
  <1>4. ASSUME NEW rest \in SUBSET SubIds
        PROVE FrameOK(p, DupOn(f, rest)) /\ DupOn(f, rest).pc # "idle"
    <2>1. CASE rest = {}
      BY <2>1, <1>3 DEF DupOn, Result
    <2>2. CASE rest # {}
      BY <2>2, <1>1 DEF DupOn, FrameOK, Frame, Pc, CurPcs
    <2> QED BY <2>1, <2>2
  <1>5. FrameOK(p, NextGroup(f)) /\ NextGroup(f).pc # "idle"
    BY <1>1 DEF NextGroup, FrameOK, Frame, Pc, CurPcs, Result, Group
  <1> QED BY <1>2, <1>3, <1>4, <1>5

\* installing a legal frame keeps the process table legal
LEMMA GotoOK ==
  ASSUME TypeInv, NEW p \in Procs, NEW f, FrameOK(p, f), Goto(p, f)
  PROVE  proc' \in [Procs -> Frame] /\ ProcOK'
  <1>1. proc \in [Procs -> Frame] /\ f \in Frame
    BY DEF TypeInv, TypeOK, FrameOK
  <1>2. proc' = [proc EXCEPT ![p] = f]
    BY DEF Goto
  <1>3. proc' \in [Procs -> Frame]
    BY <1>1, <1>2
  <1>4. \A q \in Procs : proc'[q] = IF q = p THEN f ELSE proc[q]
    BY <1>1, <1>2
  <1>5. \A q \in Procs : FrameOK(q, proc'[q])
    BY <1>4 DEF TypeInv, ProcOK
  <1> QED BY <1>3, <1>5 DEF ProcOK, FrameOK

\* what every action on behalf of a running process may rely on
LEMMA Running ==
  ASSUME TypeInv, NEW p \in Procs, proc[p].pc # "idle"
  PROVE  /\ FrameOK(p, proc[p])
         /\ proc[p].rec \in Recs
         /\ Ep(p) \in Endpoints
         /\ proc[p].members \in SUBSET SubIds
         /\ subs[Ep(p)] \in Store
         /\ IdsOf(subs[Ep(p)]) \in SUBSET SubIds
         /\ proc[p].todo \in Seq(Group)
         /\ proc[p].grp \in Group
  <1>1. FrameOK(p, proc[p]) /\ proc[p].rec \in Recs
    BY DEF TypeInv, ProcOK, FrameOK
  <1>2. Ep(p) \in Endpoints
    BY <1>1, ConstantsAssumption DEF Ep
  <1>3. subs[Ep(p)] \in Store
    BY <1>2 DEF TypeInv, TypeOK
  <1>4. IdsOf(subs[Ep(p)]) \in SUBSET SubIds
    BY DEF IdsOf
  <1> QED BY <1>1, <1>2, <1>3, <1>4 DEF FrameOK, Frame

LEMMA FaultType ==
  ASSUME TypeInv, NEW f, Fault(f) \/ NoFault
  PROVE  nfaults' \in 0 .. MaxFaults
  BY ConstantsAssumption DEF TypeInv, TypeOK, Fault, NoFault

\* requests that change a BMC's store keep it a store
LEMMA DeleteType ==
  ASSUME TypeInv, NEW e \in Endpoints, NEW i \in SubIds,
         Delete(e, i) \/ UNCHANGED bmcVars
  PROVE  subs' \in [Endpoints -> Store] /\ used' \in [Endpoints -> SUBSET SubIds]
  <1>1. subs \in [Endpoints -> Store] /\ used \in [Endpoints -> SUBSET SubIds]
    BY DEF TypeInv, TypeOK
  <1>2. CASE UNCHANGED bmcVars
    BY <1>1, <1>2 DEF bmcVars
  <1>3. CASE Delete(e, i)
    <2> DEFINE st == [subs[e] EXCEPT ![i] = NoSub]
    <2>1. subs' = [subs EXCEPT ![e] = st] /\ used' = used
      BY <1>3 DEF Delete
    <2>2. st \in Store
      BY <1>1 DEF Store
    <2> QED BY <1>1, <2>1, <2>2
  <1> QED BY <1>2, <1>3

LEMMA CreateType ==
  ASSUME TypeInv, NEW e \in Endpoints, NEW i \in SubIds,
         NEW s \in EventSubscription, Create(e, i, s)
  PROVE  subs' \in [Endpoints -> Store] /\ used' \in [Endpoints -> SUBSET SubIds]
  <1> DEFINE st == [subs[e] EXCEPT ![i] = s]
  <1>1. subs \in [Endpoints -> Store] /\ used \in [Endpoints -> SUBSET SubIds]
    BY DEF TypeInv, TypeOK
  <1>2. /\ subs' = [subs EXCEPT ![e] = st]
        /\ used' = [used EXCEPT ![e] = @ \cup {i}]
    BY DEF Create
  <1>3. st \in Store
    BY <1>1 DEF Store
  <1> QED BY <1>1, <1>2, <1>3

LEMMA NewSubType ==
  ASSUME NEW e \in Endpoints, NEW g \in Group, NEW b \in BOOLEAN
  PROVE  NewSub(e, g, b) \in EventSubscription
  BY ConstantsAssumption
     DEF NewSub, getDestination, EventSubscription, Base

LEMMA AppendUniqueType ==
  ASSUME NEW g \in Group, NEW pg \in Seq(Group)
  PROVE  appendUniqueRegPrefix(g, pg) \in Seq(Group)
  BY DEF appendUniqueRegPrefix

\* what remains of TypeInv' for a step that leaves the scan loop and the
\* channels alone
LEMMA ProcStep ==
  ASSUME TypeInv, UNCHANGED <<scanVars, chanVars>>,
         status' \in [Recs -> Status],
         prefixGroups' \in [Recs -> Seq(Group)],
         NEW p \in Procs, NEW f, FrameOK(p, f), Goto(p, f),
         subs' \in [Endpoints -> Store],
         used' \in [Endpoints -> SUBSET SubIds],
         nfaults' \in 0 .. MaxFaults
  PROVE  TypeInv'
  BY GotoOK DEF TypeInv, TypeOK, scanVars, chanVars

LEMMA PruneTypes ==
  ASSUME TypeInv, NEW p \in Procs,
         PruneList(p) \/ PruneGet(p) \/ PruneDelete(p)
  PROVE  TypeInv'
  <1> USE DEF TypeInv
  <1>0. proc[p].pc # "idle"
    BY DEF PruneList, PruneGet, PruneDelete
  <1>1. status \in [Recs -> Status] /\ prefixGroups \in [Recs -> Seq(Group)]
        /\ subs \in [Endpoints -> Store]
        /\ used \in [Endpoints -> SUBSET SubIds]
    BY DEF TypeOK
  <1>2. CASE PruneList(p)
    <2>1. PICK rest \in SUBSET SubIds : Goto(p, PruneOn(proc[p], rest))
      BY <1>0, <1>2, Running DEF PruneList
    <2>2. FrameOK(p, PruneOn(proc[p], rest))
      BY <1>0, Running, FrameTypes
    <2>3. nfaults' \in 0 .. MaxFaults
      BY <1>2, FaultType DEF PruneList
    <2>4. UNCHANGED <<scanVars, recVars, chanVars, bmcVars>>
      BY <1>2 DEF PruneList
    <2> QED BY <1>1, <2>1, <2>2, <2>3, <2>4, ProcStep DEF recVars, bmcVars
  <1>3. CASE PruneGet(p)
    <2>1. PICK i \in proc[p].members :
            \/ Goto(p, [proc[p] EXCEPT !.pc = "pruneDelete", !.cur = i])
            \/ Goto(p, PruneOn(proc[p], proc[p].members \ {i}))
      BY <1>3 DEF PruneGet
    <2>2. FrameOK(p, [proc[p] EXCEPT !.pc = "pruneDelete", !.cur = i])
      <3>1. FrameOK(p, proc[p]) /\ i \in SubIds
        BY <1>0, Running
      <3> QED BY <1>0, <3>1 DEF FrameOK, Frame, Pc, CurPcs
    <2>3. FrameOK(p, PruneOn(proc[p], proc[p].members \ {i}))
      BY <1>0, Running, FrameTypes
    <2>4. nfaults' \in 0 .. MaxFaults
      BY <1>3, FaultType DEF PruneGet
    <2>5. UNCHANGED <<scanVars, recVars, chanVars, bmcVars>>
      BY <1>3 DEF PruneGet
    <2> QED BY <1>1, <2>1, <2>2, <2>3, <2>4, <2>5, ProcStep DEF recVars, bmcVars
  <1>4. CASE PruneDelete(p)
    <2>1. FrameOK(p, PruneOn(proc[p], proc[p].members \ {proc[p].cur}))
      BY <1>0, Running, FrameTypes
    <2>2. proc[p].cur \in SubIds
      BY <1>4, <1>0, Running DEF PruneDelete, FrameOK, CurPcs
    <2>3. subs' \in [Endpoints -> Store] /\ used' \in [Endpoints -> SUBSET SubIds]
      BY <1>4, <1>0, <2>2, Running, DeleteType DEF PruneDelete
    <2>4. nfaults' \in 0 .. MaxFaults
      BY <1>4, FaultType DEF PruneDelete
    <2>5. UNCHANGED <<scanVars, recVars, chanVars>>
      BY <1>4 DEF PruneDelete
    <2> QED BY <1>4, <1>1, <2>1, <2>3, <2>4, <2>5, ProcStep DEF recVars, PruneDelete
  <1> QED BY <1>2, <1>3, <1>4

LEMMA ExamineOK ==
  ASSUME TypeInv, NEW p \in Procs, proc[p].pc # "idle",
         NEW i \in proc[p].members, NEW sub, NEW dest
  PROVE  FrameOK(p, Examine(p, i, sub, dest))
         /\ Examine(p, i, sub, dest).pc # "idle"
  <1>1. /\ FrameOK(p, DupOn(proc[p], proc[p].members \ {i}))
        /\ DupOn(proc[p], proc[p].members \ {i}).pc # "idle"
        /\ FrameOK(p, Return(proc[p], "dup"))
        /\ Return(proc[p], "dup").pc # "idle"
    BY Running, FrameTypes DEF Result
  <1>2. /\ FrameOK(p, [proc[p] EXCEPT !.pc = "patch", !.cur = i])
        /\ [proc[p] EXCEPT !.pc = "patch", !.cur = i].pc # "idle"
        /\ FrameOK(p, [proc[p] EXCEPT !.pc = "dupPrune", !.cur = i])
        /\ [proc[p] EXCEPT !.pc = "dupPrune", !.cur = i].pc # "idle"
    BY Running DEF FrameOK, Frame, Pc, CurPcs
  <1>3. Examine(p, i, sub, dest) \in
          {DupOn(proc[p], proc[p].members \ {i}), Return(proc[p], "dup"),
           [proc[p] EXCEPT !.pc = "patch", !.cur = i],
           [proc[p] EXCEPT !.pc = "dupPrune", !.cur = i]}
    BY DEF Examine
  <1> QED BY <1>1, <1>2, <1>3

\* Every step of isDupRFSubscription leaves its goroutine running, with a
\* legal frame.
LEMMA DupGoto ==
  ASSUME TypeInv, NEW p \in Procs, DupStep(p)
  PROVE  /\ proc[p].pc # "idle"
         /\ \E g : FrameOK(p, g) /\ g.pc # "idle" /\ Goto(p, g)
  <1>0. proc[p].pc # "idle"
    BY DEF DupStep, DupList, DupGet, DupPrune, DupPatch, FixDelete
  <1>1. FrameOK(p, proc[p])
    BY <1>0, Running
  <1>2. CASE DupList(p)
    <2> DEFINE f == [proc[p] EXCEPT !.grp = Head(proc[p].todo),
                                    !.todo = Tail(proc[p].todo)]
    <2>1. FrameOK(p, f) /\ f.pc # "idle"
      <3>1. Head(proc[p].todo) \in Group /\ Tail(proc[p].todo) \in Seq(Group)
        BY <1>0, <1>2, Running DEF DupList
      <3> QED BY <1>0, <1>1, <3>1 DEF FrameOK, Frame
    <2>2. \/ \E rest \in SUBSET SubIds : Goto(p, DupOn(f, rest))
          \/ Goto(p, Return(f, "err"))
      BY <1>0, <1>2, Running DEF DupList
    <2> HIDE DEF f
    <2> QED BY <1>0, <2>1, <2>2, FrameTypes DEF Result
  <1>3. CASE DupGet(p)
    <2>1. \/ \E i \in proc[p].members : \E sub, dest : Goto(p, Examine(p, i, sub, dest))
          \/ Goto(p, Return(proc[p], "err"))
      BY <1>3 DEF DupGet
    <2> QED BY <1>0, <1>1, <2>1, ExamineOK, FrameTypes DEF Result
  <1>4. CASE DupPrune(p) \/ FixDelete(p)
    BY <1>0, <1>4, Running, FrameTypes DEF Result, DupPrune, FixDelete
  <1>5. CASE DupPatch(p)
    <2>1. FrameOK(p, [proc[p] EXCEPT !.pc = "fixDelete"])
          /\ [proc[p] EXCEPT !.pc = "fixDelete"].pc # "idle"
      BY <1>0, <1>1, <1>5 DEF DupPatch, FrameOK, Frame, Pc, CurPcs
    <2> QED BY <1>0, <1>1, <1>5, <2>1, FrameTypes DEF Result, DupPatch
  <1> QED BY <1>0, <1>2, <1>3, <1>4, <1>5 DEF DupStep

LEMMA DupTypes ==
  ASSUME TypeInv, NEW p \in Procs, DupStep(p)
  PROVE  TypeInv'
  <1> USE DEF TypeInv
  <1>0. proc[p].pc # "idle"
    BY DEF DupStep, DupList, DupGet, DupPrune, DupPatch, FixDelete
  <1>1. status \in [Recs -> Status] /\ prefixGroups \in [Recs -> Seq(Group)]
        /\ subs \in [Endpoints -> Store]
        /\ used \in [Endpoints -> SUBSET SubIds]
    BY DEF TypeOK
  <1>2. \E g : FrameOK(p, g) /\ Goto(p, g)
    BY DupGoto
  <1>3. CASE DupList(p) \/ DupGet(p)
    <2>1. nfaults' \in 0 .. MaxFaults
      BY <1>3, FaultType DEF DupList, DupGet
    <2>2. UNCHANGED <<scanVars, recVars, chanVars, bmcVars>>
      BY <1>3 DEF DupList, DupGet
    <2> QED BY <1>1, <1>2, <2>1, <2>2, ProcStep DEF recVars, bmcVars
  <1>4. CASE DupPrune(p) \/ FixDelete(p)
    <2>2. proc[p].cur \in SubIds
      BY <1>4, <1>0, Running DEF DupPrune, FixDelete, FrameOK, CurPcs
    <2>3. subs' \in [Endpoints -> Store] /\ used' \in [Endpoints -> SUBSET SubIds]
      BY <1>4, <1>0, <2>2, Running, DeleteType DEF DupPrune, FixDelete
    <2>4. nfaults' \in 0 .. MaxFaults
      BY <1>4, FaultType DEF DupPrune, FixDelete
    <2>5. UNCHANGED <<scanVars, recVars, chanVars>>
      BY <1>4 DEF DupPrune, FixDelete
    <2> QED BY <1>1, <1>2, <2>3, <2>4, <2>5, ProcStep DEF recVars
  <1>5. CASE DupPatch(p)
    <2>1. proc[p].cur \in SubIds
      BY <1>5, <1>0, Running DEF DupPatch, FrameOK, CurPcs
    <2>4. subs' \in [Endpoints -> Store]
      <3> DEFINE e == Ep(p)
                 i == proc[p].cur
                 s == [subs[e][i] EXCEPT !.ctx = e]
                 st == [subs[e] EXCEPT ![i] = s]
      <3>1. subs' = subs \/ (subs[e][i] # NoSub /\ subs' = [subs EXCEPT ![e] = st])
        BY <1>5 DEF DupPatch
      <3>2. subs[e] \in Store /\ e \in Endpoints
        BY <1>0, Running
      <3>3. ASSUME subs[e][i] # NoSub PROVE st \in Store
        <4>1. subs[e][i] \in EventSubscription
          BY <2>1, <3>2, <3>3 DEF Store
        <4>2. s \in EventSubscription
          BY <4>1, <3>2, ConstantsAssumption DEF EventSubscription
        <4> QED BY <3>2, <4>2 DEF Store
      <3> QED BY <1>1, <3>1, <3>2, <3>3
    <2>5. nfaults' \in 0 .. MaxFaults
      BY <1>5, FaultType DEF DupPatch
    <2>6. UNCHANGED <<scanVars, recVars, chanVars, used>>
      BY <1>5 DEF DupPatch
    <2> QED BY <1>1, <1>2, <2>4, <2>5, <2>6, ProcStep DEF recVars
  <1> QED BY <1>3, <1>4, <1>5 DEF DupStep

LEMMA WorkerTypes ==
  ASSUME TypeInv, NEW r \in Recs,
         \/ WorkerReturn(r) \/ GetEventTypes(r) \/ Post(r) \/ AppendGroup(r)
         \/ WorkerDone(r)
  PROVE  TypeInv'
  <1> USE DEF TypeInv
  <1>0. r \in Procs /\ proc[r].pc # "idle"
    BY DEF Procs, WorkerReturn, GetEventTypes, Post, AppendGroup, WorkerDone
  <1>1. status \in [Recs -> Status] /\ prefixGroups \in [Recs -> Seq(Group)]
        /\ subs \in [Endpoints -> Store]
        /\ used \in [Endpoints -> SUBSET SubIds]
        /\ nfaults \in 0 .. MaxFaults
    BY DEF TypeOK
  <1>2. /\ FrameOK(r, NextGroup(proc[r]))
        /\ FrameOK(r, Idle)
        /\ FrameOK(r, proc[r])
    BY <1>0, Running, FrameTypes, IdleOK DEF FrameOK, CurPcs
  <1>3. [prefixGroups EXCEPT ![r] = appendUniqueRegPrefix(proc[r].grp, @)]
          \in [Recs -> Seq(Group)]
    BY <1>0, <1>1, Running, AppendUniqueType
  <1>4. \A s \in Status : [status EXCEPT ![r] = s] \in [Recs -> Status]
    BY <1>1
  <1>5. CASE WorkerReturn(r)
    <2>1. /\ FrameOK(r, [proc[r] EXCEPT !.pc = "eventTypes", !.res = "none"])
          /\ FrameOK(r, [proc[r] EXCEPT !.pc = "append", !.res = "none"])
      BY <1>0, <1>2 DEF FrameOK, Frame, Pc, CurPcs, Result
    <2>2. \E g : FrameOK(r, g) /\ Goto(r, g)
      BY <1>5, <1>2, <2>1 DEF WorkerReturn
    <2>3. status' \in [Recs -> Status]
      BY <1>1, <1>4, <1>5 DEF WorkerReturn, Status
    <2>4. UNCHANGED <<scanVars, prefixGroups, chanVars, bmcVars, nfaults>>
      BY <1>5 DEF WorkerReturn
    <2> QED BY <1>0, <1>1, <2>2, <2>3, <2>4, ProcStep DEF bmcVars
  <1>6. CASE GetEventTypes(r)
    <2>1. FrameOK(r, [proc[r] EXCEPT !.pc = "post"])
      BY <1>0, <1>2 DEF FrameOK, Frame, Pc, CurPcs
    <2>2. \E g : FrameOK(r, g) /\ Goto(r, g)
      BY <1>6, <1>2, <2>1 DEF GetEventTypes
    <2>3. status' \in [Recs -> Status]
      BY <1>1, <1>4, <1>6 DEF GetEventTypes, Status
    <2>4. nfaults' \in 0 .. MaxFaults
      BY <1>6, FaultType DEF GetEventTypes
    <2>5. UNCHANGED <<scanVars, prefixGroups, chanVars, bmcVars>>
      BY <1>6 DEF GetEventTypes
    <2> QED BY <1>0, <1>1, <2>2, <2>3, <2>4, <2>5, ProcStep DEF bmcVars
  <1>7. CASE WorkerDone(r)
    <2>1. status' \in [Recs -> Status]
      BY <1>4, <1>7 DEF WorkerDone, Status
    <2>2. UNCHANGED <<scanVars, prefixGroups, chanVars, bmcVars, nfaults>>
      BY <1>7 DEF WorkerDone
    <2> QED BY <1>0, <1>1, <1>2, <1>7, <2>1, <2>2, ProcStep DEF bmcVars, WorkerDone
  <1>8. CASE Post(r)
    <2>1. subs' \in [Endpoints -> Store] /\ used' \in [Endpoints -> SUBSET SubIds]
      <3> DEFINE e == Ep(r)
                 g == proc[r].grp
      <3>1. e \in Endpoints /\ g \in Group /\ subs[e] \in Store
        BY <1>0, Running
      <3>2. FreeIds(e) \subseteq SubIds
        BY DEF FreeIds
      <3>3. ASSUME NEW b \in BOOLEAN, PostCreated(r, b)
            PROVE subs' \in [Endpoints -> Store]
                  /\ used' \in [Endpoints -> SUBSET SubIds]
        <4>1. PICK i \in SubIds : Create(e, i, NewSub(e, g, b))
          BY <3>3, <3>2 DEF PostCreated
        <4>2. NewSub(e, g, b) \in EventSubscription
          BY <3>1, NewSubType
        <4> QED BY <3>1, <4>1, <4>2, CreateType
      <3>4. ASSUME NEW i \in SubIds, NEW j \in SubIds \ {i}, NEW s,
                   s = NewSub(e, g, TRUE),
                   subs' = [subs EXCEPT ![e][i] = s, ![e][j] = s],
                   used' = [used EXCEPT ![e] = @ \cup {i, j}]
            PROVE subs' \in [Endpoints -> Store]
                  /\ used' \in [Endpoints -> SUBSET SubIds]
        <4> DEFINE st == [[subs[e] EXCEPT ![i] = s] EXCEPT ![j] = s]
        <4>1. s \in EventSubscription
          BY <3>1, <3>4, NewSubType
        <4>2. st \in Store
          BY <4>1, <3>1 DEF Store
        <4>3. subs' = [subs EXCEPT ![e] = st]
          BY <3>1, <3>4, <1>1
        <4> QED BY <1>1, <3>1, <3>4, <4>2, <4>3
      <3>5. \/ \E b \in BOOLEAN : PostCreated(r, b)
            \/ \E i \in SubIds : \E j \in SubIds \ {i} :
                 LET s == NewSub(e, g, TRUE) IN
                 /\ subs' = [subs EXCEPT ![e][i] = s, ![e][j] = s]
                 /\ used' = [used EXCEPT ![e] = @ \cup {i, j}]
            \/ UNCHANGED bmcVars
        BY <1>8, <3>2 DEF Post, PostRetried
      <3> QED BY <1>1, <3>3, <3>4, <3>5 DEF bmcVars
    <2>2. FrameOK(r, [proc[r] EXCEPT !.pc = "append"])
      BY <1>0, <1>2 DEF FrameOK, Frame, Pc, CurPcs
    <2>3. \E g : FrameOK(r, g) /\ Goto(r, g)
      BY <1>8, <1>2, <2>2 DEF Post
    <2>4. nfaults' \in 0 .. MaxFaults
      BY <1>8, FaultType DEF Post
    <2>5. UNCHANGED <<scanVars, recVars, chanVars>>
      BY <1>8 DEF Post
    <2> QED BY <1>0, <1>1, <2>1, <2>3, <2>4, <2>5, ProcStep DEF recVars
  <1>9. CASE AppendGroup(r)
    <2>1. prefixGroups' \in [Recs -> Seq(Group)]
      BY <1>3, <1>9 DEF AppendGroup
    <2>2. Goto(r, NextGroup(proc[r]))
          /\ UNCHANGED <<scanVars, status, chanVars, bmcVars, nfaults>>
      BY <1>9 DEF AppendGroup
    <2> QED BY <1>0, <1>1, <1>2, <2>1, <2>2, ProcStep DEF bmcVars
  <1> QED BY <1>5, <1>6, <1>7, <1>8, <1>9

LEMMA VerifierTypes ==
  ASSUME TypeInv, NEW v \in Verifiers,
         VerifyRange(v) \/ VerifierReturn(v) \/ VerifierDone(v)
  PROVE  TypeInv'
  <1> USE DEF TypeInv
  <1>0. v \in Procs /\ v \notin Recs /\ proc[v].pc # "idle"
    BY ConstantsAssumption DEF Procs, VerifyRange, VerifierReturn, VerifierDone
  <1>1. status \in [Recs -> Status] /\ prefixGroups \in [Recs -> Seq(Group)]
        /\ subs \in [Endpoints -> Store]
        /\ used \in [Endpoints -> SUBSET SubIds]
        /\ nfaults \in 0 .. MaxFaults
    BY DEF TypeOK
  <1>2. /\ FrameOK(v, NextGroup(proc[v]))
        /\ FrameOK(v, Idle)
        /\ FrameOK(v, proc[v])
        /\ proc[v].rec \in Recs
    BY <1>0, Running, FrameTypes, IdleOK DEF FrameOK, CurPcs
  <1>3. CASE VerifyRange(v)
    <2> DEFINE f == [proc[v] EXCEPT !.pc = "next",
                                    !.todo = prefixGroups[proc[v].rec]]
    <2>1. FrameOK(v, f)
      BY <1>0, <1>1, <1>2 DEF FrameOK, Frame, Pc, CurPcs
    <2>2. Goto(v, f) /\ UNCHANGED <<scanVars, recVars, chanVars, bmcVars, nfaults>>
      BY <1>3 DEF VerifyRange
    <2> HIDE DEF f
    <2> QED BY <1>0, <1>1, <2>1, <2>2, ProcStep DEF recVars, bmcVars
  <1>4. CASE VerifierReturn(v)
    <2>1. status' \in [Recs -> Status]
      BY <1>1, <1>4 DEF VerifierReturn, Status
    <2>2. Goto(v, NextGroup(proc[v]))
          /\ UNCHANGED <<scanVars, prefixGroups, chanVars, bmcVars, nfaults>>
      BY <1>4 DEF VerifierReturn
    <2> QED BY <1>0, <1>1, <1>2, <2>1, <2>2, ProcStep DEF bmcVars
  <1>5. CASE VerifierDone(v)
    <2>1. Goto(v, Idle) /\ UNCHANGED <<scanVars, recVars, chanVars, bmcVars, nfaults>>
      BY <1>5 DEF VerifierDone
    <2> QED BY <1>0, <1>1, <1>2, <2>1, ProcStep DEF recVars, bmcVars
  <1> QED BY <1>3, <1>4, <1>5

\* what remains of TypeInv' for a step that runs no goroutine
LEMMA NoProcStep ==
  ASSUME TypeInv, UNCHANGED proc
  PROVE  ProcOK' /\ proc' \in [Procs -> Frame]
  BY DEF TypeInv, TypeOK, ProcOK, FrameOK

LEMMA EnvironmentTypes ==
  ASSUME TypeInv, Environment
  PROVE  TypeInv'
  <1>1. PICK e \in Endpoints : HSMDiscover(e) \/ Replace(e) \/ ForeignSubscribe(e)
    BY DEF Environment
  <1>2. ProcOK' /\ proc' \in [Procs -> Frame]
    BY <1>1, NoProcStep DEF HSMDiscover, Replace, ForeignSubscribe
  <1>3. CASE HSMDiscover(e)
    BY <1>2, <1>3
       DEF TypeInv, TypeOK, HSMDiscover, recVars, chanVars, bmcVars
  <1>4. CASE Replace(e)
    <2>1. subs' \in [Endpoints -> Store] /\ used' \in [Endpoints -> SUBSET SubIds]
      BY <1>4, ConstantsAssumption DEF TypeInv, TypeOK, Replace, IdsOf
    <2>2. nfaults' \in 0 .. MaxFaults
      BY <1>4, FaultType DEF Replace
    <2> QED BY <1>2, <1>4, <2>1, <2>2
            DEF TypeInv, TypeOK, Replace, scanVars, recVars, chanVars
  <1>5. CASE ForeignSubscribe(e)
    <2>1. subs' \in [Endpoints -> Store] /\ used' \in [Endpoints -> SUBSET SubIds]
      BY <1>5, ConstantsAssumption, CreateType DEF ForeignSubscribe, FreeIds
    <2>2. nfaults' \in 0 .. MaxFaults
      BY <1>5, FaultType DEF ForeignSubscribe
    <2> QED BY <1>2, <1>5, <2>1, <2>2
            DEF TypeInv, TypeOK, ForeignSubscribe, scanVars, recVars, chanVars
  <1> QED BY <1>1, <1>3, <1>4, <1>5

LEMMA MainLoopTypes ==
  ASSUME TypeInv, MainLoop
  PROVE  TypeInv'
  <1>1. ProcOK' /\ proc' \in [Procs -> Frame]
    BY NoProcStep DEF MainLoop, Scan, ScanStart, ScanSkip, ScanQueue, ScanVerify
  <1>2. CASE ScanStart
    <2>1. subCheckCnt' \in 0 .. SubCheckFreq - 1
      BY <1>2, ConstantsAssumption DEF TypeInv, TypeOK, ScanStart
    <2> QED BY <1>1, <1>2, <2>1
            DEF TypeInv, TypeOK, ScanStart, recVars, chanVars, bmcVars
  <1>3. ASSUME NEW e \in Endpoints, ScanSkip(e) PROVE TypeInv'
    BY <1>1, <1>3 DEF TypeInv, TypeOK, ScanSkip, recVars, chanVars, bmcVars
  <1>4. ASSUME NEW e \in Endpoints, ScanQueue(e) PROVE TypeInv'
    <2>1. PICK r \in Recs :
            /\ endpoints' = [endpoints EXCEPT ![e] = r]
            /\ status' = [status EXCEPT ![r] = "PENDING"]
            /\ prefixGroups' = [prefixGroups EXCEPT ![r] = <<>>]
            /\ pending' = Append(pending, r)
      BY <1>4 DEF ScanQueue, FreeRecs
    <2>2. endpoints' \in [Endpoints -> Recs \cup {NoRec}]
          /\ status' \in [Recs -> Status]
          /\ prefixGroups' \in [Recs -> Seq(Group)]
      BY <2>1 DEF TypeInv, TypeOK, Status
    <2>3. pending' \in Seq(Recs) /\ Len(pending') <= ChanCap
      BY <1>4, <2>1, ConstantsAssumption DEF TypeInv, TypeOK, ScanQueue
    <2> QED BY <1>1, <1>4, <2>2, <2>3 DEF TypeInv, TypeOK, ScanQueue, bmcVars
  <1>5. ASSUME NEW e \in Endpoints, ScanVerify(e) PROVE TypeInv'
    <2>1. endpoints[e] \in Recs
      BY <1>5 DEF TypeInv, TypeOK, ScanVerify, NeedsSubscribing
    <2>2. verify' \in Seq(Recs) /\ Len(verify') <= ChanCap
      BY <1>5, <2>1, ConstantsAssumption DEF TypeInv, TypeOK, ScanVerify
    <2> QED BY <1>1, <1>5, <2>2 DEF TypeInv, TypeOK, ScanVerify, recVars, bmcVars
  <1> QED BY <1>2, <1>3, <1>4, <1>5 DEF MainLoop, Scan

LEMMA DispatchTypes ==
  ASSUME TypeInv, SubRecv \/ VerifyDispatch
  PROVE  TypeInv'
  <1>1. CASE SubRecv
    <2> DEFINE r == Head(pending)
               f == [Idle EXCEPT !.rec = r, !.todo = registryPrefixGroups,
                       !.pc = IF pruneOldSubscriptions THEN "pruneList" ELSE "next"]
    <2>1. r \in Recs /\ r \in Procs /\ Tail(pending) \in Seq(Recs)
          /\ Len(Tail(pending)) <= ChanCap
      BY <1>1, ConstantsAssumption DEF TypeInv, TypeOK, SubRecv, Procs
    <2>2. FrameOK(r, f)
      BY <2>1, PrefixGroupsType
         DEF Idle, FrameOK, Frame, Pc, CurPcs, Group, Result
    <2>3. Goto(r, f)
      BY <1>1 DEF SubRecv
    <2> HIDE DEF f
    <2>4. ProcOK' /\ proc' \in [Procs -> Frame]
      BY <2>1, <2>2, <2>3, GotoOK
    <2> QED BY <1>1, <2>1, <2>4
            DEF TypeInv, TypeOK, SubRecv, scanVars, recVars, bmcVars
  <1>2. CASE VerifySkip
    <2>1. ProcOK' /\ proc' \in [Procs -> Frame]
      BY <1>2, NoProcStep DEF VerifySkip
    <2>2. Tail(verify) \in Seq(Recs) /\ Len(Tail(verify)) <= ChanCap
      BY <1>2, ConstantsAssumption DEF TypeInv, TypeOK, VerifySkip
    <2> QED BY <1>2, <2>1, <2>2
            DEF TypeInv, TypeOK, VerifySkip, scanVars, recVars, bmcVars
  <1>3. CASE VerifyRecv
    <2>1. Head(verify) \in Recs /\ Tail(verify) \in Seq(Recs)
          /\ Len(Tail(verify)) <= ChanCap
      BY <1>3, ConstantsAssumption DEF TypeInv, TypeOK, VerifyRecv
    <2> DEFINE f == [Idle EXCEPT !.rec = Head(verify), !.pc = "range"]
    <2>2. PICK v \in Verifiers : Goto(v, f)
      BY <1>3 DEF VerifyRecv
    <2>3. v \in Procs /\ v \notin Recs
      BY ConstantsAssumption DEF Procs
    <2>4. FrameOK(v, f)
      BY <2>1, <2>3, IdleOK DEF FrameOK, Frame, Pc, CurPcs
    <2> HIDE DEF f
    <2>5. ProcOK' /\ proc' \in [Procs -> Frame]
      BY <2>2, <2>3, <2>4, GotoOK
    <2> QED BY <1>3, <2>1, <2>5
            DEF TypeInv, TypeOK, VerifyRecv, scanVars, recVars, bmcVars
  <1> QED BY <1>1, <1>2, <1>3 DEF VerifyDispatch

LEMMA InitTypes == Init => TypeInv
  <1> SUFFICES ASSUME Init PROVE TypeInv
    OBVIOUS
  <1>1. TypeOK
    <2>1. subs \in [Endpoints -> Store]
      BY ConstantsAssumption DEF Init
    <2>2. used \in [Endpoints -> SUBSET SubIds]
      BY DEF Init, IdsOf
    <2>3. proc \in [Procs -> Frame]
      BY IdleOK DEF Init
    <2>4. subCheckCnt \in 0 .. SubCheckFreq - 1 /\ nfaults \in 0 .. MaxFaults
      BY ConstantsAssumption DEF Init
    <2>5. Len(pending) <= ChanCap /\ Len(verify) <= ChanCap
          /\ pending \in Seq(Recs) /\ verify \in Seq(Recs)
      BY ConstantsAssumption DEF Init
    <2> QED BY <2>1, <2>2, <2>3, <2>4, <2>5 DEF Init, TypeOK, Status
  <1>2. ProcOK
    BY IdleOK DEF Init, ProcOK, FrameOK, CurPcs
  <1> QED BY <1>1, <1>2 DEF TypeInv

LEMMA NextTypes == TypeInv /\ [Next]_vars => TypeInv'
  <1> SUFFICES ASSUME TypeInv, [Next]_vars PROVE TypeInv'
    OBVIOUS
  <1>1. CASE UNCHANGED vars
    BY <1>1, NoProcStep
       DEF vars, scanVars, recVars, chanVars, bmcVars, TypeInv, TypeOK
  <1>2. ASSUME NEW r \in Recs, Worker(r) PROVE TypeInv'
    BY <1>2, PruneTypes, DupTypes, WorkerTypes DEF Worker, Procs
  <1>3. ASSUME NEW v \in Verifiers, Verifier(v) PROVE TypeInv'
    BY <1>3, DupTypes, VerifierTypes DEF Verifier, Procs
  <1> QED BY <1>1, <1>2, <1>3, EnvironmentTypes, MainLoopTypes, DispatchTypes
          DEF Next

\* Type correctness of every reachable state, the channels' capacities
\* (doRFSubscribe's make(chan, 1000)) included.
THEOREM TypeCorrect == Spec => []TypeOK
  <1>1. Spec => []TypeInv
    BY InitTypes, NextTypes, PTL DEF Spec
  <1>2. TypeInv => TypeOK
    BY DEF TypeInv
  <1> QED BY <1>1, <1>2, PTL

(***************************************************************************)
(* The status cells.                                                       *)
(***************************************************************************)
LEMMA StillRunning ==
  ASSUME TypeInv, NEW p \in Procs,
         \/ PruneList(p) \/ PruneGet(p) \/ PruneDelete(p) \/ DupStep(p)
         \/ WorkerReturn(p) \/ GetEventTypes(p) \/ Post(p) \/ AppendGroup(p)
         \/ VerifyRange(p) \/ VerifierReturn(p)
  PROVE  /\ proc[p].pc # "idle" /\ proc'[p].pc # "idle"
         /\ \A q \in Procs \ {p} : proc'[q] = proc[q]
  <1>1. proc \in [Procs -> Frame]
    BY DEF TypeInv, TypeOK
  <1>2. proc[p].pc # "idle"
    BY DupGoto DEF PruneList, PruneGet, PruneDelete, WorkerReturn,
       GetEventTypes, Post, AppendGroup, VerifyRange, VerifierReturn
  <1>3. FrameOK(p, proc[p]) /\ proc[p] \in Frame
    BY <1>1, <1>2, Running
  <1> SUFFICES \E g : g.pc # "idle" /\ Goto(p, g)
    BY <1>1, <1>2 DEF Goto
  <1>4. CASE PruneList(p) \/ PruneDelete(p)
    BY <1>2, <1>3, <1>4, Running, FrameTypes DEF PruneList, PruneDelete
  <1>5. CASE PruneGet(p)
    <2>1. PICK i \in proc[p].members :
            \/ Goto(p, [proc[p] EXCEPT !.pc = "pruneDelete", !.cur = i])
            \/ Goto(p, PruneOn(proc[p], proc[p].members \ {i}))
      BY <1>5 DEF PruneGet
    <2>2. [proc[p] EXCEPT !.pc = "pruneDelete", !.cur = i].pc # "idle"
      BY <1>3 DEF Frame
    <2> QED BY <1>2, <1>3, <2>1, <2>2, Running, FrameTypes
  <1>6. CASE DupStep(p)
    BY <1>6, DupGoto
  <1>7. CASE WorkerReturn(p)
    <2>1. /\ [proc[p] EXCEPT !.pc = "eventTypes", !.res = "none"].pc # "idle"
          /\ [proc[p] EXCEPT !.pc = "append", !.res = "none"].pc # "idle"
      BY <1>3 DEF Frame
    <2> QED BY <1>2, <1>3, <1>7, <2>1, FrameTypes DEF WorkerReturn
  <1>8. CASE GetEventTypes(p)
    <2>1. [proc[p] EXCEPT !.pc = "post"].pc # "idle"
      BY <1>3 DEF Frame
    <2> QED BY <1>2, <1>3, <1>8, <2>1, FrameTypes DEF GetEventTypes
  <1>9. CASE Post(p) \/ AppendGroup(p) \/ VerifierReturn(p)
    <2>1. [proc[p] EXCEPT !.pc = "append"].pc # "idle"
      BY <1>3 DEF Frame
    <2> QED BY <1>2, <1>3, <1>9, <2>1, FrameTypes
            DEF Post, AppendGroup, VerifierReturn
  <1>10. CASE VerifyRange(p)
    <2>1. [proc[p] EXCEPT !.pc = "next", !.todo = prefixGroups[proc[p].rec]].pc
            # "idle"
      BY <1>3 DEF Frame
    <2> QED BY <1>10, <2>1 DEF VerifyRange
  <1> QED BY <1>4, <1>5, <1>6, <1>7, <1>8, <1>9, <1>10

\* what an action does to the loop's map, the channel and the status cells
LEMMA WorkerEffect ==
  ASSUME TypeInv, NEW r \in Recs, Worker(r)
  PROVE  /\ endpoints' = endpoints /\ pending' = pending /\ verify' = verify
         /\ proc[r].pc # "idle"
         /\ \A q \in Procs \ {r} : proc'[q] = proc[q]
         /\ \A q \in Recs \ {r} : status'[q] = status[q]
         /\ status'[r] \in {status[r], "ERROR", "COMPLETE"}
         /\ proc'[r].pc = "idle" => status'[r] = "COMPLETE"
  <1>0. r \in Procs
    BY DEF Procs
  <1>1. proc \in [Procs -> Frame] /\ status \in [Recs -> Status]
    BY DEF TypeInv, TypeOK
  <1>2. CASE WorkerDone(r)
    BY <1>0, <1>1, <1>2, IdleOK DEF WorkerDone, Goto, scanVars, chanVars
  <1>3. CASE ~WorkerDone(r)
    <2>1. /\ proc[r].pc # "idle" /\ proc'[r].pc # "idle"
          /\ \A q \in Procs \ {r} : proc'[q] = proc[q]
      BY <1>0, <1>3, StillRunning DEF Worker
    <2>2. endpoints' = endpoints /\ pending' = pending /\ verify' = verify
      BY <1>3 DEF Worker, PruneList, PruneGet, PruneDelete, DupStep, DupList,
         DupGet, DupPrune, DupPatch, FixDelete, WorkerReturn, GetEventTypes,
         Post, AppendGroup, scanVars, chanVars
    <2>3. CASE WorkerReturn(r) \/ GetEventTypes(r)
      BY <1>1, <2>1, <2>2, <2>3 DEF WorkerReturn, GetEventTypes
    <2>4. CASE ~(WorkerReturn(r) \/ GetEventTypes(r))
      <3>1. status' = status
        BY <1>3, <2>4 DEF Worker, PruneList, PruneGet, PruneDelete, DupStep,
           DupList, DupGet, DupPrune, DupPatch, FixDelete, Post, AppendGroup,
           recVars
      <3> QED BY <2>1, <2>2, <3>1
    <2> QED BY <2>3, <2>4
  <1> QED BY <1>2, <1>3

LEMMA VerifierEffect ==
  ASSUME TypeInv, NEW v \in Verifiers, Verifier(v)
  PROVE  /\ endpoints' = endpoints /\ pending' = pending /\ verify' = verify
         /\ \A q \in Procs \ {v} : proc'[q] = proc[q]
         /\ \A q \in Recs : status'[q] \in {status[q], "ERROR"}
  <1>0. v \in Procs
    BY DEF Procs
  <1>1. proc \in [Procs -> Frame] /\ status \in [Recs -> Status]
    BY DEF TypeInv, TypeOK
  <1>2. \A q \in Procs \ {v} : proc'[q] = proc[q]
    BY <1>0, <1>1, StillRunning DEF Verifier, VerifierDone, Goto
  <1>3. endpoints' = endpoints /\ pending' = pending /\ verify' = verify
    BY DEF Verifier, VerifyRange, VerifierReturn, VerifierDone, DupStep,
       DupList, DupGet, DupPrune, DupPatch, FixDelete, scanVars, chanVars
  <1>4. CASE VerifierReturn(v)
    BY <1>1, <1>2, <1>3, <1>4 DEF VerifierReturn
  <1>5. CASE ~VerifierReturn(v)
    <2>1. status' = status
      BY <1>5 DEF Verifier, VerifyRange, VerifierDone, DupStep, DupList,
         DupGet, DupPrune, DupPatch, FixDelete, recVars
    <2> QED BY <1>2, <1>3, <2>1
  <1> QED BY <1>4, <1>5

LEMMA ElemsAppend ==
  ASSUME NEW S, NEW s \in Seq(S), NEW x \in S
  PROVE  x \in Elems(Append(s, x)) /\ Elems(s) \subseteq Elems(Append(s, x))
  <1>1. /\ DOMAIN s = 1 .. Len(s) /\ Len(s) \in Nat
        /\ DOMAIN Append(s, x) = 1 .. Len(s) + 1
        /\ Append(s, x)[Len(s) + 1] = x
        /\ \A k \in 1 .. Len(s) : Append(s, x)[k] = s[k]
    OBVIOUS
  <1>2. Len(s) + 1 \in DOMAIN Append(s, x)
    BY <1>1
  <1>3. \A k \in 1 .. Len(s) : k \in DOMAIN Append(s, x)
    BY <1>1
  <1> QED BY <1>1, <1>2, <1>3 DEF Elems

LEMMA ElemsTail ==
  ASSUME NEW S, NEW s \in Seq(S), s # <<>>
  PROVE  Elems(s) \subseteq {Head(s)} \cup Elems(Tail(s))
  <1> SUFFICES ASSUME NEW k \in 1 .. Len(s), k # 1
               PROVE  s[k] \in Elems(Tail(s))
    BY DEF Elems
  <1>1. k - 1 \in DOMAIN Tail(s) /\ Tail(s)[k - 1] = s[k]
    OBVIOUS
  <1> QED BY <1>1 DEF Elems

LEMMA PendingStep ==
  TypeInv /\ PendingHasWorker /\ [Next]_vars => PendingHasWorker'
  <1> SUFFICES ASSUME TypeInv, PendingHasWorker, [Next]_vars,
                      NEW r \in Recs, Current(r)', status'[r] = "PENDING"
               PROVE  r \in Elems(pending') \/ proc'[r].pc # "idle"
    BY DEF PendingHasWorker
  <1> USE DEF Current
  <1>0. /\ r \in Procs /\ EpOf[r] \in Endpoints
        /\ proc \in [Procs -> Frame] /\ status \in [Recs -> Status]
        /\ endpoints \in [Endpoints -> Recs \cup {NoRec}]
        /\ pending \in Seq(Recs)
    BY ConstantsAssumption DEF TypeInv, TypeOK, Procs
  <1>1. ASSUME endpoints' = endpoints, status'[r] = status[r]
        PROVE  r \in Elems(pending) \/ proc[r].pc # "idle"
    BY <1>1 DEF PendingHasWorker
  <1>2. CASE UNCHANGED vars
    BY <1>1, <1>2 DEF vars, scanVars, recVars, chanVars
  <1>3. CASE Environment
    BY <1>1, <1>3 DEF Environment, HSMDiscover, Replace, ForeignSubscribe,
       scanVars, recVars, chanVars
  <1>4. CASE ScanStart \/ \E e \in Endpoints : ScanSkip(e) \/ ScanVerify(e)
    BY <1>1, <1>4 DEF ScanStart, ScanSkip, ScanVerify, recVars, chanVars
  <1>5. ASSUME NEW e \in Endpoints, ScanQueue(e)
        PROVE  r \in Elems(pending') \/ proc'[r].pc # "idle"
    <2>1. PICK n \in FreeRecs(e) :
            /\ endpoints' = [endpoints EXCEPT ![e] = n]
            /\ status' = [status EXCEPT ![n] = "PENDING"]
            /\ pending' = Append(pending, n)
      BY <1>5 DEF ScanQueue
    <2>2. n \in Recs /\ EpOf[n] = e /\ proc' = proc
      BY <1>5 DEF FreeRecs, ScanQueue
    <2>3. n \in Elems(pending') /\ Elems(pending) \subseteq Elems(pending')
      BY <1>0, <2>1, <2>2, ElemsAppend
    <2>4. CASE r # n
      <3>1. endpoints[EpOf[r]] = r /\ status[r] = "PENDING"
        BY <1>0, <2>1, <2>2, <2>4
      <3> QED BY <2>2, <2>3, <3>1 DEF PendingHasWorker
    <2> QED BY <2>3, <2>4
  <1>6. CASE SubRecv
    <2> DEFINE f == [Idle EXCEPT !.rec = Head(pending),
                       !.todo = registryPrefixGroups,
                       !.pc = IF pruneOldSubscriptions THEN "pruneList" ELSE "next"]
    <2>1. f.pc # "idle"
      BY DEF Idle
    <2>2. /\ pending # <<>> /\ pending' = Tail(pending)
          /\ proc' = [proc EXCEPT ![Head(pending)] = f]
          /\ endpoints' = endpoints /\ status' = status
      BY <1>6 DEF SubRecv, Goto, scanVars, recVars
    <2> HIDE DEF f
    <2>3. Elems(pending) \subseteq {Head(pending)} \cup Elems(pending')
      BY <1>0, <2>2, ElemsTail
    <2>4. r \in Elems(pending) \/ proc[r].pc # "idle"
      BY <1>1, <2>2
    <2>5. CASE r = Head(pending)
      BY <1>0, <2>1, <2>2, <2>5
    <2>6. CASE r # Head(pending)
      BY <1>0, <2>2, <2>3, <2>4, <2>6
    <2> QED BY <2>5, <2>6
  <1>7. CASE VerifyDispatch
    <2>1. /\ endpoints' = endpoints /\ status' = status /\ pending' = pending
      BY <1>7 DEF VerifyDispatch, VerifySkip, VerifyRecv, scanVars, recVars
    <2>2. proc'[r] = proc[r]
      BY <1>0, <1>7, ConstantsAssumption
         DEF VerifyDispatch, VerifySkip, VerifyRecv, Goto
    <2> QED BY <1>1, <2>1, <2>2
  <1>8. ASSUME NEW q \in Recs, Worker(q)
        PROVE  r \in Elems(pending') \/ proc'[r].pc # "idle"
    BY <1>0, <1>1, <1>8, WorkerEffect
  <1>9. ASSUME NEW v \in Verifiers, Verifier(v)
        PROVE  r \in Elems(pending') \/ proc'[r].pc # "idle"
    <2>1. r # v
      BY ConstantsAssumption
    <2> QED BY <1>0, <1>1, <1>9, <2>1, VerifierEffect
  <1> QED BY <1>2, <1>3, <1>4, <1>5, <1>6, <1>7, <1>8, <1>9
          DEF Next, MainLoop, Scan

\* No endpoint is ever left in PENDING: its record is in the channel or its
\* rfSubscribe goroutine runs, for any number of endpoints and any capacity
\* of the channels.
THEOREM PendingServed == Spec => []PendingHasWorker
  <1>1. Init => PendingHasWorker
    BY DEF Init, PendingHasWorker
  <1>2. Spec => []TypeInv
    BY InitTypes, NextTypes, PTL DEF Spec
  <1> QED BY <1>1, <1>2, PendingStep, PTL DEF Spec

\* The ERROR a verifier writes after the worker has finished is not lost
\* before doRFSubscribe sees it.
THEOREM ErrorKept == Spec => VerifyErrorKept
  <1> DEFINE Kept ==
        \A r \in Recs :
          Current(r) /\ status[r] = "ERROR" /\ proc[r].pc = "idle"
            => status'[r] = "ERROR"
  <1>1. TypeInv /\ [Next]_vars => [Kept]_vars
    <2> SUFFICES ASSUME TypeInv, Next, NEW r \in Recs, Current(r),
                        status[r] = "ERROR", proc[r].pc = "idle"
                 PROVE  status'[r] = "ERROR"
      OBVIOUS
    <2>0. /\ EpOf[r] \in Endpoints /\ status \in [Recs -> Status]
          /\ endpoints[EpOf[r]] = r
      BY ConstantsAssumption DEF TypeInv, TypeOK, Current
    <2>1. CASE Environment \/ ScanStart \/ SubRecv \/ VerifyDispatch
      BY <2>1 DEF Environment, HSMDiscover, Replace, ForeignSubscribe,
         ScanStart, SubRecv, VerifyDispatch, VerifySkip, VerifyRecv, recVars
    <2>2. ASSUME NEW e \in Endpoints, ScanSkip(e) \/ ScanVerify(e)
          PROVE  status'[r] = "ERROR"
      BY <2>2 DEF ScanSkip, ScanVerify, recVars
    <2>3. ASSUME NEW e \in Endpoints, ScanQueue(e)
          PROVE  status'[r] = "ERROR"
      <3>1. PICK n \in FreeRecs(e) : status' = [status EXCEPT ![n] = "PENDING"]
        BY <2>3 DEF ScanQueue
      <3>2. n # r
        BY <2>0 DEF FreeRecs
      <3> QED BY <2>0, <3>1, <3>2
    <2>4. ASSUME NEW q \in Recs, Worker(q)
          PROVE  status'[r] = "ERROR"
      BY <2>4, WorkerEffect
    <2>5. ASSUME NEW v \in Verifiers, Verifier(v)
          PROVE  status'[r] = "ERROR"
      BY <2>5, VerifierEffect
    <2> QED BY <2>1, <2>2, <2>3, <2>4, <2>5 DEF Next, MainLoop, Scan
  <1>2. Spec => []TypeInv
    BY InitTypes, NextTypes, PTL DEF Spec
  <1> QED BY <1>1, <1>2, PTL DEF Spec, VerifyErrorKept

(***************************************************************************)
(* Subscriptions of other services.  ids are not given out twice here: a   *)
(* collector that deletes by id cannot be right otherwise (see             *)
(* DeletesOnlyWrongXname).                                                 *)
(***************************************************************************)
\* the destination is one the collector gives to this endpoint
OwnAddress(e, sub) == sub.x = e /\ sub.base \in {"http", "https"}

\* the subscription a goroutine is about to patch or to delete is gone, or
\* still bears the mark of the collector it was chosen for; a stale one that
\* another goroutine has patched meanwhile has the collector's address
CurOurs(p) ==
  LET e == Ep(p)
      sub == subs[e][proc[p].cur]
  IN  /\ proc[p].pc \in CurPcs => proc[p].cur \in used[e]
      /\ proc[p].pc \in {"patch", "fixDelete"} =>
           sub = NoSub \/ OwnAddress(e, sub)
      /\ proc[p].pc \in {"pruneDelete", "dupPrune"} =>
           \/ sub = NoSub \/ OwnAddress(e, sub)
           \/ isSubscriptionForWrongXname(e, sub)

OursInv ==
  /\ \A e \in Endpoints, i \in SubIds : subs[e][i] # NoSub => i \in used[e]
  /\ \A p \in Procs : CurOurs(p)

\* how a step may change a store: ids that were used stay used, and under
\* such an id there is what was there before, perhaps with the endpoint's
\* own ID as its context, or nothing
StoreStep(e) ==
  /\ used[e] \subseteq used'[e]
  /\ \A i \in SubIds : subs'[e][i] # NoSub => i \in used'[e]
  /\ \A i \in used[e] :
       \/ subs'[e][i] = subs[e][i]
       \/ subs'[e][i] = NoSub
       \/ /\ subs[e][i] # NoSub /\ OwnAddress(e, subs[e][i])
          /\ subs'[e][i] = [subs[e][i] EXCEPT !.ctx = e]

\* a collector's step changes only what the goroutine has chosen
OwnStep(p) ==
  /\ \A e \in Endpoints, i \in SubIds :
       subs[e][i] # NoSub /\ subs'[e][i] # subs[e][i]
         => e = Ep(p) /\ i = proc[p].cur /\ proc[p].pc \in CurPcs

LEMMA PatchedSub ==
  ASSUME NEW s \in EventSubscription, NEW e
  PROVE  /\ [s EXCEPT !.ctx = e] # NoSub
         /\ [s EXCEPT !.ctx = e].x = s.x
         /\ [s EXCEPT !.ctx = e].base = s.base
         /\ [s EXCEPT !.ctx = e].ctx = e
  BY DEF EventSubscription, NoSub

LEMMA CurOursKept ==
  ASSUME TypeInv, OursInv, NEW p \in Procs, proc'[p] = proc[p],
         \A e \in Endpoints : StoreStep(e)
  PROVE  CurOurs(p)'
  <1> DEFINE e == Ep(p)
             i == proc[p].cur
  <1> SUFFICES ASSUME proc[p].pc \in CurPcs PROVE CurOurs(p)'
    BY DEF CurOurs, CurPcs
  <1>1. e \in Endpoints /\ subs[e] \in Store
    BY Running DEF CurPcs
  <1>2. i \in SubIds
    BY DEF TypeInv, ProcOK, FrameOK
  <1>3. CurOurs(p) /\ i \in used[e]
    BY DEF OursInv, CurOurs
  <1>4. Ep(p)' = e /\ proc'[p].cur = i
    BY DEF Ep
  <1>5. i \in used'[e]
    BY <1>1, <1>3 DEF StoreStep
  <1>6. \/ subs'[e][i] = subs[e][i]
        \/ subs'[e][i] = NoSub
        \/ OwnAddress(e, subs'[e][i])
    <2>1. subs[e][i] \in EventSubscription \cup {NoSub}
      BY <1>1, <1>2 DEF Store
    <2>2. \/ subs'[e][i] = subs[e][i]
          \/ subs'[e][i] = NoSub
          \/ /\ subs[e][i] # NoSub /\ OwnAddress(e, subs[e][i])
             /\ subs'[e][i] = [subs[e][i] EXCEPT !.ctx = e]
      BY <1>1, <1>3 DEF StoreStep
    <2>3. CASE /\ subs[e][i] # NoSub /\ OwnAddress(e, subs[e][i])
               /\ subs'[e][i] = [subs[e][i] EXCEPT !.ctx = e]
      <3>1. subs[e][i] \in EventSubscription
        BY <2>1, <2>3
      <3>2. /\ [subs[e][i] EXCEPT !.ctx = e].x = subs[e][i].x
            /\ [subs[e][i] EXCEPT !.ctx = e].base = subs[e][i].base
        BY <3>1, PatchedSub
      <3> QED BY <2>3, <3>2 DEF OwnAddress
    <2> QED BY <2>2, <2>3
  <1> QED BY <1>3, <1>4, <1>5, <1>6 DEF CurOurs, CurPcs

LEMMA StoreTypes ==
  ASSUME TypeInv
  PROVE  /\ subs \in [Endpoints -> [SubIds -> EventSubscription \cup {NoSub}]]
         /\ used \in [Endpoints -> SUBSET SubIds]
  BY DEF TypeInv, TypeOK, Store

LEMMA UnchangedStep ==
  ASSUME OursInv, UNCHANGED bmcVars
  PROVE  /\ \A e \in Endpoints : StoreStep(e)
         /\ \A p : OwnStep(p)
  BY DEF OursInv, bmcVars, StoreStep, OwnStep

LEMMA DeleteStep ==
  ASSUME TypeInv, OursInv, NEW e \in Endpoints, NEW i \in SubIds, Delete(e, i)
  PROVE  /\ \A x \in Endpoints : StoreStep(x)
         /\ \A x \in Endpoints, k \in SubIds :
              subs'[x][k] # subs[x][k] => x = e /\ k = i
  <1> DEFINE st == [subs[e] EXCEPT ![i] = NoSub]
  <1>1. subs' = [subs EXCEPT ![e] = st] /\ used' = used
    BY DEF Delete
  <1>2. \A x \in Endpoints, k \in SubIds :
          subs'[x][k] = IF x = e /\ k = i THEN NoSub ELSE subs[x][k]
    BY <1>1, StoreTypes
  <1>3. \A x \in Endpoints : used[x] \subseteq SubIds
    BY StoreTypes
  <1> QED BY <1>1, <1>2, <1>3 DEF OursInv, StoreStep

\* nothing new but under the ids ns, which were never used
Fresh(e, ns) ==
  /\ ns \in SUBSET SubIds
  /\ ns \cap used[e] = {}
  /\ used' = [used EXCEPT ![e] = @ \cup ns]
  /\ \A x \in Endpoints, k \in SubIds :
       ~(x = e /\ k \in ns) => subs'[x][k] \in {subs[x][k], NoSub}

LEMMA CreateStep ==
  ASSUME TypeInv, OursInv, NEW e \in Endpoints, NEW ns, Fresh(e, ns)
  PROVE  \A x \in Endpoints : StoreStep(x)
  <1>1. \A x \in Endpoints : used[x] \subseteq SubIds
    BY StoreTypes
  <1>2. \A x \in Endpoints : used'[x] = IF x = e THEN used[x] \cup ns ELSE used[x]
    BY StoreTypes DEF Fresh
  <1>3. SUFFICES ASSUME NEW x \in Endpoints PROVE StoreStep(x)
    OBVIOUS
  <1>4. used[x] \subseteq used'[x]
    BY <1>2
  <1>5. \A k \in SubIds : subs'[x][k] # NoSub => k \in used'[x]
    BY <1>2 DEF OursInv, Fresh
  <1>6. \A k \in used[x] : subs'[x][k] \in {subs[x][k], NoSub}
    BY <1>1 DEF Fresh
  <1> QED BY <1>4, <1>5, <1>6 DEF StoreStep

LEMMA PatchStep ==
  ASSUME TypeInv, OursInv, NEW p \in Procs, DupPatch(p)
  PROVE  (\A x \in Endpoints : StoreStep(x)) /\ OwnStep(p)
  <1> DEFINE e == Ep(p)
             i == proc[p].cur
             s == [subs[e][i] EXCEPT !.ctx = e]
             st == [subs[e] EXCEPT ![i] = s]
  <1>0. proc[p].pc = "patch"
    BY DEF DupPatch
  <1>1. e \in Endpoints /\ i \in SubIds
    BY <1>0, Running DEF FrameOK, CurPcs
  <1>2. CASE subs' = subs
    <2>1. UNCHANGED bmcVars
      BY <1>2 DEF DupPatch, bmcVars
    <2> QED BY <2>1, UnchangedStep
  <1>3. CASE subs[e][i] # NoSub /\ subs' = [subs EXCEPT ![e] = st]
    <2>1. used' = used
      BY DEF DupPatch
    <2>2. \A x \in Endpoints, k \in SubIds :
            subs'[x][k] = IF x = e /\ k = i THEN s ELSE subs[x][k]
      BY <1>1, <1>3, StoreTypes
    <2>3. \A x \in Endpoints : used[x] \subseteq SubIds
      BY StoreTypes
    <2>4. OwnAddress(e, subs[e][i])
      BY <1>0, <1>3 DEF OursInv, CurOurs
    <2>6. \A x \in Endpoints : StoreStep(x)
      BY <1>3, <2>1, <2>2, <2>3, <2>4 DEF OursInv, StoreStep
    <2>5. OwnStep(p)
      BY <1>0, <2>2 DEF OwnStep, CurPcs
    <2> QED BY <2>5, <2>6
  <1>4. subs' = subs \/ (subs[e][i] # NoSub /\ subs' = [subs EXCEPT ![e] = st])
    BY DEF DupPatch
  <1> QED BY <1>2, <1>3, <1>4

LEMMA PostStep ==
  ASSUME ~ReuseIds, TypeInv, OursInv, NEW r \in Recs, Post(r)
  PROVE  (\A x \in Endpoints : StoreStep(x)) /\ OwnStep(r)
  <1> DEFINE e == Ep(r)
             s == NewSub(e, proc[r].grp, TRUE)
  <1>1. e \in Endpoints
    BY Running DEF Post, Procs
  <1>2. FreeIds(e) \subseteq SubIds /\ FreeIds(e) \cap used[e] = {}
        /\ \A k \in FreeIds(e) : subs[e][k] = NoSub
    BY DEF FreeIds
  <1>3. CASE UNCHANGED bmcVars
    BY <1>3, UnchangedStep
  <1>4. ASSUME NEW ns \in SUBSET FreeIds(e),
               used' = [used EXCEPT ![e] = @ \cup ns],
               \A x \in Endpoints, k \in SubIds :
                 ~(x = e /\ k \in ns) => subs'[x][k] = subs[x][k]
        PROVE  (\A x \in Endpoints : StoreStep(x)) /\ OwnStep(r)
    <2>1. \A x \in Endpoints : StoreStep(x)
      <3>1. Fresh(e, ns)
        BY <1>2, <1>4 DEF Fresh
      <3> QED BY <1>1, <3>1, CreateStep
    <2>2. OwnStep(r)
      BY <1>2, <1>4 DEF OwnStep
    <2> QED BY <2>1, <2>2
  <1>5. ASSUME NEW b \in BOOLEAN, PostCreated(r, b)
        PROVE  (\A x \in Endpoints : StoreStep(x)) /\ OwnStep(r)
    <2> DEFINE n == NewSub(e, proc[r].grp, b)
    <2>1. PICK i \in FreeIds(e) : Create(e, i, n)
      BY <1>5 DEF PostCreated
    <2> DEFINE st == [subs[e] EXCEPT ![i] = n]
    <2>2. subs' = [subs EXCEPT ![e] = st] /\ used' = [used EXCEPT ![e] = @ \cup {i}]
      BY <2>1 DEF Create
    <2>3. \A x \in Endpoints, k \in SubIds :
            ~(x = e /\ k \in {i}) => subs'[x][k] = subs[x][k]
      BY <1>1, <2>2, StoreTypes
    <2> QED BY <2>2, <2>3, <1>4
  <1>6. ASSUME NEW i \in FreeIds(e), NEW j \in FreeIds(e) \ {i},
               subs' = [subs EXCEPT ![e][i] = s, ![e][j] = s],
               used' = [used EXCEPT ![e] = @ \cup {i, j}]
        PROVE  (\A x \in Endpoints : StoreStep(x)) /\ OwnStep(r)
    <2> DEFINE st == [[subs[e] EXCEPT ![i] = s] EXCEPT ![j] = s]
    <2>1. subs' = [subs EXCEPT ![e] = st]
      BY <1>1, <1>6, StoreTypes
    <2>2. \A x \in Endpoints, k \in SubIds :
            ~(x = e /\ k \in {i, j}) => subs'[x][k] = subs[x][k]
      BY <1>1, <2>1, StoreTypes
    <2> QED BY <1>6, <2>2, <1>4
  <1>7. \/ UNCHANGED bmcVars
        \/ \E b \in BOOLEAN : PostCreated(r, b)
        \/ \E i \in FreeIds(e) : \E j \in FreeIds(e) \ {i} :
             /\ subs' = [subs EXCEPT ![e][i] = s, ![e][j] = s]
             /\ used' = [used EXCEPT ![e] = @ \cup {i, j}]
    BY DEF Post, PostRetried
  <1> QED BY <1>3, <1>5, <1>6, <1>7

\* the frame constructors leave no subscription chosen
LEMMA NoneChosen ==
  ASSUME NEW f \in Frame
  PROVE  /\ \A rest \in SUBSET SubIds : PruneOn(f, rest).pc \notin CurPcs
                                     /\ DupOn(f, rest).pc \notin CurPcs
         /\ \A res : Return(f, res).pc \notin CurPcs
         /\ NextGroup(f).pc \notin CurPcs
         /\ Idle.pc \notin CurPcs
  BY DEF PruneOn, DupOn, Return, NextGroup, Idle, Frame, CurPcs

\* a step after which the goroutine has chosen no subscription
LEMMA NotChosen ==
  ASSUME NEW p, proc'[p].pc \notin CurPcs
  PROVE  CurOurs(p)'
  BY DEF CurOurs, CurPcs

\* A goroutine chooses a subscription for a PATCH or a DELETE only when it
\* bears the collector's mark at that moment.
LEMMA Chosen ==
  ASSUME TypeInv, OursInv, NEW p \in Procs, NEW i \in SubIds, NEW x \in CurPcs,
         proc[p].pc # "idle",
         Goto(p, [proc[p] EXCEPT !.pc = x, !.cur = i]), UNCHANGED bmcVars,
         subs[Ep(p)][i] # NoSub,
         x \in {"patch", "fixDelete"} => OwnAddress(Ep(p), subs[Ep(p)][i]),
         x \in {"pruneDelete", "dupPrune"} =>
           isSubscriptionForWrongXname(Ep(p), subs[Ep(p)][i])
  PROVE  CurOurs(p)'
  <1>1. proc[p] \in Frame /\ proc \in [Procs -> Frame] /\ Ep(p) \in Endpoints
    BY Running DEF TypeInv, TypeOK
  <1>2. proc'[p] = [proc[p] EXCEPT !.pc = x, !.cur = i]
    BY <1>1 DEF Goto
  <1>3. proc'[p].rec = proc[p].rec /\ proc'[p].cur = i /\ proc'[p].pc = x
    BY <1>1, <1>2 DEF Frame
  <1>4. Ep(p)' = Ep(p)
    BY <1>3 DEF Ep
  <1>5. i \in used[Ep(p)]
    BY <1>1 DEF OursInv
  <1>6. CASE x \in {"patch", "fixDelete"}
    BY <1>3, <1>4, <1>5, <1>6 DEF CurOurs, bmcVars
  <1>7. CASE x \in {"pruneDelete", "dupPrune"}
    <2>1. subs' = subs /\ used' = used
      BY DEF bmcVars
    <2> QED BY <1>3, <1>4, <1>5, <1>7, <2>1 DEF CurOurs
  <1> QED BY <1>6, <1>7 DEF CurPcs

LEMMA PruneStep ==
  ASSUME TypeInv, OursInv, NEW p \in Procs,
         PruneList(p) \/ PruneGet(p) \/ PruneDelete(p)
  PROVE  (\A e \in Endpoints : StoreStep(e)) /\ OwnStep(p) /\ CurOurs(p)'
  <1>0. proc[p].pc # "idle"
    BY DEF PruneList, PruneGet, PruneDelete
  <1>1. /\ proc[p] \in Frame /\ proc \in [Procs -> Frame]
        /\ Ep(p) \in Endpoints /\ proc[p].members \in SUBSET SubIds
        /\ IdsOf(subs[Ep(p)]) \in SUBSET SubIds
    BY <1>0, Running DEF TypeInv, TypeOK
  <1>2. ASSUME NEW rest \in SUBSET SubIds, Goto(p, PruneOn(proc[p], rest))
        PROVE  CurOurs(p)'
    <2>1. proc'[p] = PruneOn(proc[p], rest)
      BY <1>1, <1>2 DEF Goto
    <2> QED BY <1>1, <2>1, NoneChosen, NotChosen
  <1>3. CASE PruneList(p)
    <2>1. UNCHANGED bmcVars
      BY <1>3 DEF PruneList
    <2>2. \E rest \in SUBSET SubIds : Goto(p, PruneOn(proc[p], rest))
      BY <1>1, <1>3 DEF PruneList
    <2> QED BY <1>2, <2>1, <2>2, UnchangedStep
  <1>4. CASE PruneGet(p)
    <2>1. UNCHANGED bmcVars
      BY <1>4 DEF PruneGet
    <2>2. PICK i \in proc[p].members :
            \/ /\ isSubscriptionForWrongXname(Ep(p), subs[Ep(p)][i])
               /\ Goto(p, [proc[p] EXCEPT !.pc = "pruneDelete", !.cur = i])
            \/ Goto(p, PruneOn(proc[p], proc[p].members \ {i}))
      BY <1>4 DEF PruneGet
    <2>3. i \in SubIds
      BY <1>1
    <2>4. ASSUME isSubscriptionForWrongXname(Ep(p), subs[Ep(p)][i])
          PROVE  subs[Ep(p)][i] # NoSub
      BY <2>4 DEF isSubscriptionForWrongXname
    <2>5. CurOurs(p)'
      BY <1>0, <1>1, <1>2, <2>1, <2>2, <2>3, <2>4, Chosen DEF CurPcs
    <2> QED BY <2>1, <2>5, UnchangedStep
  <1>5. CASE PruneDelete(p)
    <2>1. proc[p].cur \in SubIds
      BY <1>0, <1>5, Running DEF PruneDelete, FrameOK, CurPcs
    <2>2. (\A e \in Endpoints : StoreStep(e)) /\ OwnStep(p)
      BY <1>1, <1>5, <2>1, DeleteStep, UnchangedStep
         DEF PruneDelete, OwnStep, CurPcs
    <2>3. CurOurs(p)'
      BY <1>1, <1>2, <1>5 DEF PruneDelete
    <2> QED BY <2>2, <2>3
  <1> QED BY <1>3, <1>4, <1>5

LEMMA ExamineStep ==
  ASSUME TypeInv, OursInv, NEW p \in Procs, proc[p].pc # "idle",
         NEW i \in proc[p].members, NEW b \in BOOLEAN, UNCHANGED bmcVars,
         Goto(p, Examine(p, i, subs[Ep(p)][i], getDestination(Ep(p), b)))
  PROVE  CurOurs(p)'
  <1> DEFINE sub == subs[Ep(p)][i]
             dest == getDestination(Ep(p), b)
  <1>1. /\ proc[p] \in Frame /\ proc \in [Procs -> Frame]
        /\ Ep(p) \in Endpoints /\ proc[p].members \in SUBSET SubIds
    BY Running DEF TypeInv, TypeOK
  <1>2. dest.x = Ep(p)
    BY DEF getDestination
  <1>3. \/ Goto(p, DupOn(proc[p], proc[p].members \ {i}))
        \/ Goto(p, Return(proc[p], "dup"))
        \/ /\ sub # NoSub /\ Destination(sub) = dest
           /\ Goto(p, [proc[p] EXCEPT !.pc = "patch", !.cur = i])
        \/ /\ isSubscriptionForWrongXname(Ep(p), sub)
           /\ Goto(p, [proc[p] EXCEPT !.pc = "dupPrune", !.cur = i])
    BY <1>2 DEF Examine
  <1>4. CASE \/ Goto(p, DupOn(proc[p], proc[p].members \ {i}))
             \/ Goto(p, Return(proc[p], "dup"))
    <2>1. proc'[p] \in {DupOn(proc[p], proc[p].members \ {i}),
                        Return(proc[p], "dup")}
      BY <1>1, <1>4 DEF Goto
    <2> QED BY <1>1, <2>1, NoneChosen, NotChosen
  <1>5. CASE /\ sub # NoSub /\ Destination(sub) = dest
             /\ Goto(p, [proc[p] EXCEPT !.pc = "patch", !.cur = i])
    <2>1. OwnAddress(Ep(p), sub)
      BY <1>5 DEF Destination, getDestination, OwnAddress
    <2> QED BY <1>1, <1>5, <2>1, Chosen DEF CurPcs
  <1>6. CASE /\ isSubscriptionForWrongXname(Ep(p), sub)
             /\ Goto(p, [proc[p] EXCEPT !.pc = "dupPrune", !.cur = i])
    <2>1. sub # NoSub
      BY <1>6 DEF isSubscriptionForWrongXname
    <2> QED BY <1>1, <1>6, <2>1, Chosen DEF CurPcs
  <1> QED BY <1>3, <1>4, <1>5, <1>6

LEMMA DupOursStep ==
  ASSUME TypeInv, OursInv, NEW p \in Procs, DupStep(p)
  PROVE  (\A e \in Endpoints : StoreStep(e)) /\ OwnStep(p) /\ CurOurs(p)'
  <1>0. proc[p].pc # "idle"
    BY DupGoto
  <1>1. /\ proc[p] \in Frame /\ proc \in [Procs -> Frame]
        /\ Ep(p) \in Endpoints /\ proc[p].members \in SUBSET SubIds
        /\ IdsOf(subs[Ep(p)]) \in SUBSET SubIds
    BY <1>0, Running DEF TypeInv, TypeOK
  <1>2. CASE DupList(p)
    <2> DEFINE f == [proc[p] EXCEPT !.grp = Head(proc[p].todo),
                                    !.todo = Tail(proc[p].todo)]
    <2>1. UNCHANGED bmcVars
      BY <1>2 DEF DupList
    <2>2. f \in Frame
      <3>1. Head(proc[p].todo) \in Group /\ Tail(proc[p].todo) \in Seq(Group)
        BY <1>0, <1>2, Running DEF DupList
      <3> QED BY <1>1, <3>1 DEF Frame
    <2>3. \/ \E rest \in SUBSET SubIds : Goto(p, DupOn(f, rest))
          \/ Goto(p, Return(f, "err"))
      BY <1>1, <1>2 DEF DupList
    <2> HIDE DEF f
    <2>4. proc'[p].pc \notin CurPcs
      BY <1>1, <2>2, <2>3, NoneChosen DEF Goto
    <2> QED BY <2>1, <2>4, NotChosen, UnchangedStep
  <1>3. CASE DupGet(p)
    <2>1. UNCHANGED bmcVars
      BY <1>3 DEF DupGet
    <2>2. \/ \E i \in proc[p].members, b \in BOOLEAN :
               Goto(p, Examine(p, i, subs[Ep(p)][i], getDestination(Ep(p), b)))
          \/ Goto(p, Return(proc[p], "err"))
      BY <1>3 DEF DupGet
    <2>3. CASE Goto(p, Return(proc[p], "err"))
      <3>1. proc'[p].pc \notin CurPcs
        BY <1>1, <2>3, NoneChosen DEF Goto
      <3> QED BY <2>1, <3>1, NotChosen, UnchangedStep
    <2>4. CASE \E i \in proc[p].members, b \in BOOLEAN :
               Goto(p, Examine(p, i, subs[Ep(p)][i], getDestination(Ep(p), b)))
      BY <1>0, <2>1, <2>4, ExamineStep, UnchangedStep
    <2> QED BY <2>2, <2>3, <2>4
  <1>4. CASE DupPrune(p) \/ FixDelete(p)
    <2>1. proc[p].cur \in SubIds
      BY <1>0, <1>4, Running DEF DupPrune, FixDelete, FrameOK, CurPcs
    <2>2. (\A e \in Endpoints : StoreStep(e)) /\ OwnStep(p)
      BY <1>1, <1>4, <2>1, DeleteStep, UnchangedStep
         DEF DupPrune, FixDelete, OwnStep, CurPcs
    <2>3. proc'[p].pc \notin CurPcs
      BY <1>1, <1>4, NoneChosen DEF DupPrune, FixDelete, Goto
    <2> QED BY <2>2, <2>3, NotChosen
  <1>5. CASE DupPatch(p)
    <2>1. (\A e \in Endpoints : StoreStep(e)) /\ OwnStep(p)
      BY <1>5, PatchStep
    <2>2. CASE Goto(p, Return(proc[p], "dup"))
      <3>1. proc'[p].pc \notin CurPcs
        BY <1>1, <2>2, NoneChosen DEF Goto
      <3> QED BY <2>1, <3>1, NotChosen
    <2>3. CASE /\ UNCHANGED subs
               /\ Goto(p, [proc[p] EXCEPT !.pc = "fixDelete"])
      <3>1. proc'[p] = [proc[p] EXCEPT !.pc = "fixDelete"]
        BY <1>1, <2>3 DEF Goto
      <3>2. /\ proc'[p].rec = proc[p].rec /\ proc'[p].cur = proc[p].cur
            /\ proc'[p].pc = "fixDelete" /\ proc[p].pc = "patch"
        BY <1>1, <1>5, <3>1 DEF Frame, DupPatch
      <3>3. Ep(p)' = Ep(p) /\ used' = used /\ subs' = subs
        BY <1>5, <2>3, <3>2 DEF Ep, DupPatch
      <3>4. CurOurs(p)
        BY DEF OursInv
      <3>5. CurOurs(p)'
        BY <3>2, <3>3, <3>4 DEF CurOurs, CurPcs
      <3> QED BY <2>1, <3>5
    <2> QED BY <1>5, <2>2, <2>3 DEF DupPatch
  <1> QED BY <1>2, <1>3, <1>4, <1>5 DEF DupStep

\* the steps that touch no store and choose no subscription
LEMMA LocalStep ==
  ASSUME TypeInv, NEW p \in Procs,
         \/ WorkerReturn(p) \/ GetEventTypes(p) \/ AppendGroup(p) \/ WorkerDone(p)
         \/ VerifyRange(p) \/ VerifierReturn(p) \/ VerifierDone(p)
  PROVE  UNCHANGED bmcVars /\ proc'[p].pc \notin CurPcs
  <1>1. proc[p] \in Frame /\ proc \in [Procs -> Frame]
    BY DEF TypeInv, TypeOK
  <1>2. UNCHANGED bmcVars
    BY DEF WorkerReturn, GetEventTypes, AppendGroup, WorkerDone, VerifyRange,
       VerifierReturn, VerifierDone
  <1>3. \A x, y : /\ [proc[p] EXCEPT !.pc = "eventTypes", !.res = y].pc \notin CurPcs
                  /\ [proc[p] EXCEPT !.pc = "append", !.res = y].pc \notin CurPcs
                  /\ [proc[p] EXCEPT !.pc = "post"].pc \notin CurPcs
                  /\ [proc[p] EXCEPT !.pc = "next", !.todo = x].pc \notin CurPcs
    BY <1>1 DEF Frame, CurPcs
  <1>4. \E g : g.pc \notin CurPcs /\ Goto(p, g)
    <2>1. CASE WorkerReturn(p)
      BY <1>1, <1>3, <2>1, NoneChosen DEF WorkerReturn
    <2>2. CASE GetEventTypes(p)
      BY <1>1, <1>3, <2>2, NoneChosen DEF GetEventTypes
    <2>3. CASE \/ AppendGroup(p) \/ WorkerDone(p)
               \/ VerifierReturn(p) \/ VerifierDone(p)
      BY <1>1, <2>3, NoneChosen
         DEF AppendGroup, WorkerDone, VerifierReturn, VerifierDone
    <2>4. CASE VerifyRange(p)
      BY <1>3, <2>4 DEF VerifyRange
    <2> QED BY <2>1, <2>2, <2>3, <2>4
  <1>5. proc'[p].pc \notin CurPcs
    BY <1>1, <1>4 DEF Goto
  <1> QED BY <1>2, <1>5

LEMMA LocalOursStep ==
  ASSUME TypeInv, OursInv, NEW p \in Procs,
         \/ WorkerReturn(p) \/ GetEventTypes(p) \/ AppendGroup(p) \/ WorkerDone(p)
         \/ VerifyRange(p) \/ VerifierReturn(p) \/ VerifierDone(p)
  PROVE  (\A e \in Endpoints : StoreStep(e)) /\ OwnStep(p) /\ CurOurs(p)'
  BY LocalStep, NotChosen, UnchangedStep

LEMMA PostNotChosen ==
  ASSUME TypeInv, NEW r \in Recs, Post(r)
  PROVE  proc'[r].pc \notin CurPcs
  <1>1. proc[r] \in Frame /\ proc \in [Procs -> Frame] /\ r \in Procs
    BY DEF TypeInv, TypeOK, Procs
  <1>2. [proc[r] EXCEPT !.pc = "append"].pc \notin CurPcs
    BY <1>1 DEF Frame, CurPcs
  <1>3. proc'[r].pc \notin CurPcs
    BY <1>1, <1>2, NoneChosen DEF Post, Goto
  <1> QED BY <1>3

LEMMA PostOursStep ==
  ASSUME ~ReuseIds, TypeInv, OursInv, NEW r \in Recs, Post(r)
  PROVE  (\A e \in Endpoints : StoreStep(e)) /\ OwnStep(r) /\ CurOurs(r)'
  BY PostNotChosen, PostStep, NotChosen

\* every step of a goroutine
GoroutineStep(p) == (p \in Recs /\ Worker(p)) \/ (p \in Verifiers /\ Verifier(p))

LEMMA GoroutineOurs ==
  ASSUME ~ReuseIds, TypeInv, OursInv, NEW p \in Procs, GoroutineStep(p)
  PROVE  /\ \A e \in Endpoints : StoreStep(e)
         /\ OwnStep(p) /\ CurOurs(p)'
         /\ \A q \in Procs \ {p} : proc'[q] = proc[q]
  <1>1. \A q \in Procs \ {p} : proc'[q] = proc[q]
    BY WorkerEffect, VerifierEffect DEF GoroutineStep
  <1>2. CASE p \in Recs /\ Worker(p)
    BY <1>1, <1>2, PruneStep, DupOursStep, LocalOursStep, PostOursStep DEF Worker
  <1>3. CASE p \in Verifiers /\ Verifier(p)
    BY <1>1, <1>3, DupOursStep, LocalOursStep DEF Verifier
  <1> QED BY <1>2, <1>3 DEF GoroutineStep

LEMMA EnvironmentOurs ==
  ASSUME ~ReuseIds, TypeInv, OursInv, Environment
  PROVE  (\A e \in Endpoints : StoreStep(e)) /\ proc' = proc
  <1>0. proc' = proc
    BY DEF Environment, HSMDiscover, Replace, ForeignSubscribe
  <1>1. PICK e \in Endpoints : HSMDiscover(e) \/ Replace(e) \/ ForeignSubscribe(e)
    BY DEF Environment
  <1>2. CASE HSMDiscover(e)
    BY <1>0, <1>2, UnchangedStep DEF HSMDiscover
  <1>3. CASE Replace(e)
    <2>1. PICK s \in Stores :
            /\ IdsOf(s) \cap used[e] = {}
            /\ subs' = [subs EXCEPT ![e] = s]
            /\ used' = [used EXCEPT ![e] = @ \cup IdsOf(s)]
      BY <1>3 DEF Replace
    <2>2. \A x \in Endpoints : subs'[x] = IF x = e THEN s ELSE subs[x]
      BY <2>1, StoreTypes
    <2>3. IdsOf(s) \in SUBSET SubIds
          /\ \A k \in SubIds \ IdsOf(s) : s[k] = NoSub
      BY DEF IdsOf
    <2>4. Fresh(e, IdsOf(s))
      BY <2>1, <2>2, <2>3 DEF Fresh
    <2> QED BY <1>0, <2>4, CreateStep
  <1>4. CASE ForeignSubscribe(e)
    <2>1. PICK i \in FreeIds(e), s \in ForeignSubs : Create(e, i, s)
      BY <1>4 DEF ForeignSubscribe
    <2> DEFINE st == [subs[e] EXCEPT ![i] = s]
    <2>2. subs' = [subs EXCEPT ![e] = st] /\ used' = [used EXCEPT ![e] = @ \cup {i}]
      BY <2>1 DEF Create
    <2>3. i \in SubIds /\ i \notin used[e]
      BY DEF FreeIds
    <2>4. \A x \in Endpoints, k \in SubIds :
            ~(x = e /\ k \in {i}) => subs'[x][k] = subs[x][k]
      BY <2>2, StoreTypes
    <2>5. Fresh(e, {i})
      BY <2>2, <2>3, <2>4 DEF Fresh
    <2> QED BY <1>0, <2>5, CreateStep
  <1> QED BY <1>1, <1>2, <1>3, <1>4

\* the dispatchers start goroutines that have chosen nothing yet
LEMMA DispatchOurs ==
  ASSUME TypeInv, SubRecv \/ VerifyDispatch
  PROVE  /\ UNCHANGED bmcVars
         /\ \A p \in Procs : proc'[p] = proc[p] \/ proc'[p].pc \notin CurPcs
  <1>1. proc \in [Procs -> Frame]
    BY DEF TypeInv, TypeOK
  <1>2. UNCHANGED bmcVars
    BY DEF SubRecv, VerifyDispatch, VerifySkip, VerifyRecv
  <1>3. CASE SubRecv
    <2> DEFINE f == [Idle EXCEPT !.rec = Head(pending),
                       !.todo = registryPrefixGroups,
                       !.pc = IF pruneOldSubscriptions THEN "pruneList" ELSE "next"]
    <2>1. f.pc \notin CurPcs
      BY DEF Idle, CurPcs
    <2>2. Goto(Head(pending), f)
      BY <1>3 DEF SubRecv
    <2> HIDE DEF f
    <2> QED BY <1>1, <1>2, <2>1, <2>2 DEF Goto
  <1>4. CASE VerifyRecv
    <2> DEFINE f == [Idle EXCEPT !.rec = Head(verify), !.pc = "range"]
    <2>1. f.pc \notin CurPcs
      BY DEF Idle, CurPcs
    <2>2. \E v \in Verifiers : Goto(v, f)
      BY <1>4 DEF VerifyRecv
    <2> HIDE DEF f
    <2> QED BY <1>1, <1>2, <2>1, <2>2 DEF Goto
  <1>5. CASE VerifySkip
    BY <1>2, <1>5 DEF VerifySkip
  <1> QED BY <1>3, <1>4, <1>5 DEF VerifyDispatch

LEMMA OursInit == Init => OursInv
  BY IdleOK DEF Init, OursInv, IdsOf, CurOurs, CurPcs

LEMMA OursNext ==
  ASSUME ~ReuseIds
  PROVE  TypeInv /\ OursInv /\ [Next]_vars => OursInv'
  <1> SUFFICES ASSUME TypeInv, OursInv, [Next]_vars PROVE OursInv'
    OBVIOUS
  <1>1. ASSUME \A e \in Endpoints : StoreStep(e),
               \A p \in Procs : proc'[p] = proc[p] \/ CurOurs(p)'
        PROVE  OursInv'
    <2>1. \A e \in Endpoints, i \in SubIds : subs'[e][i] # NoSub => i \in used'[e]
      BY <1>1 DEF StoreStep
    <2>2. \A p \in Procs : CurOurs(p)'
      BY <1>1, CurOursKept
    <2> QED BY <2>1, <2>2 DEF OursInv
  <1>2. CASE UNCHANGED vars
    BY <1>1, <1>2, UnchangedStep DEF vars
  <1>3. CASE Environment
    BY <1>1, <1>3, EnvironmentOurs
  <1>4. CASE MainLoop
    <2>1. UNCHANGED bmcVars /\ proc' = proc
      BY <1>4 DEF MainLoop, Scan, ScanStart, ScanSkip, ScanQueue, ScanVerify
    <2> QED BY <1>1, <2>1, UnchangedStep
  <1>5. CASE SubRecv \/ VerifyDispatch
    BY <1>1, <1>5, DispatchOurs, NotChosen, UnchangedStep
  <1>6. ASSUME NEW p \in Procs, GoroutineStep(p) PROVE OursInv'
    BY <1>1, <1>6, GoroutineOurs
  <1> QED BY <1>2, <1>3, <1>4, <1>5, <1>6 DEF Next, GoroutineStep, Procs

\* The collector never patches or deletes a subscription of another service,
\* provided the BMC gives no id out twice: what a goroutine is about to
\* change was the collector's when it was read, and is so or is gone now.
THEOREM ForeignSafe ==
  ASSUME ~ReuseIds
  PROVE  Spec => ForeignUntouched
  <1> DEFINE Untouched ==
        proc' # proc =>
          \A e \in Endpoints, i \in SubIds :
            NotOurs(e, subs[e][i]) => subs'[e][i] = subs[e][i]
  <1>1. TypeInv /\ OursInv /\ [Next]_vars => [Untouched]_vars
    <2> SUFFICES ASSUME TypeInv, OursInv, Next, proc' # proc,
                        NEW e \in Endpoints, NEW i \in SubIds,
                        NotOurs(e, subs[e][i])
                 PROVE  subs'[e][i] = subs[e][i]
      OBVIOUS
    <2>1. CASE Environment \/ MainLoop
      BY <2>1 DEF Environment, HSMDiscover, Replace, ForeignSubscribe,
         MainLoop, Scan, ScanStart, ScanSkip, ScanQueue, ScanVerify
    <2>2. CASE SubRecv \/ VerifyDispatch
      BY <2>2, DispatchOurs DEF bmcVars
    <2>3. ASSUME NEW p \in Procs, GoroutineStep(p)
          PROVE  subs'[e][i] = subs[e][i]
      <3>1. OwnStep(p) /\ CurOurs(p)
        BY <2>3, GoroutineOurs DEF OursInv
      <3>2. subs[e][i] # NoSub
        BY DEF NotOurs
      <3> SUFFICES ASSUME e = Ep(p), i = proc[p].cur, proc[p].pc \in CurPcs
                   PROVE  FALSE
        BY <3>1, <3>2 DEF OwnStep
      <3> QED BY <3>1, <3>2 DEF CurOurs, CurPcs, NotOurs, OwnAddress,
                                isSubscriptionForWrongXname, XnameOfSub
    <2> QED BY <2>1, <2>2, <2>3 DEF Next, GoroutineStep, Procs
  <1>2. Spec => [](TypeInv /\ OursInv)
    <2>1. Init => TypeInv /\ OursInv
      BY InitTypes, OursInit
    <2>2. TypeInv /\ OursInv /\ [Next]_vars => (TypeInv /\ OursInv)'
      BY NextTypes, OursNext
    <2> QED BY <2>1, <2>2, PTL DEF Spec
  <1> QED BY <1>1, <1>2, PTL DEF Spec, ForeignUntouched

(***************************************************************************)
(* Right subscriptions are left alone.  This needs no assumption on ids:   *)
(* a goroutine decides what to pick in the step that reads it.             *)
(***************************************************************************)
\* A subscription that is right is not for the wrong xname, and its context
\* needs no mending.
LEMMA RightNotWrong ==
  ASSUME NEW e \in Endpoints, NEW g, NEW sub, Right(e, g, sub)
  PROVE  ~isSubscriptionForWrongXname(e, sub) /\ sub.ctx = e
  <1>1. sub.ctx = e /\ sub.x = e
    BY DEF Right, Destination, getDestination
  <1> QED BY <1>1 DEF isSubscriptionForWrongXname, XnameOfSub

\* After its step a goroutine has picked nothing, what it had picked before,
\* or something that was not right when it read it in this step.
PickStep(p) ==
  \/ proc'[p].pc \notin CurPcs
  \/ /\ proc[p].pc \in CurPcs
     /\ proc'[p].cur = proc[p].cur /\ proc'[p].rec = proc[p].rec
  \/ /\ proc'[p].rec = proc[p].rec /\ subs' = subs
     /\ \A g \in Group : ~Right(Ep(p), g, subs[Ep(p)][proc'[p].cur])

LEMMA PicksWrong ==
  ASSUME TypeInv, NEW p \in Procs, NEW i \in SubIds, NEW x \in CurPcs,
         proc[p].pc # "idle", subs' = subs,
         Goto(p, [proc[p] EXCEPT !.pc = x, !.cur = i]),
         \/ isSubscriptionForWrongXname(Ep(p), subs[Ep(p)][i])
         \/ subs[Ep(p)][i].ctx # Ep(p)
  PROVE  PickStep(p)
  <1>1. proc[p] \in Frame /\ proc \in [Procs -> Frame] /\ Ep(p) \in Endpoints
    BY Running DEF TypeInv, TypeOK
  <1>2. proc'[p] = [proc[p] EXCEPT !.pc = x, !.cur = i]
    BY <1>1 DEF Goto
  <1>3. proc'[p].rec = proc[p].rec /\ proc'[p].cur = i
    BY <1>1, <1>2 DEF Frame
  <1>4. \A g \in Group : ~Right(Ep(p), g, subs[Ep(p)][i])
    BY <1>1, RightNotWrong
  <1> QED BY <1>3, <1>4 DEF PickStep

LEMMA PruneRight ==
  ASSUME TypeInv, NEW p \in Procs,
         PruneList(p) \/ PruneGet(p) \/ PruneDelete(p)
  PROVE  OwnStep(p) /\ PickStep(p)
  <1>0. proc[p].pc # "idle"
    BY DEF PruneList, PruneGet, PruneDelete
  <1>1. /\ proc[p] \in Frame /\ proc \in [Procs -> Frame]
        /\ Ep(p) \in Endpoints /\ proc[p].members \in SUBSET SubIds
        /\ IdsOf(subs[Ep(p)]) \in SUBSET SubIds
    BY <1>0, Running DEF TypeInv, TypeOK
  <1>2. ASSUME NEW rest \in SUBSET SubIds, Goto(p, PruneOn(proc[p], rest))
        PROVE  PickStep(p)
    <2>1. proc'[p] = PruneOn(proc[p], rest)
      BY <1>1, <1>2 DEF Goto
    <2> QED BY <1>1, <2>1, NoneChosen DEF PickStep
  <1>3. CASE PruneList(p)
    <2>1. subs' = subs
      BY <1>3 DEF PruneList, bmcVars
    <2>2. \E rest \in SUBSET SubIds : Goto(p, PruneOn(proc[p], rest))
      BY <1>1, <1>3 DEF PruneList
    <2> QED BY <1>2, <2>1, <2>2 DEF OwnStep
  <1>4. CASE PruneGet(p)
    <2>1. subs' = subs
      BY <1>4 DEF PruneGet, bmcVars
    <2>2. PICK i \in proc[p].members :
            \/ /\ isSubscriptionForWrongXname(Ep(p), subs[Ep(p)][i])
               /\ Goto(p, [proc[p] EXCEPT !.pc = "pruneDelete", !.cur = i])
            \/ Goto(p, PruneOn(proc[p], proc[p].members \ {i}))
      BY <1>4 DEF PruneGet
    <2>3. PickStep(p)
      BY <1>0, <1>1, <1>2, <2>1, <2>2, PicksWrong DEF CurPcs
    <2> QED BY <2>1, <2>3 DEF OwnStep
  <1>5. CASE PruneDelete(p)
    <2>1. OwnStep(p)
      <3>1. CASE UNCHANGED bmcVars
        BY <3>1 DEF bmcVars, OwnStep
      <3>2. CASE Delete(Ep(p), proc[p].cur)
        BY <1>1, <1>5, <3>2, StoreTypes DEF Delete, PruneDelete, OwnStep, CurPcs
      <3> QED BY <1>5, <3>1, <3>2 DEF PruneDelete
    <2>2. PickStep(p)
      BY <1>1, <1>2, <1>5 DEF PruneDelete
    <2> QED BY <2>1, <2>2
  <1> QED BY <1>3, <1>4, <1>5

LEMMA DupRight ==
  ASSUME TypeInv, NEW p \in Procs, DupStep(p)
  PROVE  OwnStep(p) /\ PickStep(p)
  <1>0. proc[p].pc # "idle"
    BY DupGoto
  <1>1. /\ proc[p] \in Frame /\ proc \in [Procs -> Frame]
        /\ Ep(p) \in Endpoints /\ proc[p].members \in SUBSET SubIds
        /\ IdsOf(subs[Ep(p)]) \in SUBSET SubIds
    BY <1>0, Running DEF TypeInv, TypeOK
  <1>2. CASE DupList(p)
    <2> DEFINE f == [proc[p] EXCEPT !.grp = Head(proc[p].todo),
                                    !.todo = Tail(proc[p].todo)]
    <2>1. subs' = subs
      BY <1>2 DEF DupList, bmcVars
    <2>2. f \in Frame
      <3>1. Head(proc[p].todo) \in Group /\ Tail(proc[p].todo) \in Seq(Group)
        BY <1>0, <1>2, Running DEF DupList
      <3> QED BY <1>1, <3>1 DEF Frame
    <2>3. \/ \E rest \in SUBSET SubIds : Goto(p, DupOn(f, rest))
          \/ Goto(p, Return(f, "err"))
      BY <1>1, <1>2 DEF DupList
    <2> HIDE DEF f
    <2>4. proc'[p].pc \notin CurPcs
      BY <1>1, <2>2, <2>3, NoneChosen DEF Goto
    <2> QED BY <2>1, <2>4 DEF OwnStep, PickStep
  <1>3. CASE DupGet(p)
    <2>1. subs' = subs
      BY <1>3 DEF DupGet, bmcVars
    <2>2. \/ \E i \in proc[p].members, b \in BOOLEAN :
               Goto(p, Examine(p, i, subs[Ep(p)][i], getDestination(Ep(p), b)))
          \/ Goto(p, Return(proc[p], "err"))
      BY <1>3 DEF DupGet
    <2>3. CASE Goto(p, Return(proc[p], "err"))
      <3>1. proc'[p].pc \notin CurPcs
        BY <1>1, <2>3, NoneChosen DEF Goto
      <3> QED BY <2>1, <3>1 DEF OwnStep, PickStep
    <2>4. ASSUME NEW i \in proc[p].members, NEW b \in BOOLEAN,
                 Goto(p, Examine(p, i, subs[Ep(p)][i], getDestination(Ep(p), b)))
          PROVE  PickStep(p)
      <3> DEFINE sub == subs[Ep(p)][i]
                 dest == getDestination(Ep(p), b)
      <3>1. dest.x = Ep(p)
        BY DEF getDestination
      <3>2. \/ Goto(p, DupOn(proc[p], proc[p].members \ {i}))
            \/ Goto(p, Return(proc[p], "dup"))
            \/ /\ sub.ctx # Ep(p)
               /\ Goto(p, [proc[p] EXCEPT !.pc = "patch", !.cur = i])
            \/ /\ isSubscriptionForWrongXname(Ep(p), sub)
               /\ Goto(p, [proc[p] EXCEPT !.pc = "dupPrune", !.cur = i])
        BY <2>4, <3>1 DEF Examine
      <3>3. CASE \/ Goto(p, DupOn(proc[p], proc[p].members \ {i}))
                 \/ Goto(p, Return(proc[p], "dup"))
        <4>1. proc'[p] \in {DupOn(proc[p], proc[p].members \ {i}),
                            Return(proc[p], "dup")}
          BY <1>1, <3>3 DEF Goto
        <4> QED BY <1>1, <4>1, NoneChosen DEF PickStep
      <3> HIDE DEF sub, dest
      <3>4. CASE \/ /\ sub.ctx # Ep(p)
                    /\ Goto(p, [proc[p] EXCEPT !.pc = "patch", !.cur = i])
                 \/ /\ isSubscriptionForWrongXname(Ep(p), sub)
                    /\ Goto(p, [proc[p] EXCEPT !.pc = "dupPrune", !.cur = i])
        BY <1>0, <1>1, <2>1, <3>4, PicksWrong DEF CurPcs, sub
      <3> QED BY <3>2, <3>3, <3>4
    <2> QED BY <2>1, <2>2, <2>3, <2>4 DEF OwnStep
  <1>4. CASE DupPrune(p) \/ FixDelete(p)
    <2>1. OwnStep(p)
      <3>1. CASE UNCHANGED bmcVars
        BY <3>1 DEF bmcVars, OwnStep
      <3>2. CASE Delete(Ep(p), proc[p].cur)
        BY <1>1, <1>4, <3>2, StoreTypes
           DEF Delete, DupPrune, FixDelete, OwnStep, CurPcs
      <3> QED BY <1>4, <3>1, <3>2 DEF DupPrune, FixDelete
    <2>2. proc'[p].pc \notin CurPcs
      BY <1>1, <1>4, NoneChosen DEF DupPrune, FixDelete, Goto
    <2> QED BY <2>1, <2>2 DEF PickStep
  <1>5. CASE DupPatch(p)
    <2>0. proc[p].pc = "patch"
      BY <1>5 DEF DupPatch
    <2>1. OwnStep(p)
      <3> DEFINE e == Ep(p)
                 i == proc[p].cur
                 st == [subs[e] EXCEPT ![i] = [subs[e][i] EXCEPT !.ctx = e]]
      <3>1. subs' = subs \/ subs' = [subs EXCEPT ![e] = st]
        BY <1>5 DEF DupPatch
      <3>2. \A x \in Endpoints, k \in SubIds :
              subs'[x][k] # subs[x][k] => x = e /\ k = i
        BY <1>1, <3>1, StoreTypes
      <3> QED BY <2>0, <3>2 DEF OwnStep, CurPcs
    <2>2. CASE Goto(p, Return(proc[p], "dup"))
      <3>1. proc'[p].pc \notin CurPcs
        BY <1>1, <2>2, NoneChosen DEF Goto
      <3> QED BY <2>1, <3>1 DEF PickStep
    <2>3. CASE Goto(p, [proc[p] EXCEPT !.pc = "fixDelete"])
      <3>1. proc'[p] = [proc[p] EXCEPT !.pc = "fixDelete"]
        BY <1>1, <2>3 DEF Goto
      <3>2. proc'[p].rec = proc[p].rec /\ proc'[p].cur = proc[p].cur
        BY <1>1, <3>1 DEF Frame
      <3> QED BY <2>0, <2>1, <3>2 DEF PickStep, CurPcs
    <2> QED BY <1>5, <2>2, <2>3 DEF DupPatch
  <1> QED BY <1>2, <1>3, <1>4, <1>5 DEF DupStep

LEMMA PostRight ==
  ASSUME TypeInv, NEW r \in Recs, Post(r)
  PROVE  OwnStep(r) /\ PickStep(r)
  <1> DEFINE e == Ep(r)
             s == NewSub(e, proc[r].grp, TRUE)
  <1>1. e \in Endpoints
    BY Running DEF Post, Procs
  <1>2. \A k \in FreeIds(e) : subs[e][k] = NoSub
    BY DEF FreeIds
  <1>3. \A x \in Endpoints, k \in SubIds :
          subs[x][k] # NoSub => subs'[x][k] = subs[x][k]
    <2>1. CASE UNCHANGED bmcVars
      BY <2>1 DEF bmcVars
    <2>2. ASSUME NEW i \in FreeIds(e), NEW n, subs' = [subs EXCEPT ![e][i] = n]
          PROVE  \A x \in Endpoints, k \in SubIds :
                   subs[x][k] # NoSub => subs'[x][k] = subs[x][k]
      <3> DEFINE st == [subs[e] EXCEPT ![i] = n]
      <3>1. subs' = [subs EXCEPT ![e] = st]
        BY <2>2
      <3> QED BY <1>1, <1>2, <3>1, StoreTypes
    <2>3. ASSUME NEW i \in FreeIds(e), NEW j \in FreeIds(e) \ {i},
                 subs' = [subs EXCEPT ![e][i] = s, ![e][j] = s]
          PROVE  \A x \in Endpoints, k \in SubIds :
                   subs[x][k] # NoSub => subs'[x][k] = subs[x][k]
      <3> DEFINE st == [[subs[e] EXCEPT ![i] = s] EXCEPT ![j] = s]
      <3>1. subs' = [subs EXCEPT ![e] = st]
        BY <1>1, <2>3, StoreTypes
      <3> QED BY <1>1, <1>2, <3>1, StoreTypes
    <2>4. \/ UNCHANGED bmcVars
          \/ \E i \in FreeIds(e), b \in BOOLEAN :
               subs' = [subs EXCEPT ![e][i] = NewSub(e, proc[r].grp, b)]
          \/ \E i \in FreeIds(e) : \E j \in FreeIds(e) \ {i} :
               subs' = [subs EXCEPT ![e][i] = s, ![e][j] = s]
      BY DEF Post, PostCreated, PostRetried, Create
    <2> QED BY <2>1, <2>2, <2>3, <2>4
  <1>4. OwnStep(r)
    BY <1>3 DEF OwnStep
  <1>5. PickStep(r)
    BY PostNotChosen DEF PickStep
  <1> QED BY <1>4, <1>5

LEMMA GoroutineRight ==
  ASSUME TypeInv, NEW p \in Procs, GoroutineStep(p)
  PROVE  OwnStep(p) /\ PickStep(p) /\ \A q \in Procs \ {p} : proc'[q] = proc[q]
  <1>1. \A q \in Procs \ {p} : proc'[q] = proc[q]
    BY WorkerEffect, VerifierEffect DEF GoroutineStep
  <1>2. ASSUME \/ WorkerReturn(p) \/ GetEventTypes(p) \/ AppendGroup(p)
               \/ WorkerDone(p) \/ VerifyRange(p) \/ VerifierReturn(p)
               \/ VerifierDone(p)
        PROVE  OwnStep(p) /\ PickStep(p)
    BY <1>2, LocalStep DEF OwnStep, PickStep, bmcVars
  <1>3. CASE p \in Recs /\ Worker(p)
    BY <1>1, <1>2, <1>3, PruneRight, DupRight, PostRight DEF Worker
  <1>4. CASE p \in Verifiers /\ Verifier(p)
    BY <1>1, <1>2, <1>4, DupRight DEF Verifier
  <1> QED BY <1>3, <1>4 DEF GoroutineStep

\* No goroutine of the collector changes a right subscription that none had
\* picked, or picks it, whatever the BMCs do with their ids.
THEOREM RightLeftAlone == Spec => RightKept
  <1> DEFINE Kept ==
        proc' # proc =>
          \A e \in Endpoints, i \in SubIds, g \in Group :
            Right(e, g, subs[e][i]) /\ ~Picked(e, i)
              => subs'[e][i] = subs[e][i] /\ ~Picked(e, i)'
  <1>1. TypeInv /\ [Next]_vars => [Kept]_vars
    <2> SUFFICES ASSUME TypeInv, Next, proc' # proc,
                        NEW e \in Endpoints, NEW i \in SubIds, NEW g \in Group,
                        Right(e, g, subs[e][i]), ~Picked(e, i)
                 PROVE  subs'[e][i] = subs[e][i] /\ ~Picked(e, i)'
      OBVIOUS
    <2>1. \A p \in Procs : proc[p].pc \in CurPcs /\ Ep(p) = e => proc[p].cur # i
      BY DEF Picked
    <2>2. subs[e][i] # NoSub
      BY DEF Right
    <2>3. CASE Environment \/ MainLoop
      BY <2>3 DEF Environment, HSMDiscover, Replace, ForeignSubscribe,
         MainLoop, Scan, ScanStart, ScanSkip, ScanQueue, ScanVerify
    <2>4. CASE SubRecv \/ VerifyDispatch
      <3>1. ~Picked(e, i)'
        BY <2>1, <2>4, DispatchOurs DEF Picked, Ep
      <3> QED BY <2>4, <3>1, DispatchOurs DEF bmcVars
    <2>5. ASSUME NEW p \in Procs, GoroutineStep(p)
          PROVE  subs'[e][i] = subs[e][i] /\ ~Picked(e, i)'
      <3>1. /\ OwnStep(p) /\ PickStep(p)
            /\ \A q \in Procs \ {p} : proc'[q] = proc[q]
        BY <2>5, GoroutineRight
      <3>2. subs'[e][i] = subs[e][i]
        BY <2>1, <2>2, <3>1 DEF OwnStep
      <3>3. \A q \in Procs \ {p} :
              ~(proc'[q].pc \in CurPcs /\ Ep(q)' = e /\ proc'[q].cur = i)
        BY <2>1, <3>1 DEF Ep
      <3>4. ~(proc'[p].pc \in CurPcs /\ Ep(p)' = e /\ proc'[p].cur = i)
        BY <2>1, <3>1 DEF PickStep, Ep
      <3> QED BY <3>2, <3>3, <3>4 DEF Picked
    <2> QED BY <2>3, <2>4, <2>5 DEF Next, GoroutineStep, Procs
  <1>2. Spec => []TypeInv
    BY InitTypes, NextTypes, PTL DEF Spec
  <1> QED BY <1>1, <1>2, PTL DEF Spec, RightKept

(***************************************************************************)
(* RFSubscriptions implements SubscriptionStore.  The refinement mapping   *)
(* is the identity on subs; what has to be shown is that a subscription is *)
(* still, when the request that changes it arrives, of the kind it was     *)
(* when a goroutine read it.                                               *)
(***************************************************************************)
Made(e) == [base : {"http", "https"}, x : {e}, ctx : {e}, pfx : Group]
Addressed(e) == [base : {"http", "https"}, x : {e}, ctx : Names, pfx : Group]
Stale(e) == {s \in EventSubscription : isSubscriptionForWrongXname(e, s)}

\* The abstract actions under the mapping, read with the concrete stores.
\* A step that creates one subscription is a Subscribe with i = j.
LEMMA CreateIsSubscribe ==
  ASSUME TypeInv, NEW e \in Endpoints, NEW s \in Made(e),
         NEW i \in FreeIds(e), NEW j \in FreeIds(e),
         \A x \in Endpoints, k \in SubIds :
           subs'[x][k] = IF x = e /\ k \in {i, j} THEN s ELSE subs[x][k],
         subs' \in [Endpoints -> Store]
  PROVE  BMC!Next
  <1> DEFINE st == [[subs[e] EXCEPT ![i] = s] EXCEPT ![j] = s]
             new == [subs EXCEPT ![e] = st]
  <1>1. /\ i \in SubIds /\ subs[e][i] = NoSub
        /\ j \in SubIds /\ subs[e][j] = NoSub
    BY DEF FreeIds
  <1>2. subs \in [Endpoints -> [SubIds -> EventSubscription \cup {NoSub}]]
        /\ subs' \in [Endpoints -> [SubIds -> EventSubscription \cup {NoSub}]]
    BY StoreTypes DEF Store
  <1>3. subs' = new
    <2>1. \A x \in Endpoints : subs'[x] = new[x]
      <3> SUFFICES ASSUME NEW x \in Endpoints PROVE subs'[x] = new[x]
        OBVIOUS
      <3>1. CASE x = e
        <4>1. new[x] = st
          BY <1>2, <3>1
        <4>2. \A k \in SubIds : st[k] = IF k \in {i, j} THEN s ELSE subs[e][k]
          BY <1>1, <1>2
        <4>3. DOMAIN st = SubIds /\ st = [k \in SubIds |-> st[k]]
          BY <1>2
        <4>4. subs'[x] \in [SubIds -> EventSubscription \cup {NoSub}]
          BY <1>2
        <4> HIDE DEF st, new
        <4>5. \A k \in SubIds : subs'[x][k] = st[k]
          BY <3>1, <4>2
        <4> QED BY <4>1, <4>3, <4>4, <4>5
      <3>2. CASE x # e
        <4>1. new[x] = subs[x]
          BY <1>2, <3>2
        <4>2. \A k \in SubIds : subs'[x][k] = subs[x][k]
          BY <3>2
        <4> QED BY <1>2, <4>1, <4>2
      <3> QED BY <3>1, <3>2
    <2>2. new = [x \in Endpoints |-> new[x]]
      BY <1>2
    <2> HIDE DEF new
    <2> QED BY <1>2, <2>1, <2>2
  <1>4. subs' = [subs EXCEPT ![e][i] = s, ![e][j] = s]
    BY <1>2, <1>3
  <1>5. BMC!Subscribe(e)
    BY <1>1, <1>4 DEF BMC!Subscribe, BMC!Free, Made
  <1> QED BY <1>5 DEF BMC!Next

\* A DELETE finds nothing, or what the abstract store may remove.
LEMMA DeleteIsRemove ==
  ASSUME TypeInv, NEW e \in Endpoints, NEW i \in SubIds, Delete(e, i),
         \/ subs[e][i] = NoSub \/ OwnAddress(e, subs[e][i])
         \/ isSubscriptionForWrongXname(e, subs[e][i])
  PROVE  BMC!Next \/ UNCHANGED subs
  <1>1. subs \in [Endpoints -> [SubIds -> EventSubscription \cup {NoSub}]]
    BY StoreTypes
  <1>2. subs' = [subs EXCEPT ![e][i] = NoSub]
    BY DEF Delete
  <1>3. CASE subs[e][i] = NoSub
    <2>1. [subs[e] EXCEPT ![i] = NoSub] = subs[e]
      BY <1>1, <1>3
    <2> QED BY <1>1, <1>2, <2>1
  <1>4. CASE subs[e][i] # NoSub
    <2>1. subs[e][i] \in EventSubscription
      BY <1>1, <1>4
    <2>2. subs[e][i] \in Addressed(e) \cup Stale(e)
      BY <1>4, <2>1 DEF Addressed, Stale, OwnAddress, EventSubscription
    <2>3. BMC!Remove(e, i)
      BY <1>2, <2>2 DEF BMC!Remove, Addressed, Stale
    <2> QED BY <2>3 DEF BMC!Next
  <1> QED BY <1>3, <1>4

\* A PATCH finds nothing, or a subscription with this endpoint's address.
LEMMA PatchIsMend ==
  ASSUME TypeInv, OursInv, NEW p \in Procs, DupPatch(p)
  PROVE  BMC!Next \/ UNCHANGED subs
  <1> DEFINE e == Ep(p)
             i == proc[p].cur
  <1>0. proc[p].pc = "patch"
    BY DEF DupPatch
  <1>1. e \in Endpoints /\ i \in SubIds
    BY <1>0, Running DEF FrameOK, CurPcs
  <1> SUFFICES ASSUME subs[e][i] # NoSub, subs' = [subs EXCEPT ![e][i].ctx = e]
               PROVE  BMC!Next
    BY DEF DupPatch
  <1>2. subs[e][i] \in EventSubscription
    BY <1>1, StoreTypes
  <1>3. OwnAddress(e, subs[e][i])
    BY <1>0 DEF OursInv, CurOurs
  <1>4. subs[e][i] \in Addressed(e)
    BY <1>2, <1>3 DEF Addressed, OwnAddress, EventSubscription
  <1>5. BMC!Mend(e, i)
    BY <1>1, <1>4 DEF BMC!Mend, Addressed
  <1> QED BY <1>1, <1>5 DEF BMC!Next

\* A POST makes one subscription, two of them, or none.
LEMMA PostIsSubscribe ==
  ASSUME TypeInv, NEW r \in Recs, Post(r), TypeInv'
  PROVE  BMC!Next \/ UNCHANGED subs
  <1> DEFINE e == Ep(r)
             g == proc[r].grp
  <1>1. e \in Endpoints /\ g \in Group
    BY Running DEF Post, Procs
  <1>2. subs \in [Endpoints -> [SubIds -> EventSubscription \cup {NoSub}]]
        /\ subs' \in [Endpoints -> Store]
    BY StoreTypes DEF TypeInv, TypeOK
  <1>3. \A b \in BOOLEAN : NewSub(e, g, b) \in Made(e)
    BY <1>1 DEF NewSub, getDestination, Made
  <1>4. FreeIds(e) \subseteq SubIds
    BY DEF FreeIds
  <1>5. ASSUME NEW b \in BOOLEAN, PostCreated(r, b)
        PROVE  BMC!Next
    <2> DEFINE s == NewSub(e, g, b)
    <2>1. PICK i \in FreeIds(e) : subs' = [subs EXCEPT ![e][i] = s]
      BY <1>5 DEF PostCreated, Create
    <2>2. s \in Made(e)
      BY <1>3
    <2> HIDE DEF s
    <2>3. \A x \in Endpoints, k \in SubIds :
            subs'[x][k] = IF x = e /\ k \in {i, i} THEN s ELSE subs[x][k]
      <3> DEFINE st == [subs[e] EXCEPT ![i] = s]
      <3>1. subs' = [subs EXCEPT ![e] = st]
        BY <2>1
      <3> QED BY <1>1, <1>2, <1>4, <3>1
    <2> HIDE DEF e, g
    <2> QED BY <1>1, <1>2, <2>2, <2>3, CreateIsSubscribe
  <1>6. CASE PostRetried(r)
    <2> DEFINE s == NewSub(e, g, TRUE)
    <2>1. PICK i \in FreeIds(e), j \in FreeIds(e) :
            i # j /\ subs' = [subs EXCEPT ![e][i] = s, ![e][j] = s]
      BY <1>6 DEF PostRetried
    <2>2. s \in Made(e)
      BY <1>3
    <2> HIDE DEF s
    <2>3. \A x \in Endpoints, k \in SubIds :
            subs'[x][k] = IF x = e /\ k \in {i, j} THEN s ELSE subs[x][k]
      <3> DEFINE st == [[subs[e] EXCEPT ![i] = s] EXCEPT ![j] = s]
      <3>1. subs' = [subs EXCEPT ![e] = st]
        BY <1>1, <1>2, <1>4, <2>1
      <3> QED BY <1>1, <1>2, <1>4, <3>1
    <2> HIDE DEF e, g
    <2> QED BY <1>1, <1>2, <2>2, <2>3, CreateIsSubscribe
  <1>7. UNCHANGED subs \/ (\E b \in BOOLEAN : PostCreated(r, b)) \/ PostRetried(r)
    BY DEF Post, bmcVars
  <1> QED BY <1>5, <1>6, <1>7

\* Every step of a goroutine is one of the abstract store, or invisible.
LEMMA GoroutineRefines ==
  ASSUME TypeInv, OursInv, TypeInv', NEW p \in Procs, GoroutineStep(p)
  PROVE  BMC!Next \/ UNCHANGED subs
  <1>1. CASE PruneDelete(p) \/ DupPrune(p) \/ FixDelete(p)
    <2>1. proc[p].pc \in CurPcs /\ proc[p].pc # "idle" /\ proc[p].pc # "patch"
      BY <1>1 DEF PruneDelete, DupPrune, FixDelete, CurPcs
    <2>2. Ep(p) \in Endpoints /\ proc[p].cur \in SubIds
      BY <2>1, Running DEF FrameOK
    <2>3. LET sub == subs[Ep(p)][proc[p].cur] IN
            \/ sub = NoSub \/ OwnAddress(Ep(p), sub)
            \/ isSubscriptionForWrongXname(Ep(p), sub)
      BY <2>1 DEF OursInv, CurOurs, CurPcs
    <2>4. Delete(Ep(p), proc[p].cur) \/ UNCHANGED subs
      BY <1>1 DEF PruneDelete, DupPrune, FixDelete, bmcVars
    <2> QED BY <2>2, <2>3, <2>4, DeleteIsRemove
  <1>2. CASE DupPatch(p)
    BY <1>2, PatchIsMend
  <1>3. CASE p \in Recs /\ Post(p)
    BY <1>3, PostIsSubscribe
  <1>4. \/ PruneDelete(p) \/ DupPrune(p) \/ FixDelete(p)
        \/ DupPatch(p)
        \/ p \in Recs /\ Post(p)
        \/ UNCHANGED subs
    BY DEF GoroutineStep, Worker, Verifier, DupStep, PruneList, PruneGet,
       DupList, DupGet, WorkerReturn, GetEventTypes, AppendGroup, WorkerDone,
       VerifyRange, VerifierReturn, VerifierDone, bmcVars
  <1> QED BY <1>1, <1>2, <1>3, <1>4

\* What HSM, the BMCs and other services do.
LEMMA EnvironmentRefines ==
  ASSUME TypeInv, Environment
  PROVE  BMC!Next \/ UNCHANGED subs
  <1>1. PICK e \in Endpoints : HSMDiscover(e) \/ Replace(e) \/ ForeignSubscribe(e)
    BY DEF Environment
  <1>2. CASE HSMDiscover(e)
    BY <1>2 DEF HSMDiscover, bmcVars
  <1>3. CASE Replace(e)
    BY <1>3 DEF Replace, BMC!Replace, BMC!Next
  <1>4. CASE ForeignSubscribe(e)
    <2>1. PICK i \in FreeIds(e), s \in ForeignSubs :
            subs' = [subs EXCEPT ![e][i] = s]
      BY <1>4 DEF ForeignSubscribe, Create
    <2>2. BMC!ForeignSubscribe(e)
      BY <2>1 DEF FreeIds, BMC!ForeignSubscribe, BMC!Free
    <2> QED BY <2>2 DEF BMC!Next
  <1> QED BY <1>1, <1>2, <1>3, <1>4

\* A BMC that gives no id out twice sees a collector that only makes, mends
\* and removes what it may at that very moment, although its goroutines list,
\* read and change subscriptions in separate requests (rf_subscriptions.go
\* 80-347).
THEOREM StoreRefined ==
  ASSUME ~ReuseIds
  PROVE  Spec => StoreAsPromised
  <1>1. Init => BMC!Init
    BY DEF Init, BMC!Init
  <1>2. TypeInv /\ OursInv /\ TypeInv' /\ [Next]_vars => [BMC!Next]_subs
    <2> SUFFICES ASSUME TypeInv, OursInv, TypeInv', [Next]_vars
                 PROVE  BMC!Next \/ UNCHANGED subs
      OBVIOUS
    <2>1. CASE UNCHANGED vars
      BY <2>1 DEF vars, bmcVars
    <2>2. CASE Environment
      BY <2>2, EnvironmentRefines
    <2>3. CASE MainLoop
      BY <2>3 DEF MainLoop, Scan, ScanStart, ScanSkip, ScanQueue, ScanVerify,
         bmcVars
    <2>4. CASE SubRecv \/ VerifyDispatch
      BY <2>4, DispatchOurs DEF bmcVars
    <2>5. ASSUME NEW p \in Procs, GoroutineStep(p)
          PROVE  BMC!Next \/ UNCHANGED subs
      BY <2>5, GoroutineRefines
    <2> QED BY <2>1, <2>2, <2>3, <2>4, <2>5 DEF Next, GoroutineStep, Procs
  <1>3. Init => TypeInv /\ OursInv
    BY InitTypes, OursInit
  <1>4. TypeInv /\ OursInv /\ [Next]_vars => (TypeInv /\ OursInv)'
    BY NextTypes, OursNext
  <1>5. TypeInv /\ OursInv /\ [Next]_vars => [BMC!Next]_subs
    BY <1>2, NextTypes
  <1> QED BY <1>1, <1>3, <1>4, <1>5, PTL DEF Spec, StoreAsPromised, BMC!Spec
=============================================================================
