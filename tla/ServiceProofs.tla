---------------------------- MODULE ServiceProofs ----------------------------
(****************************************************************************)
(* Theorems about the service as a whole: what the proposal side does to    *)
(* the table marriages serves the ceremony side, and every ceremony is at   *)
(* the end of a chain that began with a proposal.                           *)
(****************************************************************************)
EXTENDS ServiceInvariant, MarriageProofs, FiniteSetTheorems

(* A step of the service is a step of the proposal side, or none of its     *)
(* business.                                                                *)
LEMMA CeremoniesReadOnly ==
    ASSUME C!Work
    PROVE  UNCHANGED <<now, marriages>>
  <1>1. ASSUME NEW w, C!Statement(w) PROVE UNCHANGED <<now, marriages>>
    BY <1>1 DEF C!Statement, C!LoadMarriage, C!InsertCeremony, C!LoadCeremony, C!SaveCeremony,
       C!Emit
  <1>2. ASSUME NEW w, C!Begin(w) PROVE UNCHANGED <<now, marriages>>
    BY <1>2 DEF C!Begin, C!BeginSchedule, C!BeginCommand, C!BeginAdvance, C!Enter
  <1>3. ASSUME NEW w, C!Abort(w) \/ C!CrashSweep(w) \/ C!SweepQuery(w) \/ C!SweepNext(w)
        PROVE  UNCHANGED <<now, marriages>>
    BY <1>3 DEF C!Abort, C!CrashSweep, C!SweepQuery, C!SweepNext
  <1> QED
    BY <1>1, <1>2, <1>3 DEF C!Work, C!SweepStep

LEMMA ProposalsGoOn == [ServiceNext]_serviceVars => [Next]_vars
  <1>1. CASE ProposalStep
    BY <1>1 DEF ProposalStep, Next
  <1>2. CASE CeremonyStep
    BY <1>2, CeremoniesReadOnly DEF CeremonyStep, proposalSide, vars
  <1>3. CASE ServiceTick
    BY <1>3 DEF ServiceTick, Next
  <1>4. CASE UNCHANGED serviceVars
    BY <1>4 DEF serviceVars, proposalSide, vars
  <1> QED
    BY <1>1, <1>2, <1>3, <1>4 DEF ServiceNext

LEMMA ProposalSideHolds == ServiceSpec => []IInv
  <1>1. ServiceSpec => Spec
    BY ProposalsGoOn, PTL DEF ServiceSpec, ServiceInit, Spec
  <1> QED
    BY <1>1, InvariantHolds, PTL

----------------------------------------------------------------------------
(* There is room for the marriages that are still to come.                  *)

AcceptLabels == {"loadProposal", "saveProposal", "createMarriage"}

(* A message handler is on its way to a marriage from the moment it takes   *)
(* up an acceptance.                                                        *)
LEMMA BegunAcceptance ==
    ASSUME TypeInv, NEW w \in Workers, Begin(w), w \in Committed'
    PROVE  /\ Len(marriages) + Cardinality(InFlight("accept")) < MaxMarriages
           /\ OnlyMoves(w) /\ UNCHANGED marriages
  <1>1. /\ pc \in [Processes -> Labels] /\ job \in [Processes -> Job] /\ w \in Processes
    BY DEF TypeInv, TypeOK, Processes
  <1>2. OnlyMoves(w) /\ UNCHANGED marriages
    BY WorkerStep, BeginTakesKey DEF StepOK, tables
  <1>3. job'[w].op = "accept" /\ pc'[w] \in AcceptLabels
    BY DEF Committed, AcceptLabels
  <1>4. ASSUME NEW label, NEW op, NEW c, NEW d, NEW i, NEW m,
               Enter(w, label, NewJob(op, c, d, i, m))
        PROVE  job'[w].op = op
    <2> DEFINE j == NewJob(op, c, d, i, m)
    <2>1. j.op = op
      BY DEF NewJob
    <2> HIDE DEF j
    <2> QED
      BY <1>1, <1>4, <2>1 DEF Enter, j
  <1>5. ~BeginPropose(w) /\ ~BeginDivorce(w) /\ ~BeginDelete(w)
    BY <1>3, <1>4 DEF BeginPropose, BeginDivorce, BeginDelete
  <1>6. BeginAnswer(w)
    BY <1>5 DEF Begin
  <1> QED
    BY <1>2, <1>3, <1>4, <1>6 DEF BeginAnswer

LEMMA CommittedBefore ==
    ASSUME TypeInv, [Next]_vars, NEW w \in Workers, w \in Committed'
    PROVE  w \in Committed \/ Begin(w)
  <1>1. /\ job'[w].op = "accept" /\ pc'[w] \in AcceptLabels /\ w \in Processes
        /\ pc \in [Processes -> Labels]
    BY DEF Committed, AcceptLabels, Processes, TypeInv, TypeOK
  <1>2. CASE Statement(w)
    <2>1. job[w].op = "accept"
      BY <1>1, <1>2, SameTask
    <2>2. pc[w] \in AcceptLabels
      BY <1>1, <1>2 DEF Statement, CheckStep, CheckProposerFree, CheckTargetFree,
         CheckNoneActive, CheckGlobalCooldown, CheckTargetCooldown, Check, Goto, Finish,
         InsertProposal, LoadProposal, SaveProposal, CreateMarriage, LoadMarriage,
         SaveMarriage, Emit, AcceptLabels
    <2> QED
      BY <2>1, <2>2 DEF Committed, AcceptLabels
  <1>3. CASE Abort(w)
    BY <1>1, <1>3 DEF Abort, Finish, Goto, AcceptLabels
  <1>4. CASE pc'[w] = pc[w] /\ job'[w] = job[w]
    BY <1>1, <1>4 DEF Committed, AcceptLabels
  <1> QED
    BY <1>2, <1>3, <1>4, MoverOrNot

LEMMA CommittedIsFinite ==
    ASSUME IsFiniteSet(Workers)
    PROVE  /\ IsFiniteSet(Committed) /\ Cardinality(Committed) \in Nat
           /\ IsFiniteSet(InFlight("accept")) /\ Cardinality(InFlight("accept")) \in Nat
           /\ IsFiniteSet(Committed') /\ Cardinality(Committed') \in Nat
  <1>1. Committed \subseteq Workers /\ Committed' \subseteq Workers
    BY DEF Committed
  <1>2. InFlight("accept") \subseteq Workers
    BY DEF InFlight
  <1> QED
    BY <1>1, <1>2, FS_Subset, FS_CardinalityType

LEMMA SameLength ==
    ASSUME NEW a \in Nat, NEW b \in Nat, 1..a = 1..b
    PROVE  a = b
  <1>1. (a > 0 => a \in 1..a) /\ (b > 0 => b \in 1..b)
    OBVIOUS
  <1>2. (a > 0 => a \in 1..b) /\ (b > 0 => b \in 1..a)
    BY <1>1
  <1> QED
    BY <1>2

LEMMA OneLonger ==
    ASSUME NEW a \in Nat, NEW b \in Nat, 1..a = 1..b \cup {b + 1}
    PROVE  a = b + 1
  <1>1. 1..(b + 1) = 1..b \cup {b + 1}
    OBVIOUS
  <1>2. b + 1 \in Nat /\ 1..a = 1..(b + 1)
    BY <1>1
  <1> QED
    BY <1>2, SameLength

LEMMA NextKeepsMarriageRoom ==
    ASSUME IsFiniteSet(Workers), TypeInv, RegisterInv, MarriageRoom, [Next]_vars
    PROVE  MarriageRoom'
  <1> DEFINE n == Cardinality(Committed)
  <1>1. /\ Len(marriages) \in Nat /\ Len(marriages') \in Nat /\ MaxMarriages \in Nat
        /\ DOMAIN marriages = 1..Len(marriages) /\ DOMAIN marriages' = 1..Len(marriages')
        /\ Len(marriages) + n <= MaxMarriages
    BY NextKeepsTypeInv, LenProperties, BoundsAreNat DEF TypeInv, TypeOK, MarriageRoom
  <1>2. ASSUME NEW w \in Processes, CreateMarriage(w) PROVE MarriageRoom'
    <2>1. /\ pc[w] = "createMarriage" /\ job[w].op = "accept" /\ OnlyMoves(w)
          /\ Len(marriages') = Len(marriages) + 1
      <3>1. DOMAIN marriages' = DOMAIN marriages \cup {Len(marriages) + 1}
        BY <1>2, CreationAppends
      <3>2. Len(marriages') = Len(marriages) + 1
        BY <1>1, <3>1, OneLonger
      <3> QED
        BY <1>2, <3>2, CreationAppends DEF CreateMarriage
    <2>2. w \in Workers /\ w \in Committed
      BY <2>1 DEF TypeInv, SweepersOK, Processes, Committed
    <2>3. pc'[w] = "saveMarriage"
      BY <1>2 DEF CreateMarriage, Goto, TypeInv, TypeOK
    <2>4. Committed' \subseteq Committed \ {w}
      BY <2>1, <2>3 DEF OnlyMoves, Committed, Processes
    <2>5. /\ IsFiniteSet(Committed \ {w}) /\ Cardinality(Committed \ {w}) = n - 1
      BY <2>2, CommittedIsFinite, FS_RemoveElement
    <2>6. Cardinality(Committed') <= n - 1
      BY <2>4, <2>5, FS_Subset
    <2> QED
      BY <1>1, <2>1, <2>6, CommittedIsFinite DEF MarriageRoom
  <1>3. ASSUME NEW w \in Workers, Begin(w), w \in Committed' PROVE MarriageRoom'
    <2> DEFINE F == InFlight("accept")
    <2>1. Len(marriages) + Cardinality(F) < MaxMarriages /\ OnlyMoves(w) /\ UNCHANGED marriages
      BY <1>3, BegunAcceptance
    <2>2. Committed' \subseteq F \cup {w}
      BY <2>1 DEF OnlyMoves, Committed, InFlight, Processes
    <2>3. /\ IsFiniteSet(F \cup {w}) /\ Cardinality(F \cup {w}) <= Cardinality(F) + 1
      <3>1. IsFiniteSet(F) /\ Cardinality(F) \in Nat
        BY CommittedIsFinite
      <3> HIDE DEF F
      <3> QED
        BY <3>1, FS_AddElement
    <2>4. Cardinality(Committed') <= Cardinality(F) + 1
      BY <2>2, <2>3, FS_Subset, CommittedIsFinite, FS_CardinalityType
    <2> QED
      BY <1>1, <2>1, <2>4, CommittedIsFinite DEF MarriageRoom
  <1>4. ASSUME Committed' \subseteq Committed, DOMAIN marriages' = DOMAIN marriages
        PROVE  MarriageRoom'
    <2>1. Cardinality(Committed') <= n
      BY <1>4, CommittedIsFinite, FS_Subset
    <2>2. Len(marriages') = Len(marriages)
      BY <1>1, <1>4, SameLength
    <2> QED
      BY <1>1, <2>1, <2>2, CommittedIsFinite DEF MarriageRoom
  <1>5. \/ \E w \in Processes : CreateMarriage(w)
        \/ DOMAIN marriages' = DOMAIN marriages
    BY SaveUpdates, OnlyTheseMarry
  <1>6. \/ \E w \in Workers : Begin(w) /\ w \in Committed'
        \/ Committed' \subseteq Committed
    BY CommittedBefore DEF Committed
  <1> QED
    BY <1>2, <1>3, <1>4, <1>5, <1>6

LEMMA MarriageRoomHolds == ASSUME IsFiniteSet(Workers) PROVE ServiceSpec => []MarriageRoom
  <1>1. ServiceInit => MarriageRoom
    <2>1. ServiceInit => Committed = {}
      BY DEF ServiceInit, Init, Committed, Processes
    <2>2. ServiceInit => Len(marriages) = 0
      BY EmptySeq DEF ServiceInit, Init
    <2> QED
      BY <2>1, <2>2, FS_EmptySet, BoundsAreNat DEF MarriageRoom
  <1>2. IInv /\ MarriageRoom /\ [ServiceNext]_serviceVars => MarriageRoom'
    BY ProposalsGoOn, NextKeepsMarriageRoom DEF IInv
  <1> QED
    BY <1>1, <1>2, ProposalSideHolds, PTL DEF ServiceSpec

----------------------------------------------------------------------------
(* The proposal side serves the ceremony side.                              *)

LEMMA OneRegister ==
    /\ Register!Propose => C!Register!Propose
    /\ Register!Engage => C!Register!Engage
    /\ Register!Divorce => C!Register!Divorce
  BY Zenon DEF Register!Propose, C!Register!Propose, Register!Engage, C!Register!Engage,
     Register!Divorce, C!Register!Divorce, Register!Move, C!Register!Move, Couples

LEMMA ProposalsServe ==
    ASSUME TypeInv, RegisterInv, MarriageRoom', IsFiniteSet(Workers), ProposalStep
    PROVE  C!MarriagesMove \/ UNCHANGED C!vars
  <1>1. Work /\ [Next]_vars /\ UNCHANGED ceremonySide
    BY DEF ProposalStep, Next
  <1>2. UNCHANGED <<now, ceremonies, announced, ceremonyPc, ceremonyJob, ceremonyTodo,
                    ceremonyFaults>>
    BY <1>1, WorkTakesNoTime DEF ceremonySide
  <1>3. C!Register!Next \/ UNCHANGED marriages
    <2>1. ASSUME NEW w \in Processes, CreateMarriage(w) PROVE C!Register!Next
      BY <2>1, CreationProposes, OneRegister DEF C!Register!Next
    <2>2. ASSUME NEW w \in Processes, SaveMarriage(w)
          PROVE  C!Register!Next \/ UNCHANGED marriages
      BY <2>2, SaveEngagesOrDivorces, OneRegister DEF C!Register!Next
    <2> QED
      BY <1>1, <2>1, <2>2, OnlyTheseMarry
  <1>4. Len(marriages') <= MaxMarriages
    <2>1. Len(marriages') \in Nat /\ MaxMarriages \in Nat
      BY <1>1, NextKeepsTypeInv, LenProperties, BoundsAreNat DEF TypeInv, TypeOK
    <2> QED
      BY <2>1, CommittedIsFinite DEF MarriageRoom
  <1> QED
    BY <1>2, <1>3, <1>4 DEF C!MarriagesMove, C!vars

(* The marriages that the ceremony side finds behave as it takes them to,   *)
(* however acceptances, divorces, deletions and failures on the proposal    *)
(* side interleave: Ceremonies is what the service makes of its marriages.  *)
THEOREM ProposalsServeCeremonies ==
    ASSUME IsFiniteSet(Workers)
    PROVE  ServiceSpec => CeremoniesAreServed
  <1>1. ServiceInit => C!Init
    BY DEF ServiceInit
  <1>2. IInv /\ MarriageRoom' /\ [ServiceNext]_serviceVars => [C!Next]_(C!vars)
    <2>1. CASE ServiceTick
      BY <2>1 DEF ServiceTick, C!Next
    <2>2. CASE CeremonyStep
      BY <2>2 DEF CeremonyStep, C!Next
    <2>3. CASE UNCHANGED serviceVars
      BY <2>3 DEF serviceVars, ceremonySide, C!vars
    <2> QED
      BY <2>1, <2>2, <2>3, ProposalsServe DEF IInv, ServiceNext, C!Next
  <1> QED
    BY <1>1, <1>2, ProposalSideHolds, MarriageRoomHolds, PTL
    DEF ServiceSpec, CeremoniesAreServed, C!Spec

----------------------------------------------------------------------------
(* The couples the ceremony side holds.                                     *)

LEMMA FreshJobs ==
    /\ \A op, i, guest :
          LET j == C!NewJob(op, i, guest) IN DOMAIN j = JobFields /\ j.cid = i
    /\ \A m, guests :
          LET j == C!ScheduleJob(m, guests) IN DOMAIN j = JobFields /\ j.marriage = m
  BY DEF C!NewJob, C!ScheduleJob, JobFields

(* A process of the ceremony side that goes where `label` says, with job j. *)
Serves(w, label, j) ==
    /\ ceremonyPc' = [ceremonyPc EXCEPT ![w] = label]
    /\ ceremonyJob' = [ceremonyJob EXCEPT ![w] = j]

LEMMA OnlyOneServes ==
    ASSUME Shaped, NEW w \in C!Processes, NEW label, NEW j, DOMAIN j = JobFields,
           Serves(w, label, j)
    PROVE  /\ DOMAIN ceremonyPc' = C!Processes /\ DOMAIN ceremonyJob' = C!Processes
           /\ \A v \in C!Processes : DOMAIN ceremonyJob'[v] = JobFields
           /\ ceremonyPc'[w] = label /\ ceremonyJob'[w] = j
           /\ \A v \in C!Processes \ {w} :
                ceremonyPc'[v] = ceremonyPc[v] /\ ceremonyJob'[v] = ceremonyJob[v]
  BY DEF Shaped, Serves

(* What such a step has to show.                                            *)
LEMMA ServingKeepsCouples ==
    ASSUME Shaped, CouplesHeld, NEW w \in C!Processes, NEW label, NEW j, DOMAIN j = JobFields,
           Serves(w, label, j), UNCHANGED marriages,
           ceremonies' \in Seq(RowsOf(ceremonies')), DOMAIN ceremonies \subseteq DOMAIN ceremonies',
           \A k \in DOMAIN ceremonies' : Wed(ceremonies'[k]),
           DOMAIN ceremonyTodo' = CeremonySweepers,
           \A s \in CeremonySweepers : ceremonyTodo'[s] \subseteq DOMAIN ceremonies,
           label = "loadMarriage" => j.marriage \in DOMAIN marriages,
           label = "insert" => Wed(j),
           label \in {"loadCeremony", "saveCeremony"} => j.cid \in DOMAIN ceremonies,
           label = "saveCeremony" => Wed(j.draft)
    PROVE  Shaped' /\ CouplesHeld'
  <1>1. Shaped'
    BY OnlyOneServes DEF Shaped, RowsOf
  <1>2. \A c : Wed(c) => Wed(c)'
    BY DEF Wed
  <1>3. \A v \in C!Processes : CoupleHeld(v)'
    <2> SUFFICES ASSUME NEW v \in C!Processes PROVE CoupleHeld(v)'
      OBVIOUS
    <2>1. CASE v = w
      BY <1>2, <2>1, OnlyOneServes DEF CoupleHeld
    <2>2. CASE v # w
      <3>1. ceremonyPc'[v] = ceremonyPc[v] /\ ceremonyJob'[v] = ceremonyJob[v]
        BY <2>2, OnlyOneServes
      <3>2. CoupleHeld(v)
        BY DEF CouplesHeld
      <3> QED
        BY <1>2, <3>1, <3>2 DEF CoupleHeld
    <2> QED
      BY <2>1, <2>2
  <1>4. \A k \in DOMAIN ceremonies' : Wed(ceremonies[k])'
    BY <1>2 DEF Wed
  <1> QED
    BY <1>1, <1>3, <1>4 DEF CouplesHeld, C!Processes

(* Nothing is asked of a step that writes no ceremony and ends a job.       *)
LEMMA FinishServes ==
    ASSUME NEW w, C!Finish(w)
    PROVE  Serves(w, "idle", C!NoJob) /\ DOMAIN C!NoJob = JobFields
  BY FreshJobs DEF C!Finish, C!Goto, C!NoJob, Serves

LEMMA CeremoniesKept ==
    ASSUME Shaped, CouplesHeld, UNCHANGED ceremonies
    PROVE  /\ ceremonies' \in Seq(RowsOf(ceremonies'))
           /\ DOMAIN ceremonies \subseteq DOMAIN ceremonies'
           /\ \A k \in DOMAIN ceremonies' : Wed(ceremonies'[k])
  BY DEF Shaped, CouplesHeld, RowsOf

LEMMA TodoKept ==
    ASSUME Shaped, CouplesHeld, UNCHANGED ceremonyTodo
    PROVE  /\ DOMAIN ceremonyTodo' = CeremonySweepers
           /\ \A s \in CeremonySweepers : ceremonyTodo'[s] \subseteq DOMAIN ceremonies
  BY DEF Shaped, CouplesHeld

LEMMA EnterServes ==
    ASSUME Shaped, CouplesHeld, NEW w \in C!Processes, NEW label, NEW j, C!Enter(w, label, j),
           DOMAIN j = JobFields,
           \/ label = "loadMarriage" /\ j.marriage \in DOMAIN marriages
           \/ label = "loadCeremony" /\ j.cid \in DOMAIN ceremonies
    PROVE  Shaped' /\ CouplesHeld'
  <1>1. Serves(w, label, j) /\ UNCHANGED <<marriages, ceremonies, ceremonyTodo>>
    BY DEF C!Enter, C!Goto, Serves
  <1> QED
    BY <1>1, CeremoniesKept, TodoKept, ServingKeepsCouples

LEMMA BeginServes ==
    ASSUME Shaped, CouplesHeld, NEW w \in C!Processes, C!Begin(w)
    PROVE  Shaped' /\ CouplesHeld'
  <1>1. CASE C!BeginSchedule(w)
    <2>1. PICK m \in DOMAIN marriages, guests \in InviteeLists :
              C!Enter(w, "loadMarriage", C!ScheduleJob(m, guests))
      BY <1>1 DEF C!BeginSchedule
    <2> QED
      BY <2>1, FreshJobs, EnterServes
  <1>2. ASSUME NEW i \in DOMAIN ceremonies, NEW op, NEW guest,
               C!Enter(w, "loadCeremony", C!NewJob(op, i, guest))
        PROVE  Shaped' /\ CouplesHeld'
    BY <1>2, FreshJobs, EnterServes
  <1> QED
    BY <1>1, <1>2 DEF C!Begin, C!BeginCommand, C!BeginAdvance

LEMMA LoadMarriageServes ==
    ASSUME Shaped, CouplesHeld, NEW w \in C!Processes, C!LoadMarriage(w)
    PROVE  Shaped' /\ CouplesHeld'
  <1> DEFINE m == marriages[ceremonyJob[w].marriage]
             j == [ceremonyJob[w] EXCEPT !.couple = C!Register!Partners(m)]
  <1>1. /\ ceremonyPc[w] = "loadMarriage"
        /\ UNCHANGED <<marriages, ceremonies, ceremonyTodo>>
    BY DEF C!LoadMarriage
  <1>2. ceremonyJob[w].marriage \in DOMAIN marriages /\ DOMAIN ceremonyJob[w] = JobFields
    BY <1>1 DEF CouplesHeld, CoupleHeld, Shaped
  <1>3. CASE m.status = "engaged"
    <2>1. Serves(w, "insert", j)
      BY <1>3, Zenon DEF C!LoadMarriage, C!Goto, Serves
    <2>2. /\ DOMAIN j = JobFields /\ j.marriage = ceremonyJob[w].marriage
          /\ j.couple = C!Register!Partners(m)
      BY <1>2 DEF JobFields
    <2>3. Wed(j)
      BY <1>2, <1>3, <2>2 DEF Wed
    <2> HIDE DEF j
    <2> QED
      BY <1>1, <2>1, <2>2, <2>3, CeremoniesKept, TodoKept, ServingKeepsCouples
  <1>4. CASE C!Finish(w)
    BY <1>1, <1>4, FinishServes, CeremoniesKept, TodoKept, ServingKeepsCouples
  <1> QED
    BY <1>3, <1>4 DEF C!LoadMarriage

LEMMA InsertCeremonyServes ==
    ASSUME Shaped, CouplesHeld, NEW w \in C!Processes, C!InsertCeremony(w)
    PROVE  Shaped' /\ CouplesHeld'
  <1> DEFINE c == C!NewCeremony(ceremonyJob[w])
             j == [ceremonyJob[w] EXCEPT !.cid = Len(ceremonies) + 1]
  <1>1. /\ ceremonyPc[w] = "insert" /\ ceremonies' = Append(ceremonies, c)
        /\ UNCHANGED <<marriages, ceremonyTodo>>
    BY DEF C!InsertCeremony
  <1>2. Wed(ceremonyJob[w]) /\ DOMAIN ceremonyJob[w] = JobFields
    BY <1>1 DEF CouplesHeld, CoupleHeld, Shaped
  <1>3. c.marriage = ceremonyJob[w].marriage /\ c.couple = ceremonyJob[w].couple
    BY DEF C!NewCeremony
  <1>4. Wed(c)
    BY <1>2, <1>3 DEF Wed
  <1>5. DOMAIN j = JobFields
    BY <1>2
  <1>6. Serves(w, "emit", j) \/ C!Finish(w)
    BY DEF C!InsertCeremony, C!Goto, Serves
  <1> HIDE DEF c, j
  <1>7. /\ ceremonies' \in Seq(RowsOf(ceremonies')) /\ DOMAIN ceremonies \subseteq DOMAIN ceremonies'
        /\ \A k \in DOMAIN ceremonies' : Wed(ceremonies'[k])
    BY <1>1, <1>4, AnyAppended DEF Shaped, CouplesHeld, RowsOf
  <1> QED
    BY <1>1, <1>5, <1>6, <1>7, FinishServes, TodoKept, ServingKeepsCouples

LEMMA LoadCeremonyServes ==
    ASSUME Shaped, CouplesHeld, NEW w \in C!Processes, C!LoadCeremony(w)
    PROVE  Shaped' /\ CouplesHeld'
  <1> DEFINE c == ceremonies[ceremonyJob[w].cid]
             d == C!Transformed(ceremonyJob[w], c)
             j == [ceremonyJob[w] EXCEPT !.draft = d]
  <1>1. /\ ceremonyPc[w] = "loadCeremony"
        /\ UNCHANGED <<marriages, ceremonies, ceremonyTodo>>
    BY DEF C!LoadCeremony
  <1>2. ceremonyJob[w].cid \in DOMAIN ceremonies /\ DOMAIN ceremonyJob[w] = JobFields
    BY <1>1 DEF CouplesHeld, CoupleHeld, Shaped
  <1>3. d.marriage = c.marriage /\ d.couple = c.couple
    BY DEF C!Transformed
  <1>4. Wed(d)
    BY <1>2, <1>3 DEF CouplesHeld, Wed
  <1>5. Serves(w, "saveCeremony", j) \/ C!Finish(w)
    BY DEF C!LoadCeremony, C!Goto, Serves
  <1> HIDE DEF d
  <1>6. DOMAIN j = JobFields /\ j.draft = d /\ j.cid = ceremonyJob[w].cid
    BY <1>2 DEF JobFields
  <1> HIDE DEF j
  <1> QED
    BY <1>1, <1>2, <1>4, <1>5, <1>6, FinishServes, CeremoniesKept, TodoKept, ServingKeepsCouples

LEMMA SaveCeremonyServes ==
    ASSUME Shaped, CouplesHeld, NEW w \in C!Processes, C!SaveCeremony(w)
    PROVE  Shaped' /\ CouplesHeld'
  <1> DEFINE j == ceremonyJob[w]
  <1>1. /\ ceremonyPc[w] = "saveCeremony" /\ ceremonies' = [ceremonies EXCEPT ![j.cid] = j.draft]
        /\ UNCHANGED <<marriages, ceremonyJob, ceremonyTodo>>
        /\ ceremonyPc' = [ceremonyPc EXCEPT ![w] = "emit"]
    BY DEF C!SaveCeremony, C!Goto
  <1>2. j.cid \in DOMAIN ceremonies /\ Wed(j.draft)
    BY <1>1 DEF CouplesHeld, CoupleHeld
  <1>3. /\ ceremonies' \in Seq(RowsOf(ceremonies')) /\ DOMAIN ceremonies' = DOMAIN ceremonies
        /\ \A k \in DOMAIN ceremonies' : Wed(ceremonies'[k])
    <2>1. ceremonies \in Seq(RowsOf(ceremonies)) /\ \A k \in DOMAIN ceremonies : Wed(ceremonies[k])
      BY DEF Shaped, CouplesHeld, RowsOf
    <2> DEFINE d == j.draft
               u == [ceremonies EXCEPT ![j.cid] = d]
    <2>2. u \in Seq(RowsOf(u)) /\ DOMAIN u = DOMAIN ceremonies
          /\ \A i \in DOMAIN u : u[i] = IF i = j.cid THEN d ELSE ceremonies[i]
      <3> HIDE DEF d
      <3> QED
        BY <1>2, <2>1, AnyUpdated
    <2>3. ceremonies' = u
      BY <1>1
    <2> HIDE DEF u
    <2> QED
      BY <1>2, <2>1, <2>2, <2>3
  <1>4. Shaped'
    BY <1>1, <1>3 DEF Shaped, RowsOf
  <1>5. \A c : Wed(c) => Wed(c)'
    BY <1>1 DEF Wed
  <1>6. ASSUME NEW v \in C!Processes PROVE CoupleHeld(v)'
    <2>1. v = w => ceremonyPc'[v] = "emit"
      BY <1>1 DEF Shaped
    <2>2. v # w => ceremonyPc'[v] = ceremonyPc[v]
      BY <1>1 DEF Shaped
    <2> QED
      BY <1>1, <1>3, <1>5, <2>1, <2>2 DEF CouplesHeld, CoupleHeld
  <1>7. \A k \in DOMAIN ceremonies' : Wed(ceremonies[k])'
    BY <1>1, <1>3 DEF Wed
  <1> QED
    BY <1>1, <1>3, <1>4, <1>6, <1>7 DEF CouplesHeld, C!Processes

LEMMA SweepServes ==
    ASSUME Shaped, CouplesHeld, NEW s \in CeremonySweepers, C!SweepQuery(s) \/ C!SweepNext(s)
    PROVE  Shaped' /\ CouplesHeld'
  <1>1. CASE C!SweepQuery(s)
    <2>1. /\ ceremonyTodo' = [ceremonyTodo EXCEPT ![s] = C!TimeoutCeremonies]
          /\ UNCHANGED <<marriages, ceremonies, ceremonyPc, ceremonyJob>>
      BY <1>1 DEF C!SweepQuery
    <2>2. C!TimeoutCeremonies \subseteq DOMAIN ceremonies
      BY DEF C!TimeoutCeremonies
    <2>3. /\ DOMAIN ceremonyTodo' = CeremonySweepers
          /\ \A t \in CeremonySweepers : ceremonyTodo'[t] \subseteq DOMAIN ceremonies
      BY <2>1, <2>2 DEF Shaped, CouplesHeld
    <2>4. Shaped'
      BY <2>1, <2>3 DEF Shaped
    <2>5. CouplesHeld'
      BY <2>1, <2>3 DEF CouplesHeld, CoupleHeld, Wed
    <2> QED
      BY <2>4, <2>5
  <1>2. CASE C!SweepNext(s)
    <2>1. PICK i \in ceremonyTodo[s] :
              /\ ceremonyTodo' = [ceremonyTodo EXCEPT ![s] = @ \ {i}]
              /\ ceremonyJob' = [ceremonyJob EXCEPT ![s] = C!NewJob("postpone", i, NoOne)]
              /\ C!Goto(s, "loadCeremony") /\ UNCHANGED <<marriages, ceremonies>>
      BY <1>2 DEF C!SweepNext
    <2> DEFINE j == C!NewJob("postpone", i, NoOne)
    <2>2. DOMAIN j = JobFields /\ j.cid = i /\ i \in DOMAIN ceremonies
      BY FreshJobs DEF CouplesHeld
    <2>3. Serves(s, "loadCeremony", j)
      BY <2>1 DEF C!Goto, Serves
    <2>4. /\ DOMAIN ceremonyTodo' = CeremonySweepers
          /\ \A t \in CeremonySweepers : ceremonyTodo'[t] \subseteq DOMAIN ceremonies
      BY <2>1 DEF Shaped, CouplesHeld
    <2> HIDE DEF j
    <2> QED
      BY <2>1, <2>2, <2>3, <2>4, CeremoniesKept, ServingKeepsCouples DEF C!Processes
  <1> QED
    BY <1>1, <1>2

LEMMA StopServes ==
    ASSUME Shaped, CouplesHeld, NEW w \in C!Processes,
           \/ C!Emit(w) \/ C!Abort(w)
           \/ w \in CeremonySweepers /\ C!CrashSweep(w)
    PROVE  Shaped' /\ CouplesHeld'
  <1>1. C!Finish(w) /\ UNCHANGED <<marriages, ceremonies>>
    BY DEF C!Emit, C!Abort, C!CrashSweep
  <1>2. /\ DOMAIN ceremonyTodo' = CeremonySweepers
        /\ \A t \in CeremonySweepers : ceremonyTodo'[t] \subseteq DOMAIN ceremonies
    BY DEF C!Emit, C!Abort, C!CrashSweep, Shaped, CouplesHeld
  <1> QED
    BY <1>1, <1>2, FinishServes, CeremoniesKept, ServingKeepsCouples

LEMMA CeremonyWorkKeepsCouples ==
    ASSUME Shaped, CouplesHeld, C!Work
    PROVE  Shaped' /\ CouplesHeld'
  <1>1. ASSUME NEW w \in C!Processes, C!Statement(w) PROVE Shaped' /\ CouplesHeld'
    BY <1>1, LoadMarriageServes, InsertCeremonyServes, LoadCeremonyServes, SaveCeremonyServes,
       StopServes DEF C!Statement
  <1> QED
    BY <1>1, BeginServes, SweepServes, StopServes DEF C!Work, C!SweepStep, C!Processes

(* What the proposal side does meanwhile: a couple that got as far as the   *)
(* engagement stays that couple.                                            *)
LEMMA EngagedStays ==
    ASSUME TypeInv, RegisterInv, [Next]_vars, NEW c, Wed(c)
    PROVE  Wed(c)'
  <1> DEFINE m == c.marriage
  <1>1. /\ m \in DOMAIN marriages /\ c.couple = C!Register!Partners(marriages[m])
        /\ marriages[m].status \in {"engaged", "divorced"}
    BY DEF Wed
  <1>2. /\ m \in DOMAIN marriages' /\ marriages'[m].status # "proposed"
        /\ marriages'[m].partner1 = marriages[m].partner1
        /\ marriages'[m].partner2 = marriages[m].partner2
    BY <1>1, StatusesStay, PartnersStay
  <1>3. marriages'[m] \in Register!Row
    BY <1>2, RowsStayRegistered
  <1>4. marriages'[m].status \in {"engaged", "divorced"}
    BY <1>2, <1>3 DEF Register!Row
  <1> QED
    BY <1>1, <1>2, <1>4 DEF Wed, C!Register!Partners

LEMMA ProposalStepKeepsCouples ==
    ASSUME TypeInv, RegisterInv, Shaped, CouplesHeld, [Next]_vars, UNCHANGED ceremonySide
    PROVE  Shaped' /\ CouplesHeld'
  <1>1. UNCHANGED <<ceremonies, ceremonyPc, ceremonyJob, ceremonyTodo>>
    BY DEF ceremonySide
  <1>2. Shaped'
    BY <1>1 DEF Shaped
  <1>3. \A c : Wed(c) => Wed(c)'
    BY EngagedStays
  <1>4. DOMAIN marriages \subseteq DOMAIN marriages'
    BY NextKeepsTypeInv DEF TablesGrow
  <1>5. ASSUME NEW v \in C!Processes PROVE CoupleHeld(v)'
    <2>1. CoupleHeld(v)
      BY DEF CouplesHeld
    <2> QED
      BY <1>1, <1>3, <1>4, <2>1 DEF CoupleHeld
  <1>6. ASSUME NEW k \in DOMAIN ceremonies' PROVE Wed(ceremonies[k])'
    <2>1. Wed(ceremonies[k]) /\ ceremonies'[k] = ceremonies[k]
      BY <1>1 DEF CouplesHeld
    <2> QED
      BY <1>1, <1>3, <2>1 DEF Wed
  <1> QED
    BY <1>1, <1>2, <1>5, <1>6 DEF CouplesHeld, C!Processes

LEMMA ServiceNextKeepsCouples ==
    ASSUME TypeInv, RegisterInv, Shaped, CouplesHeld, [ServiceNext]_serviceVars
    PROVE  Shaped' /\ CouplesHeld'
  <1>1. [Next]_vars
    BY ProposalsGoOn
  <1>2. CASE CeremonyStep
    BY <1>2, CeremonyWorkKeepsCouples DEF CeremonyStep
  <1>3. CASE UNCHANGED ceremonySide
    BY <1>1, <1>3, ProposalStepKeepsCouples
  <1>4. ServiceTick => UNCHANGED ceremonySide
    BY DEF ServiceTick, C!Tick, ceremonySide
  <1> QED
    BY <1>2, <1>3, <1>4 DEF ServiceNext, ProposalStep, serviceVars

LEMMA InitCouples == ServiceInit => Shaped /\ CouplesHeld
  <1> SUFFICES ASSUME ServiceInit PROVE Shaped /\ CouplesHeld
    OBVIOUS
  <1>1. /\ ceremonies = << >> /\ ceremonyPc = [w \in C!Processes |-> "idle"]
        /\ ceremonyJob = [w \in C!Processes |-> C!NoJob]
        /\ ceremonyTodo = [s \in CeremonySweepers |-> {}]
    BY DEF ServiceInit, C!Init
  <1>2. DOMAIN C!NoJob = JobFields
    BY FreshJobs DEF C!NoJob
  <1>3. ceremonies \in Seq({}) /\ DOMAIN ceremonies = {}
    BY <1>1, EmptySeq
  <1>4. ceremonies \in Seq(RowsOf(ceremonies))
    BY <1>3, OwnRows
  <1> QED
    BY <1>1, <1>2, <1>3, <1>4 DEF Shaped, CouplesHeld, CoupleHeld, RowsOf

LEMMA CouplesHeldHolds == ServiceSpec => [](Shaped /\ CouplesHeld)
  <1>1. IInv /\ Shaped /\ CouplesHeld /\ [ServiceNext]_serviceVars => Shaped' /\ CouplesHeld'
    BY ServiceNextKeepsCouples DEF IInv
  <1> QED
    BY <1>1, InitCouples, ProposalSideHolds, PTL DEF ServiceSpec

(* The invariant behind the two theorems about the service as a whole: no   *)
(* more marriages than there is room for, whatever acceptances are on their *)
(* way, and on the ceremony side no couple, in a row or in the memory of a  *)
(* handler, that did not get as far as its engagement.                      *)
THEOREM ServiceInvariantHolds ==
    ASSUME IsFiniteSet(Workers)
    PROVE  ServiceSpec => []ServiceInv
  BY MarriageRoomHolds, CouplesHeldHolds, PTL DEF ServiceInv

(* No ceremony without a proposal: whoever holds a ceremony was engaged to  *)
(* each other and nobody else, after one of the two had proposed to the     *)
(* other and the proposal had been settled; and that stays so while         *)
(* divorces, deletions and further proposals go on.                         *)
THEOREM CeremoniesWereProposed == ServiceSpec => []CeremoniesComeFromProposals
  <1>1. IInv /\ CouplesHeld => CeremoniesComeFromProposals
    <2> SUFFICES ASSUME OriginInv, CouplesHeld, NEW k \in DOMAIN ceremonies
                 PROVE  /\ marriages[ceremonies[k].marriage].status \in {"engaged", "divorced"}
                        /\ \E i \in DOMAIN proposals :
                              /\ ceremonies[k].couple = {proposals[i].proposer, proposals[i].target}
                              /\ Cardinality(ceremonies[k].couple) = 2
                              /\ proposals[i].status # "pending"
      BY DEF IInv, CeremoniesComeFromProposals
    <2> DEFINE m == ceremonies[k].marriage
    <2>1. /\ m \in DOMAIN marriages /\ marriages[m].status \in {"engaged", "divorced"}
          /\ ceremonies[k].couple = {marriages[m].partner1, marriages[m].partner2}
      BY DEF CouplesHeld, Wed, C!Register!Partners
    <2>2. PICK i \in DOMAIN proposals :
              /\ proposals[i].proposer = marriages[m].partner1
              /\ proposals[i].target = marriages[m].partner2
              /\ proposals[i].proposer # proposals[i].target
              /\ proposals[i].status # "pending"
      BY <2>1 DEF OriginInv, MarriagesComeFromProposals
    <2>3. ASSUME NEW c, NEW d, c # d PROVE Cardinality({c, d}) = 2
      <3>1. IsFiniteSet({c}) /\ Cardinality({c}) = 1
        BY FS_Singleton
      <3>2. Cardinality({c} \cup {d}) = 1 + 1
        BY <2>3, <3>1, FS_AddElement
      <3>3. {c, d} = {c} \cup {d}
        OBVIOUS
      <3> QED
        BY <3>2, <3>3
    <2>4. /\ ceremonies[k].couple = {proposals[i].proposer, proposals[i].target}
          /\ Cardinality({proposals[i].proposer, proposals[i].target}) = 2
      BY <2>1, <2>2, <2>3
    <2> QED
      BY <2>1, <2>2, <2>4
  <1> QED
    BY <1>1, ProposalSideHolds, CouplesHeldHolds, PTL
=============================================================================
