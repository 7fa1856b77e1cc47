---------------------------- MODULE MarriageProofs ----------------------------
(****************************************************************************)
(* Theorems about the table marriages and the event topic: Proposals        *)
(* implements MarriageRegister, every marriage comes from a settled         *)
(* proposal, and whatever was published is in the tables.                   *)
(****************************************************************************)
EXTENDS ProposalProofs

StandsStill(w) == pc'[w] = pc[w] /\ job'[w] = job[w]

(* A process moves by a statement, or to where a handler begins or ends.    *)
LEMMA MovesByStatement ==
    ASSUME TypeInv, [Next]_vars, NEW w \in Processes
    PROVE  \/ StandsStill(w) \/ Statement(w)
           \/ pc'[w] \in {"idle", "proposerFree", "loadProposal", "loadMarriage"}
  <1>1. pc \in [Processes -> Labels]
    BY DEF TypeInv, TypeOK
  <1>2. Finish(w) => pc'[w] = "idle"
    BY <1>1 DEF Finish, Goto
  <1>3. CASE w \in Workers
    BY <1>2, <1>3, MoverOrNot, BeginTakesKey DEF Abort, StandsStill
  <1>4. CASE w \in Sweepers
    <2>1. SweepNext(w) => pc'[w] = "loadProposal"
      BY <1>1 DEF SweepNext, Goto
    <2> QED
      BY <1>2, <1>4, <2>1, SweeperMovesOrNot DEF SweepQuery, Abort, CrashSweep, StandsStill
  <1> QED
    BY <1>3, <1>4 DEF Processes

(* Where a statement leads.                                                 *)
LEMMA StatementLeads ==
    ASSUME TypeInv, NEW w \in Processes, Statement(w)
    PROVE  /\ pc'[w] = "saveProposal" => LoadProposal(w)
           /\ pc'[w] = "createMarriage" => SaveProposal(w)
           /\ pc'[w] = "saveMarriage" => CreateMarriage(w) \/ LoadMarriage(w)
           /\ pc'[w] = "emit" => InsertProposal(w) \/ SaveProposal(w) \/ SaveMarriage(w)
  <1>1. \A label : Goto(w, label) => pc'[w] = label
    BY DEF TypeInv, TypeOK, Goto
  <1>2. Finish(w) => pc'[w] = "idle"
    BY <1>1 DEF Finish
  <1>3. CASE CheckStep(w)
    BY <1>1, <1>2, <1>3 DEF CheckStep, CheckProposerFree, CheckTargetFree, CheckNoneActive,
       CheckGlobalCooldown, CheckTargetCooldown, Check
  <1>4. CASE InsertProposal(w) \/ LoadProposal(w) \/ SaveProposal(w)
    BY <1>1, <1>2, <1>4 DEF InsertProposal, LoadProposal, SaveProposal
  <1>5. CASE CreateMarriage(w) \/ LoadMarriage(w) \/ SaveMarriage(w) \/ Emit(w)
    BY <1>1, <1>2, <1>5 DEF CreateMarriage, LoadMarriage, SaveMarriage, Emit
  <1> QED
    BY <1>3, <1>4, <1>5 DEF Statement

LEMMA Arrivals ==
    ASSUME TypeInv, [Next]_vars, NEW w \in Processes
    PROVE  /\ pc'[w] = "saveProposal" => StandsStill(w) \/ LoadProposal(w)
           /\ pc'[w] = "createMarriage" => StandsStill(w) \/ SaveProposal(w)
           /\ pc'[w] = "saveMarriage" => StandsStill(w) \/ CreateMarriage(w) \/ LoadMarriage(w)
           /\ pc'[w] = "emit" =>
                StandsStill(w) \/ InsertProposal(w) \/ SaveProposal(w) \/ SaveMarriage(w)
  BY MovesByStatement, StatementLeads

(* The table marriages is written by two statements only.                   *)
LEMMA OnlyTheseMarry ==
    ASSUME TypeInv, [Next]_vars,
           ~ \E w \in Processes : CreateMarriage(w) \/ SaveMarriage(w)
    PROVE  marriages' = marriages
  <1>1. ASSUME NEW w \in Processes, Statement(w) PROVE marriages' = marriages
    BY <1>1 DEF Statement, CheckStep, CheckProposerFree, CheckTargetFree, CheckNoneActive,
       CheckGlobalCooldown, CheckTargetCooldown, Check, InsertProposal, LoadProposal,
       SaveProposal, LoadMarriage, Emit, tables
  <1>2. ASSUME NEW w \in Workers, Begin(w) PROVE marriages' = marriages
    BY <1>2, BeginTakesKey DEF tables
  <1>3. ASSUME NEW w \in Processes, Abort(w) \/ CrashSweep(w) \/ SweepQuery(w) \/ SweepNext(w)
        PROVE  marriages' = marriages
    BY <1>3 DEF Abort, CrashSweep, SweepQuery, SweepNext, tables
  <1>4. CASE Tick \/ UNCHANGED vars
    BY <1>4 DEF Tick, vars, tables
  <1> QED
    BY <1>1, <1>2, <1>3, <1>4 DEF Next, Work, SweepStep, Processes

----------------------------------------------------------------------------
(* What the two statements do.                                              *)

NewMarriage(d) == [partner1 |-> d.proposer, partner2 |-> d.target, status |-> "proposed"]

LEMMA CreationAppends ==
    ASSUME TypeInv, RegisterInv, NEW w \in Processes, CreateMarriage(w)
    PROVE  LET n == Len(marriages) + 1 IN
           /\ n \notin DOMAIN marriages /\ DOMAIN marriages' = DOMAIN marriages \cup {n}
           /\ \A m \in DOMAIN marriages : marriages'[m] = marriages[m]
           /\ marriages'[n] = NewMarriage(job[w].draft) /\ marriages'[n].status = "proposed"
           /\ NewMarriage(job[w].draft) \in Register!Row
           /\ marriages' = Append(marriages, NewMarriage(job[w].draft))
           /\ job[w].draft \in ProposalRow /\ Loadable(job[w].draft)
           /\ job'[w].mid = n /\ job'[w].op = "accept" /\ job[w].op = "accept"
           /\ OnlyMoves(w) /\ UNCHANGED proposals
  <1> DEFINE r == NewMarriage(job[w].draft)
             n == Len(marriages) + 1
  <1>1. /\ pc[w] = "createMarriage" /\ marriages' = Append(marriages, r)
        /\ job' = [job EXCEPT ![w].mid = n] /\ UNCHANGED proposals
    BY DEF CreateMarriage, NewMarriage
  <1>2. job[w].draft \in ProposalRow /\ Loadable(job[w].draft) /\ job[w].op = "accept"
    BY <1>1 DEF TypeInv, JobsOK, JobOK, AnswerJobOK, RegisterInv
  <1>3. r \in Register!Row /\ r \in MarriageRow
    BY <1>2 DEF NewMarriage, Register!Row, ProposalRow, MarriageRow, MarriageStatus
  <1> HIDE DEF r
  <1>4. /\ n \notin DOMAIN marriages /\ DOMAIN marriages' = DOMAIN marriages \cup {n}
        /\ \A m \in DOMAIN marriages : marriages'[m] = marriages[m]
        /\ marriages'[n] = r
    <2>1. /\ DOMAIN marriages = 1..Len(marriages) /\ Len(marriages) \in Nat
          /\ DOMAIN marriages' = 1..(Len(marriages) + 1)
          /\ \A m \in DOMAIN marriages : marriages'[m] = marriages[m]
          /\ marriages'[n] = r
      BY <1>1, <1>3, AppendedRow DEF TypeInv, TypeOK
    <2> QED
      BY <2>1
  <1>5. job'[w].mid = n /\ job'[w].op = "accept"
    BY <1>1, <1>2 DEF TypeInv, TypeOK, Job
  <1>6. OnlyMoves(w)
    BY CreateMarriageStep DEF StepOK
  <1>7. r.status = "proposed"
    BY DEF r, NewMarriage
  <1> QED
    BY <1>1, <1>2, <1>3, <1>4, <1>5, <1>6, <1>7 DEF r

SavedStatus(w) == IF job[w].op = "accept" THEN "engaged" ELSE "divorced"

LEMMA SaveUpdates ==
    ASSUME TypeInv, RegisterInv, NEW w \in Processes, SaveMarriage(w)
    PROVE  /\ job[w].mid \in DOMAIN marriages /\ DOMAIN marriages' = DOMAIN marriages
           /\ \A m \in DOMAIN marriages : m # job[w].mid => marriages'[m] = marriages[m]
           /\ marriages[job[w].mid] \in Register!Row
           /\ marriages'[job[w].mid] \in Register!Row
           /\ marriages'[job[w].mid].status = SavedStatus(w)
           /\ marriages'[job[w].mid].partner1 = marriages[job[w].mid].partner1
           /\ marriages'[job[w].mid].partner2 = marriages[job[w].mid].partner2
           /\ SavedStatus(w) # "proposed"
           /\ job[w].op = "accept" => marriages[job[w].mid].status = "proposed"
           /\ job[w].op # "accept" =>
                marriages[job[w].mid].status \in {"engaged", "divorced"}
           /\ pc[w] = "saveMarriage" /\ pc'[w] = "emit" /\ job'[w] = job[w]
           /\ OnlyMoves(w) /\ UNCHANGED proposals
  <1> DEFINE k == job[w].mid
             r == [marriages[k] EXCEPT !.status = SavedStatus(w)]
  <1>1. /\ pc[w] = "saveMarriage" /\ marriages' = [marriages EXCEPT ![k] = r]
        /\ UNCHANGED <<job, proposals>> /\ Goto(w, "emit")
    BY DEF SaveMarriage, SavedStatus
  <1>2. k \in DOMAIN marriages
    BY <1>1 DEF TypeInv, JobsOK, JobOK, MarriageJobOK
  <1>3. marriages[k] \in Register!Row
    BY <1>2 DEF RegisterInv
  <1>4. /\ job[w].op = "accept" => marriages[k].status = "proposed"
        /\ job[w].op # "accept" => marriages[k].status \in {"engaged", "divorced"}
    BY <1>1, <1>3 DEF RegisterInv, Engages, Dissolves, Register!Row
  <1>5. pc'[w] = "emit" /\ OnlyMoves(w)
    BY <1>1, SaveMarriageStep DEF StepOK, Goto, TypeInv, TypeOK
  <1>6. /\ r \in Register!Row /\ r.status = SavedStatus(w) /\ SavedStatus(w) # "proposed"
        /\ r.partner1 = marriages[k].partner1 /\ r.partner2 = marriages[k].partner2
    BY <1>3 DEF Register!Row, SavedStatus
  <1>7. /\ DOMAIN marriages' = DOMAIN marriages /\ marriages'[k] = r
        /\ \A m \in DOMAIN marriages : m # k => marriages'[m] = marriages[m]
    BY <1>1, <1>2
  <1> QED
    BY <1>1, <1>2, <1>3, <1>4, <1>5, <1>6, <1>7

----------------------------------------------------------------------------
(* Proposals implements the register.                                       *)

(* A handler that is still about to save a marriage finds it as it was      *)
(* found, or ended.                                                         *)
LEMMA HeldMarriages ==
    ASSUME TypeInv, RegisterInv, [Next]_vars, NEW w \in Processes,
           pc[w] = "saveMarriage", StandsStill(w), pc'[w] = "saveMarriage"
    PROVE  LET k == job[w].mid IN
           /\ Engages(w) => marriages'[k].status = "proposed"
           /\ Dissolves(w) => marriages'[k].status # "proposed"
  <1> DEFINE k == job[w].mid
  <1>1. k \in DOMAIN marriages /\ marriages[k] \in Register!Row
    BY DEF TypeInv, JobsOK, JobOK, MarriageJobOK, RegisterInv
  <1>2. /\ Engages(w) => marriages[k].status = "proposed"
        /\ Dissolves(w) => marriages[k].status # "proposed"
    BY DEF RegisterInv
  <1>3. CASE \E v \in Processes : CreateMarriage(v)
    BY <1>1, <1>2, <1>3, CreationAppends
  <1>4. ASSUME NEW v \in Processes, SaveMarriage(v)
        PROVE  /\ Engages(w) => marriages'[k].status = "proposed"
               /\ Dissolves(w) => marriages'[k].status # "proposed"
    <2>1. v # w
      BY <1>4, SaveUpdates
    <2>2. CASE job[v].mid # k
      <3>1. marriages'[k] = marriages[k]
        BY <1>1, <1>4, <2>2, SaveUpdates
      <3> QED
        BY <1>2, <3>1
    <2>3. CASE job[v].mid = k
      <3>1. Engages(w) => FALSE
        BY <1>2, <1>4, <2>1, <2>3, SaveUpdates DEF RegisterInv, Engages
      <3>2. marriages'[k].status # "proposed"
        BY <1>4, <2>3, SaveUpdates
      <3> QED
        BY <3>1, <3>2
    <2> QED
      BY <2>2, <2>3
  <1> QED
    BY <1>2, <1>3, <1>4, OnlyTheseMarry DEF Engages, Dissolves

(* What a handler has just created is there to be engaged, what it has      *)
(* looked up for an ending has been engaged.                                *)
LEMMA MarriageInHand ==
    ASSUME TypeInv, RegisterInv, NEW w \in Processes, CreateMarriage(w) \/ LoadMarriage(w),
           pc'[w] = "saveMarriage"
    PROVE  /\ Engages(w)' => CreateMarriage(w) /\ marriages'[job'[w].mid].status = "proposed"
           /\ Dissolves(w)' => marriages'[job'[w].mid].status # "proposed"
  <1>1. CASE CreateMarriage(w)
    BY <1>1, CreationAppends DEF Dissolves
  <1>2. CASE LoadMarriage(w)
    <2>1. pc[w] = "loadMarriage" /\ marriages' = marriages
      BY <1>2 DEF LoadMarriage, tables
    <2>2. job[w].op \in DissolvingOps /\ job[w] \in Job
      BY <2>1 DEF TypeInv, TypeOK, JobsOK, JobOK, MarriageJobOK
    <2>3. ~Finish(w)
      BY DEF Finish, Goto, TypeInv, TypeOK
    <2>4. PICK m \in Dissolvable(job[w]) : job' = [job EXCEPT ![w].mid = m]
      BY <1>2, <2>3 DEF LoadMarriage
    <2>5. job'[w].mid = m /\ job'[w].op = job[w].op
      BY <2>2, <2>4 DEF TypeInv, TypeOK, Job
    <2>6. marriages[m].status # "proposed"
      BY <2>2 DEF Dissolvable, DissolvingOps
    <2> QED
      BY <2>1, <2>2, <2>5, <2>6 DEF Engages, DissolvingOps
  <1> QED
    BY <1>1, <1>2

LEMMA DraftsStayLoadable ==
    ASSUME TypeInv, RegisterInv, [Next]_vars, NEW w \in Processes,
           pc'[w] \in {"saveProposal", "createMarriage"}
    PROVE  Loadable(job'[w].draft)
  <1>1. CASE StandsStill(w)
    BY <1>1 DEF StandsStill, RegisterInv
  <1>2. CASE LoadProposal(w) /\ pc'[w] = "saveProposal"
    <2> DEFINE op == job[w].op
               p == proposals[job[w].pid]
               d == Transformed(op, p)
    <2>1. /\ job'[w].draft = d /\ MayTransform(op, p)
          /\ pc[w] = "loadProposal"
      BY <1>2, LoadProposalStep DEF LoadProposal
    <2>2. op \in Answers \cup {"expire"} /\ job[w].pid \in DOMAIN proposals
      BY <2>1 DEF TypeInv, JobsOK, JobOK, AnswerJobOK
    <2>3. p \in ProposalRow /\ p.status = "pending" /\ p.rejections = 0 /\ Loadable(p)
      BY <2>1, <2>2, RowsAreRows
      DEF TypeInv, TypeOK, MayTransform, CanRespond, OpenRowsFresh
    <2>4. SamePair(d, p)
      BY <2>2, <2>3, TransformedRow DEF TypeInv
    <2> QED
      BY <2>1, <2>3, <2>4 DEF SamePair, Loadable
  <1>3. CASE SaveProposal(w) /\ pc'[w] = "createMarriage"
    BY <1>3, SaveProposalStep DEF SaveProposal, RegisterInv
  <1> QED
    BY <1>1, <1>2, <1>3, Arrivals

LEMMA RowsStayRegistered ==
    ASSUME TypeInv, RegisterInv, [Next]_vars
    PROVE  \A m \in DOMAIN marriages' : marriages'[m] \in Register!Row
  <1>1. ASSUME NEW w \in Processes, CreateMarriage(w)
        PROVE  \A m \in DOMAIN marriages' : marriages'[m] \in Register!Row
    BY <1>1, CreationAppends DEF RegisterInv
  <1>2. ASSUME NEW w \in Processes, SaveMarriage(w)
        PROVE  \A m \in DOMAIN marriages' : marriages'[m] \in Register!Row
    BY <1>2, SaveUpdates DEF RegisterInv, Register!Row
  <1> QED
    BY <1>1, <1>2, OnlyTheseMarry DEF RegisterInv

LEMMA NextKeepsRegisterInv ==
    ASSUME TypeInv, RegisterInv, [Next]_vars
    PROVE  RegisterInv'
  <1>1. ASSUME NEW w \in Processes, pc'[w] = "saveMarriage"
        PROVE  /\ Engages(w)' => marriages'[job'[w].mid].status = "proposed"
               /\ Dissolves(w)' => marriages'[job'[w].mid].status # "proposed"
    BY <1>1, Arrivals, HeldMarriages, MarriageInHand DEF StandsStill, Engages, Dissolves
  <1>2. ASSUME NEW v \in Processes, NEW w \in Processes, v # w, Engages(v)', Engages(w)'
        PROVE  job'[v].mid # job'[w].mid
    <2>1. ASSUME NEW x \in Processes, Engages(x)'
          PROVE  (StandsStill(x) /\ Engages(x)) \/ CreateMarriage(x)
      BY <2>1, Arrivals, MarriageInHand DEF Engages, StandsStill
    <2>2. ASSUME NEW x \in Processes, NEW y \in Processes, x # y, CreateMarriage(x), Engages(y)'
          PROVE  job'[x].mid # job'[y].mid
      <3>1. StandsStill(y)
        BY <2>2, CreationAppends DEF OnlyMoves, StandsStill
      <3>2. job'[y].mid \in DOMAIN marriages
        BY <2>2, <3>1 DEF StandsStill, Engages, TypeInv, JobsOK, JobOK, MarriageJobOK
      <3> QED
        BY <2>2, <3>2, CreationAppends
    <2>3. CASE StandsStill(v) /\ StandsStill(w) /\ Engages(v) /\ Engages(w)
      BY <1>2, <2>3 DEF RegisterInv, StandsStill
    <2> QED
      BY <1>2, <2>1, <2>2, <2>3
  <1>3. \A w \in Processes :
           /\ pc'[w] \in {"saveProposal", "createMarriage"} => Loadable(job'[w].draft)
           /\ Engages(w)' => marriages'[job'[w].mid].status = "proposed"
           /\ Dissolves(w)' => marriages'[job'[w].mid].status # "proposed"
    BY <1>1, DraftsStayLoadable DEF Engages, Dissolves
  <1> QED
    BY <1>2, <1>3, RowsStayRegistered DEF RegisterInv, Loadable, Processes

LEMMA InitRegisterInv == Init => RegisterInv
  BY EmptySeq DEF Init, RegisterInv, Engages, Dissolves

LEMMA RegisterInvHolds == Spec => []RegisterInv
  BY InitRegisterInv, NextKeepsRegisterInv, TypeInvHolds, PTL DEF Spec

LEMMA NothingToSave ==
    ASSUME NEW r \in Register!Row, r.status = "divorced"
    PROVE  [r EXCEPT !.status = "divorced"] = r
  BY DEF Register!Row

LEMMA CreationProposes ==
    ASSUME TypeInv, RegisterInv, NEW w \in Processes, CreateMarriage(w)
    PROVE  Register!Propose
  <1> DEFINE d == job[w].draft
             couple == <<d.proposer, d.target>>
  <1>1. /\ d \in ProposalRow /\ Loadable(d)
        /\ marriages' = Append(marriages, NewMarriage(d))
    BY CreationAppends
  <1>2. couple \in {r \in Characters \X Characters : r[1] # r[2]}
    BY <1>1 DEF ProposalRow, Loadable
  <1>3. marriages' = Append(marriages,
            [partner1 |-> couple[1], partner2 |-> couple[2], status |-> "proposed"])
    BY <1>1 DEF NewMarriage
  <1> HIDE DEF couple
  <1> QED
    BY <1>2, <1>3 DEF Register!Propose

LEMMA SaveEngagesOrDivorces ==
    ASSUME TypeInv, RegisterInv, NEW w \in Processes, SaveMarriage(w)
    PROVE  Register!Engage \/ Register!Divorce \/ UNCHANGED marriages
  <1> DEFINE k == job[w].mid
  <1>1. /\ k \in DOMAIN marriages /\ marriages[k] \in Register!Row
        /\ job[w].op = "accept" => marriages[k].status = "proposed"
        /\ job[w].op # "accept" => marriages[k].status \in {"engaged", "divorced"}
    BY SaveUpdates
  <1>2. marriages' = [marriages EXCEPT ![k].status = SavedStatus(w)]
    BY Zenon DEF SaveMarriage, SavedStatus
  <1> HIDE DEF k
  <1>3. CASE job[w].op = "accept"
    <2>1. SavedStatus(w) = "engaged"
      BY <1>3 DEF SavedStatus
    <2> QED
      BY <1>1, <1>2, <1>3, <2>1, Zenon DEF Register!Engage, Register!Move
  <1>4. CASE job[w].op # "accept"
    <2>1. marriages' = [marriages EXCEPT ![k].status = "divorced"]
      BY <1>2, <1>4, Zenon DEF SavedStatus
    <2>2. CASE marriages[k].status = "engaged"
      BY <1>1, <2>1, <2>2, Zenon DEF Register!Divorce, Register!Move
    <2>3. CASE marriages[k].status = "divorced"
      <3> DEFINE r == marriages[k]
      <3>1. marriages' = [marriages EXCEPT ![k] = [r EXCEPT !.status = "divorced"]]
        BY <2>1
      <3>2. [r EXCEPT !.status = "divorced"] = r
        BY <1>1, <2>3, NothingToSave
      <3>3. marriages' = [marriages EXCEPT ![k] = r]
        BY <3>1, <3>2, Zenon
      <3>4. marriages \in Seq(MarriageRow)
        BY DEF TypeInv, TypeOK
      <3> QED
        BY <3>3, <3>4, LenProperties
    <2> QED
      BY <1>1, <1>4, <2>2, <2>3
  <1> QED
    BY <1>3, <1>4

(* The table marriages is a marriage register, whatever handlers race: a    *)
(* marriage is engaged once, by the handler that created it, ends once and  *)
(* only from there, and keeps its partners, who are two characters.         *)
THEOREM MarriagesAreARegister == Spec => KeepsRegister
  <1>1. Init => Register!Init
    BY DEF Init, Register!Init
  <1>2. TypeInv /\ RegisterInv /\ [Next]_vars => [Register!Next]_marriages
    BY OnlyTheseMarry, CreationProposes, SaveEngagesOrDivorces DEF Register!Next
  <1> QED
    BY <1>1, <1>2, TypeInvHolds, RegisterInvHolds, PTL
    DEF Spec, KeepsRegister, Register!Spec

----------------------------------------------------------------------------
(* Where marriages come from.                                               *)

SettledBetween(table, m) ==
    \E i \in DOMAIN table :
        /\ table[i].proposer = m.partner1 /\ table[i].target = m.partner2
        /\ table[i].proposer # table[i].target
        /\ table[i].status # "pending"

(* A settled proposal stays settled, and between the same two.              *)
LEMMA StaysSettled ==
    ASSUME TypeInv, [Next]_vars, NEW m, SettledBetween(proposals, m)
    PROVE  SettledBetween(proposals', m)
  BY NextKeepsTypeInv DEF SettledBetween, TablesGrow, Kept, SamePair

LEMMA PartnersStay ==
    ASSUME TypeInv, RegisterInv, [Next]_vars, NEW m \in DOMAIN marriages
    PROVE  /\ marriages'[m].partner1 = marriages[m].partner1
           /\ marriages'[m].partner2 = marriages[m].partner2
  <1>1. ASSUME NEW w \in Processes, CreateMarriage(w) PROVE marriages'[m] = marriages[m]
    BY <1>1, CreationAppends
  <1>2. ASSUME NEW w \in Processes, SaveMarriage(w)
        PROVE  /\ marriages'[m].partner1 = marriages[m].partner1
               /\ marriages'[m].partner2 = marriages[m].partner2
    BY <1>2, SaveUpdates
  <1> QED
    BY <1>1, <1>2, OnlyTheseMarry

(* The proposal of an acceptance that has got further than that has been    *)
(* saved.                                                                   *)
LEMMA AcceptedIsSaved ==
    ASSUME TypeInv, OriginInv, [Next]_vars, NEW w \in Processes,
           pc'[w] = "createMarriage" \/ (pc'[w] = "saveMarriage" /\ job'[w].op = "accept")
    PROVE  job'[w].pid \in DOMAIN proposals' /\ proposals'[job'[w].pid].status # "pending"
  <1>1. ASSUME NEW i \in DOMAIN proposals, proposals[i].status # "pending"
        PROVE  i \in DOMAIN proposals' /\ proposals'[i].status # "pending"
    BY <1>1, NextKeepsTypeInv DEF TablesGrow, Kept
  <1>2. CASE StandsStill(w)
    BY <1>1, <1>2 DEF StandsStill, OriginInv, Engages
  <1>3. CASE SaveProposal(w)
    BY <1>3, SaveProposalStep, SavedProposal
  <1>4. CASE CreateMarriage(w)
    <2>1. pc[w] = "createMarriage" /\ job'[w].pid = job[w].pid
      BY <1>4 DEF CreateMarriage, TypeInv, TypeOK, Job
    <2> QED
      BY <1>1, <2>1 DEF OriginInv
  <1>5. CASE LoadMarriage(w) /\ job'[w].op = "accept"
    <2>1. pc[w] = "loadMarriage" /\ job[w].op \in DissolvingOps
      BY <1>5 DEF LoadMarriage, TypeInv, JobsOK, JobOK, MarriageJobOK
    <2> QED
      BY <1>5, <2>1, SameTask DEF Statement, DissolvingOps
  <1> QED
    BY <1>2, <1>3, <1>4, <1>5, Arrivals

LEMMA NextKeepsOriginInv ==
    ASSUME TypeInv, RegisterInv, OriginInv, [Next]_vars
    PROVE  OriginInv'
  <1>1. \A m \in DOMAIN marriages : SettledBetween(proposals, marriages[m])
    BY DEF OriginInv, MarriagesComeFromProposals, SettledBetween
  <1>2. \A m \in DOMAIN marriages : SettledBetween(proposals', marriages'[m])
    <2> SUFFICES ASSUME NEW m \in DOMAIN marriages
                 PROVE  SettledBetween(proposals', marriages'[m])
      OBVIOUS
    <2>1. SettledBetween(proposals', marriages[m])
      BY <1>1, StaysSettled
    <2> QED
      BY <2>1, PartnersStay DEF SettledBetween
  <1>3. ASSUME NEW w \in Processes, CreateMarriage(w)
        PROVE  SettledBetween(proposals', NewMarriage(job[w].draft))
    <2> DEFINE d == job[w].draft
               p == proposals[job[w].pid]
    <2>1. pc[w] = "createMarriage"
      BY <1>3 DEF CreateMarriage
    <2>2. job[w].pid \in DOMAIN proposals /\ SamePair(d, p) /\ p.status # "pending" /\ Loadable(d)
      BY <2>1 DEF OriginInv, RegisterInv, TypeInv, JobsOK, JobOK, AnswerJobOK
    <2>3. SettledBetween(proposals, NewMarriage(d))
      BY <2>2 DEF SettledBetween, NewMarriage, SamePair, Loadable
    <2> QED
      BY <2>3, StaysSettled
  <1>4. \A m \in DOMAIN marriages' : SettledBetween(proposals', marriages'[m])
    <2>1. ASSUME NEW w \in Processes, CreateMarriage(w)
          PROVE  \A m \in DOMAIN marriages' : SettledBetween(proposals', marriages'[m])
      BY <1>2, <1>3, <2>1, CreationAppends
    <2>2. CASE DOMAIN marriages' = DOMAIN marriages
      BY <1>2, <2>2
    <2> QED
      BY <2>1, <2>2, SaveUpdates, OnlyTheseMarry
  <1>5. MarriagesComeFromProposals'
    BY <1>4 DEF MarriagesComeFromProposals, SettledBetween
  <1>6. \A w \in Processes :
          pc'[w] = "createMarriage" \/ Engages(w)' =>
              job'[w].pid \in DOMAIN proposals' /\ proposals'[job'[w].pid].status # "pending"
    <2> SUFFICES ASSUME NEW w \in Processes, pc'[w] = "createMarriage" \/ Engages(w)'
                 PROVE  /\ job'[w].pid \in DOMAIN proposals'
                        /\ proposals'[job'[w].pid].status # "pending"
      OBVIOUS
    <2>1. pc'[w] = "createMarriage" \/ (pc'[w] = "saveMarriage" /\ job'[w].op = "accept")
      BY DEF Engages
    <2> QED
      BY <2>1, AcceptedIsSaved
  <1> QED
    BY <1>5, <1>6 DEF OriginInv, Processes, Engages

----------------------------------------------------------------------------
(* What is published.                                                       *)

(* The statuses events speak of are not left again.                         *)
LEMMA StatusesStay ==
    ASSUME TypeInv, RegisterInv, [Next]_vars, NEW m \in DOMAIN marriages
    PROVE  /\ m \in DOMAIN marriages'
           /\ marriages[m].status # "proposed" => marriages'[m].status # "proposed"
           /\ marriages[m].status = "divorced" => marriages'[m].status = "divorced"
  <1>1. m \in DOMAIN marriages'
    BY NextKeepsTypeInv DEF TablesGrow
  <1>2. ASSUME NEW w \in Processes, CreateMarriage(w) PROVE marriages'[m] = marriages[m]
    BY <1>2, CreationAppends
  <1>3. ASSUME NEW w \in Processes, SaveMarriage(w)
        PROVE  /\ marriages[m].status # "proposed" => marriages'[m].status # "proposed"
               /\ marriages[m].status = "divorced" => marriages'[m].status = "divorced"
    <2>1. CASE m # job[w].mid
      BY <1>3, <2>1, SaveUpdates
    <2>2. CASE m = job[w].mid
      BY <1>3, <2>2, SaveUpdates DEF SavedStatus
    <2> QED
      BY <2>1, <2>2
  <1> QED
    BY <1>1, <1>2, <1>3, OnlyTheseMarry

(* What backs an event is not taken back.                                   *)
LEMMA BackedStays ==
    ASSUME TypeInv, RegisterInv, [Next]_vars, NEW e, Backed(e)
    PROVE  Backed(e)'
  <1>1. /\ e.type = "PROPOSAL_CREATED" =>
             e.id \in DOMAIN proposals' /\ Loadable(proposals[e.id])'
        /\ e.type \in OutcomeEvents =>
             e.id \in DOMAIN proposals' /\ proposals'[e.id].status # "pending"
    BY NextKeepsTypeInv DEF Backed, OutcomeEvents, TablesGrow, Kept, SamePair, Loadable
  <1>2. /\ e.type = "MARRIAGE_CREATED" =>
             e.id \in DOMAIN marriages' /\ marriages'[e.id].status # "proposed"
        /\ e.type \in {"MARRIAGE_DELETED", "MARRIAGE_DIVORCED"} =>
             e.id \in DOMAIN marriages' /\ marriages'[e.id].status = "divorced"
    BY StatusesStay DEF Backed
  <1> QED
    BY <1>1, <1>2 DEF Backed, OutcomeEvents

(* The events of a handler, by what it does.                                *)
LEMMA EventsOfJob ==
    ASSUME NEW j \in Job, j.op # "none", NEW e \in EventsOf(j)
    PROVE  \/ j.op = "propose" /\ e.type = "PROPOSAL_CREATED" /\ e.id = j.pid
           \/ /\ j.op \in Answers \cup {"expire"}
              /\ e.type \in OutcomeEvents /\ e.type = EventType[j.op] /\ e.id = j.pid
           \/ j.op = "accept" /\ e.type = "MARRIAGE_CREATED" /\ e.id = j.mid
           \/ /\ j.op \in DissolvingOps
              /\ e.type \in {"MARRIAGE_DELETED", "MARRIAGE_DIVORCED"} /\ e.id = j.mid
  <1>1. /\ EventType["propose"] = "PROPOSAL_CREATED" /\ EventType["accept"] = "PROPOSAL_ACCEPTED"
        /\ EventType["decline"] = "PROPOSAL_DECLINED" /\ EventType["cancel"] = "PROPOSAL_CANCELLED"
        /\ EventType["expire"] = "PROPOSAL_EXPIRED" /\ EventType["divorce"] = "MARRIAGE_DIVORCED"
        /\ EventType["delete"] = "MARRIAGE_DELETED"
    BY Zenon DEF EventType
  <1>2. j.op \in Operations \ {"none"}
    BY DEF Job
  <1> DEFINE type == EventType[j.op]
  <1>3. /\ j.op = "propose" => type = "PROPOSAL_CREATED"
        /\ j.op \in Answers \cup {"expire"} => type \in OutcomeEvents
        /\ j.op \in DissolvingOps => type \in {"MARRIAGE_DELETED", "MARRIAGE_DIVORCED"}
    BY <1>1 DEF Answers, DissolvingOps, OutcomeEvents
  <1> HIDE DEF type
  <1>4. EventsOf(j) = LET id == IF j.op \in {"divorce", "delete"} THEN j.mid ELSE j.pid IN
                      {Event(type, id)} \cup
                      (IF j.op = "accept" THEN {Event("MARRIAGE_CREATED", j.mid)} ELSE {})
    BY Zenon DEF EventsOf, type
  <1>5. \/ e.type = type /\ e.id = IF j.op \in {"divorce", "delete"} THEN j.mid ELSE j.pid
        \/ j.op = "accept" /\ e.type = "MARRIAGE_CREATED" /\ e.id = j.mid
    BY <1>4 DEF Event
  <1> QED
    BY <1>2, <1>3, <1>5 DEF Operations, Commands, Answers, DissolvingOps, type

(* A handler publishes what it has written last.                            *)
LEMMA WrittenIsBacked ==
    ASSUME TypeInv, RegisterInv, OriginInv, [Next]_vars, NEW w \in Processes,
           InsertProposal(w) \/ SaveProposal(w) \/ SaveMarriage(w), pc'[w] = "emit",
           NEW e \in EventsOf(job'[w])
    PROVE  Backed(e)'
  <1>1. job'[w] \in Job /\ job'[w].op # "none"
    BY NextKeepsTypeInv DEF TypeInv, TypeOK, JobsOK, JobOK, Processes
  <1>2. CASE InsertProposal(w)
    <2> DEFINE p == NewProposal(job[w].key, job[w].target)
               n == Len(proposals) + 1
    <2>1. pc[w] = "insert" /\ proposals' = Append(proposals, p)
      BY <1>2 DEF InsertProposal
    <2>2. /\ job[w].key \in Characters /\ job[w].target \in Characters
          /\ job[w].op = "propose" /\ job[w] \in Job
      BY <2>1 DEF TypeInv, TypeOK, JobsOK, JobOK, ProposeJobOK, EligibilityLabels
    <2>3. p \in ProposalRow
      BY <2>2, NewProposalIsRow DEF TypeInv
    <2> HIDE DEF p
    <2>4. n \in DOMAIN proposals' /\ proposals'[n] = p
      BY <2>1, <2>3, AppendedRow DEF TypeInv, TypeOK
    <2>5. ~Finish(w)
      BY DEF Finish, Goto, TypeInv, TypeOK
    <2>6. Loadable(p) /\ job' = [job EXCEPT ![w].pid = n]
      BY <1>2, <2>5 DEF InsertProposal, p
    <2>7. job'[w].op = "propose" /\ job'[w].pid = n
      BY <2>2, <2>6 DEF TypeInv, TypeOK, Job
    <2>8. e.type = "PROPOSAL_CREATED" /\ e.id = n
      BY <1>1, <2>7, EventsOfJob DEF Answers, DissolvingOps
    <2> QED
      BY <2>4, <2>6, <2>8 DEF Backed, OutcomeEvents, Loadable
  <1>3. CASE SaveProposal(w)
    <2>1. /\ pc[w] = "saveProposal" /\ job'[w] = job[w] /\ job[w].op # "accept"
          /\ job[w].op \in Answers \cup {"expire"}
      BY <1>3 DEF SaveProposal, Goto, TypeInv, TypeOK, JobsOK, JobOK, AnswerJobOK
    <2>2. job[w].pid \in DOMAIN proposals' /\ proposals'[job[w].pid].status # "pending"
      BY <1>3, SavedProposal
    <2>3. e.type \in OutcomeEvents /\ e.id = job[w].pid
      BY <1>1, <2>1, EventsOfJob DEF Answers, DissolvingOps
    <2> QED
      BY <2>2, <2>3 DEF Backed, OutcomeEvents
  <1>4. CASE SaveMarriage(w)
    <2>1. /\ pc[w] = "saveMarriage" /\ job'[w] = job[w]
          /\ job[w].op \in DissolvingOps \cup {"accept"}
          /\ job[w].mid \in DOMAIN marriages' /\ marriages'[job[w].mid].status = SavedStatus(w)
      BY <1>4, SaveUpdates DEF TypeInv, JobsOK, JobOK, MarriageJobOK
    <2>2. CASE job[w].op = "accept"
      <3>1. job[w].pid \in DOMAIN proposals' /\ proposals'[job[w].pid].status # "pending"
        BY <1>4, <2>1, <2>2, SaveUpdates DEF OriginInv, Engages
      <3>2. \/ e.type \in OutcomeEvents /\ e.id = job[w].pid
            \/ e.type = "MARRIAGE_CREATED" /\ e.id = job[w].mid
        BY <1>1, <2>1, <2>2, EventsOfJob DEF Answers, DissolvingOps
      <3> QED
        BY <2>1, <2>2, <3>1, <3>2 DEF Backed, OutcomeEvents, SavedStatus
    <2>3. CASE job[w].op \in DissolvingOps
      <3>1. e.type \in {"MARRIAGE_DELETED", "MARRIAGE_DIVORCED"} /\ e.id = job[w].mid
        BY <1>1, <2>1, <2>3, EventsOfJob DEF Answers, DissolvingOps
      <3> QED
        BY <2>1, <2>3, <3>1 DEF Backed, OutcomeEvents, SavedStatus, DissolvingOps
    <2> QED
      BY <2>1, <2>2, <2>3
  <1> QED
    BY <1>2, <1>3, <1>4

(* Only Emit publishes.                                                     *)
LEMMA OnlyEmitPublishes ==
    ASSUME TypeInv, [Next]_vars
    PROVE  \/ published' = published
           \/ \E w \in Processes :
                /\ Emit(w) /\ pc[w] = "emit"
                /\ published' = published \cup EventsOf(job[w])
  <1>1. ASSUME NEW w \in Processes, Statement(w), ~Emit(w) PROVE published' = published
    BY <1>1 DEF Statement, CheckStep, CheckProposerFree, CheckTargetFree, CheckNoneActive,
       CheckGlobalCooldown, CheckTargetCooldown, Check, InsertProposal, LoadProposal,
       SaveProposal, CreateMarriage, LoadMarriage, SaveMarriage
  <1>2. ASSUME NEW w \in Workers, Begin(w) PROVE published' = published
    BY <1>2 DEF Begin, BeginPropose, BeginAnswer, BeginDivorce, BeginDelete, Enter
  <1>3. ASSUME NEW w \in Processes, Abort(w) \/ CrashSweep(w) \/ SweepQuery(w) \/ SweepNext(w)
        PROVE  published' = published
    BY <1>3 DEF Abort, CrashSweep, SweepQuery, SweepNext
  <1>4. CASE Tick \/ UNCHANGED vars
    BY <1>4 DEF Tick, vars
  <1>5. ASSUME NEW w \in Processes, Emit(w)
        PROVE  pc[w] = "emit" /\ published' = published \cup EventsOf(job[w])
    BY <1>5 DEF Emit
  <1> QED
    BY <1>1, <1>2, <1>3, <1>4, <1>5 DEF Next, Work, SweepStep, Processes

LEMMA NextKeepsEventInv ==
    ASSUME TypeInv, RegisterInv, OriginInv, EventInv, [Next]_vars
    PROVE  EventInv'
  <1>1. \A e \in published' : Backed(e)'
    <2> SUFFICES ASSUME NEW e \in published' PROVE Backed(e)'
      OBVIOUS
    <2>1. Backed(e)
      BY OnlyEmitPublishes DEF EventInv, EventsBacked
    <2> QED
      BY <2>1, BackedStays
  <1>2. ASSUME NEW w \in Processes, pc'[w] = "emit", NEW e \in EventsOf(job'[w])
        PROVE  Backed(e)'
    <2>1. CASE StandsStill(w)
      <3>1. pc[w] = "emit" /\ e \in EventsOf(job[w])
        BY <1>2, <2>1 DEF StandsStill
      <3>2. Backed(e)
        BY <3>1 DEF EventInv
      <3> QED
        BY <3>2, BackedStays
    <2> QED
      BY <1>2, <2>1, Arrivals, WrittenIsBacked
  <1> QED
    BY <1>1, <1>2 DEF EventInv, EventsBacked, Processes

LEMMA OriginAndEventsHold == Spec => [](OriginInv /\ EventInv)
  <1>1. Init => OriginInv /\ EventInv
    BY EmptySeq DEF Init, OriginInv, MarriagesComeFromProposals, Engages, EventInv, EventsBacked
  <1>2. TypeInv /\ RegisterInv /\ OriginInv /\ EventInv /\ [Next]_vars => OriginInv' /\ EventInv'
    BY NextKeepsOriginInv, NextKeepsEventInv
  <1> QED
    BY <1>1, <1>2, TypeInvHolds, RegisterInvHolds, PTL DEF Spec

(* Nobody is married without having been asked: every marriage is between   *)
(* two characters one of whom has proposed to the other, in a proposal that *)
(* is settled and stays so.                                                 *)
THEOREM MarriagesAreProposed == Spec => []MarriagesComeFromProposals
  <1>1. OriginInv => MarriagesComeFromProposals
    BY DEF OriginInv
  <1> QED
    BY <1>1, OriginAndEventsHold, PTL

(* What the topic says, the tables say, for good: no event is published     *)
(* before the rows it speaks of are written, and no stale save of another   *)
(* handler, nor any failure, takes back what it says.                       *)
THEOREM PublishedIsWritten == Spec => []EventsBacked
  <1>1. EventInv => EventsBacked
    BY DEF EventInv
  <1> QED
    BY <1>1, OriginAndEventsHold, PTL

(* The invariant all of this rests on: what every handler holds in memory   *)
(* between two statements, and how it relates to tables others change.      *)
THEOREM InvariantHolds == Spec => []IInv
  <1>1. /\ TypeInv /\ CooldownInv /\ RepeatInv /\ WindowInv
        /\ RegisterInv /\ OriginInv /\ EventInv
        => IInv
    BY DEF IInv
  <1> QED
    BY <1>1, TypeInvHolds, CooldownInvHolds, RepeatInvHolds, WindowInvHolds, RegisterInvHolds,
       OriginAndEventsHold, PTL
=============================================================================
