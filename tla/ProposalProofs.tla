---------------------------- MODULE ProposalProofs ----------------------------
(****************************************************************************)
(* Theorems about Proposals, for every set of characters, handlers and      *)
(* sweepers, every cooldown and every bound.                                *)
(****************************************************************************)
EXTENDS ProposalInvariant, TableLemmas, WellFoundedInduction

(* The shapes of rows and jobs.                                             *)

LEMMA NewJobIsJob ==
    ASSUME NEW op \in Operations, NEW key \in Characters \cup {NoOne},
           NEW target \in Characters \cup {NoOne}, NEW pid \in Nat, NEW mid \in Nat
    PROVE  NewJob(op, key, target, pid, mid) \in Job
  BY DEF NewJob, Job

LEMMA NoJobIsJob == NoJob \in Job /\ NoJob.op = "none"
  <1>1. NoJob \in Job
    BY NewJobIsJob DEF NoJob, Operations
  <1> QED
    BY <1>1 DEF NoJob, NewJob

LEMMA NewProposalIsRow ==
    ASSUME TypeOK, NEW c \in Characters, NEW d \in Characters
    PROVE  NewProposal(c, d) \in ProposalRow
  BY DEF TypeOK, NewProposal, ProposalRow, ProposalStatus

LEMMA OutcomeValues ==
    /\ Outcome["accept"] = "accepted" /\ Outcome["decline"] = "rejected"
    /\ Outcome["cancel"] = "cancelled" /\ Outcome["expire"] = "expired"
  BY Zenon DEF Outcome

LEMMA RowWithCooldown ==
    ASSUME NEW q \in ProposalRow, NEW n \in Nat, NEW u \in Nat
    PROVE  LET d == [q EXCEPT !.rejections = n, !.cooldownUntil = u] IN
           /\ d \in ProposalRow
           /\ d.status = q.status /\ SamePair(d, q) /\ d.createdAt = q.createdAt
           /\ d.respondedAt = q.respondedAt /\ d.updatedAt = q.updatedAt
  BY DEF ProposalRow, SamePair

LEMMA StampedRow ==
    ASSUME TypeOK, NEW p \in ProposalRow, NEW status \in ProposalStatus
    PROVE  LET d == Stamped(p, status) IN
           /\ d \in ProposalRow
           /\ d.status = status /\ SamePair(d, p) /\ d.createdAt = p.createdAt
           /\ d.respondedAt = p.respondedAt /\ d.updatedAt = now
  BY DEF TypeOK, Stamped, ProposalRow, SamePair

LEMMA AnsweredRow ==
    ASSUME TypeOK, NEW p \in ProposalRow, NEW status \in ProposalStatus
    PROVE  LET d == Answered(p, status) IN
           /\ d \in ProposalRow
           /\ d.status = status /\ SamePair(d, p) /\ d.createdAt = p.createdAt
           /\ d.respondedAt = now /\ d.updatedAt = now
  <1> DEFINE q == Stamped(p, status)
  <1>1. q \in ProposalRow /\ q.status = status /\ SamePair(q, p) /\ q.createdAt = p.createdAt
        /\ q.updatedAt = now
    BY StampedRow
  <1>2. Answered(p, status) = [q EXCEPT !.respondedAt = now]
    BY DEF Answered
  <1> HIDE DEF q
  <1> QED
    BY <1>1, <1>2 DEF ProposalRow, SamePair, TypeOK

(* A save changes nothing of the row but its update stamp.                  *)
LEMMA SavedRow ==
    ASSUME TypeOK, NEW d \in ProposalRow
    PROVE  LET r == Saved(d) IN
           /\ r \in ProposalRow
           /\ r.status = d.status /\ SamePair(r, d) /\ r.createdAt = d.createdAt
           /\ r.respondedAt = d.respondedAt /\ r.updatedAt = now
           /\ r.rejections = d.rejections /\ r.cooldownUntil = d.cooldownUntil
           /\ r.proposer = d.proposer /\ r.target = d.target
  BY DEF TypeOK, Saved, ProposalRow, SamePair

(* A transformation changes status, stamps and cooldown of an open row.     *)
LEMMA TransformedRow ==
    ASSUME TypeOK, NEW op \in Answers \cup {"expire"}, NEW p \in ProposalRow,
           p.status = "pending", p.rejections = 0
    PROVE  LET d == Transformed(op, p) IN
           /\ d \in ProposalRow
           /\ d.status # "pending"
           /\ SamePair(d, p)
           /\ d.createdAt = p.createdAt
           /\ d.updatedAt = now
           /\ d.respondedAt = IF op \in {"accept", "decline"} THEN now ELSE p.respondedAt
           /\ d.status = Outcome[op]
           /\ d.status = "expired" <=> op = "expire"
           /\ d.status \in {"accepted", "rejected"} <=> op \in {"accept", "decline"}
  <1>1. CASE op = "decline"
    <2> DEFINE n == p.rejections + 1
               u == now + CalculateNextCooldown(p.rejections)
               q == Answered(p, "rejected")
    <2>1. n \in Nat /\ u \in Nat
      BY DurationsAreNat DEF CalculateNextCooldown, TypeOK
    <2>2. /\ q \in ProposalRow
          /\ q.status = "rejected" /\ SamePair(q, p) /\ q.createdAt = p.createdAt
          /\ q.respondedAt = now /\ q.updatedAt = now
      <3>1. "rejected" \in ProposalStatus
        BY DEF ProposalStatus
      <3> QED
        BY <3>1, AnsweredRow
    <2>3. Transformed(op, p) = [q EXCEPT !.rejections = n, !.cooldownUntil = u]
      BY <1>1, Zenon DEF Transformed
    <2> HIDE DEF n, u, q
    <2> DEFINE d == [q EXCEPT !.rejections = n, !.cooldownUntil = u]
    <2>4. /\ d \in ProposalRow
          /\ d.status = q.status /\ SamePair(d, q) /\ d.createdAt = q.createdAt
          /\ d.respondedAt = q.respondedAt /\ d.updatedAt = q.updatedAt
      BY <2>1, <2>2, RowWithCooldown
    <2>5. Transformed(op, p) = d
      BY <2>3
    <2> HIDE DEF d
    <2>6. SamePair(d, p)
      BY <2>2, <2>4 DEF SamePair
    <2>7. d \in ProposalRow /\ d.status = "rejected" /\ d.createdAt = p.createdAt
          /\ d.respondedAt = now /\ d.updatedAt = now
      BY <2>2, <2>4
    <2> QED
      BY <1>1, <2>5, <2>6, <2>7, OutcomeValues
  <1>2. CASE op = "accept"
    <2>1. "accepted" \in ProposalStatus
      BY DEF ProposalStatus
    <2>2. Transformed(op, p) = Answered(p, "accepted")
      BY <1>2 DEF Transformed
    <2> QED
      BY <1>2, <2>1, <2>2, AnsweredRow, OutcomeValues
  <1>3. CASE op \in {"cancel", "expire"}
    <2>1. Outcome[op] \in ProposalStatus /\ Outcome[op] \in {"cancelled", "expired"}
      BY <1>3, OutcomeValues DEF ProposalStatus
    <2>2. Transformed(op, p) = Stamped(p, Outcome[op])
      BY <1>3, Zenon DEF Transformed
    <2> QED
      BY <1>3, <2>1, <2>2, StampedRow, OutcomeValues
  <1> QED
    BY <1>1, <1>2, <1>3 DEF Answers

----------------------------------------------------------------------------
(* One step, action by action.                                              *)

LEMMA EnterStep ==
    ASSUME TypeOK, NEW w \in Processes, NEW label \in Labels, NEW j \in Job,
           Enter(w, label, j)
    PROVE  /\ TypeOK' /\ OnlyMoves(w) /\ pc[w] = "idle"
           /\ pc'[w] = label /\ job'[w] = j
           /\ UNCHANGED <<now, tables, published, todo, faults>>
  BY DEF TypeOK, Enter, Goto, OnlyMoves, tables

LEMMA CheckStepOK ==
    ASSUME TypeOK, NEW w \in Processes, NEW here, NEW passes, NEW next \in Labels,
           Check(w, here, passes, next)
    PROVE  /\ TypeOK' /\ OnlyMoves(w) /\ pc[w] = here
           /\ \/ passes /\ pc'[w] = next /\ job'[w] = job[w]
              \/ pc'[w] = "idle" /\ job'[w] = NoJob
           /\ UNCHANGED <<now, tables, published, todo, faults>>
  BY NoJobIsJob DEF TypeOK, Check, Goto, Finish, OnlyMoves, tables, Labels

LEMMA FinishStep ==
    ASSUME TypeOK, NEW w \in Processes, Finish(w)
    PROVE  /\ pc' \in [Processes -> Labels] /\ job' \in [Processes -> Job]
           /\ OnlyMoves(w) /\ pc'[w] = "idle" /\ job'[w] = NoJob
  BY NoJobIsJob DEF TypeOK, Goto, Finish, OnlyMoves, Labels

LEMMA GotoStep ==
    ASSUME TypeOK, NEW w \in Processes, NEW label \in Labels, Goto(w, label), NEW j \in Job,
           job' = [job EXCEPT ![w] = j]
    PROVE  /\ pc' \in [Processes -> Labels] /\ job' \in [Processes -> Job]
           /\ OnlyMoves(w) /\ pc'[w] = label /\ job'[w] = j
  BY DEF TypeOK, Goto, OnlyMoves

LEMMA TablesKept ==
    ASSUME UNCHANGED tables, OpenRowsFresh
    PROVE  TablesGrow /\ OpenRowsFresh'
  BY DEF tables, TablesGrow, Kept, SamePair, OpenRowsFresh

LEMMA BeginProposeStep ==
    ASSUME TypeInv, NEW w \in Workers, BeginPropose(w)
    PROVE  StepOK(w)
  <1>1. PICK r \in Requests : Enter(w, "proposerFree", NewJob("propose", r[1], r[2], 0, 0))
    BY DEF BeginPropose
  <1> DEFINE j == NewJob("propose", r[1], r[2], 0, 0)
  <1>2. r[1] \in Characters /\ r[2] \in Characters
    BY RequestsAreBetweenCharacters
  <1>3. j \in Job /\ j.op = "propose" /\ j.key = r[1] /\ j.target = r[2]
    <2>1. j \in Job
      BY <1>2, NewJobIsJob DEF Operations, Commands
    <2> QED
      BY <2>1 DEF NewJob
  <1>4. w \in Processes /\ "proposerFree" \in Labels /\ w \notin Sweepers
    BY SweepersAreNotWorkers DEF Processes, Labels
  <1>5. /\ TypeOK' /\ OnlyMoves(w) /\ pc'[w] = "proposerFree" /\ job'[w] = j
        /\ UNCHANGED <<now, tables, published, todo, faults>>
    BY <1>1, <1>3, <1>4, EnterStep DEF TypeInv
  <1> HIDE DEF j
  <1>6. TablesGrow /\ OpenRowsFresh'
    BY <1>5, TablesKept DEF TypeInv
  <1>7. JobOK(w)'
    BY <1>2, <1>3, <1>5 DEF JobOK, ProposeJobOK, AnswerJobOK, MarriageJobOK
  <1>8. SweepersOK'
    BY <1>3, <1>4, <1>5 DEF TypeInv, SweepersOK, OnlyMoves, tables, Processes
  <1> QED
    BY <1>5, <1>6, <1>7, <1>8 DEF StepOK

LEMMA BeginAnswerStep ==
    ASSUME TypeInv, NEW w \in Workers, BeginAnswer(w)
    PROVE  StepOK(w)
  <1>1. PICK op \in Answers, c \in Characters, i \in DOMAIN proposals :
          Enter(w, "loadProposal", NewJob(op, c, NoOne, i, 0))
    BY DEF BeginAnswer
  <1> DEFINE j == NewJob(op, c, NoOne, i, 0)
  <1>2. i \in Nat
    BY RowsAreRows DEF TypeInv, TypeOK
  <1>3. j \in Job /\ j.op = op /\ j.pid = i
    <2>1. j \in Job
      BY <1>2, NewJobIsJob DEF Operations, Commands
    <2> QED
      BY <2>1 DEF NewJob
  <1>4. w \in Processes /\ "loadProposal" \in Labels /\ w \notin Sweepers
    BY SweepersAreNotWorkers DEF Processes, Labels
  <1>5. /\ TypeOK' /\ OnlyMoves(w) /\ pc'[w] = "loadProposal" /\ job'[w] = j
        /\ UNCHANGED <<now, tables, published, todo, faults>>
    BY <1>1, <1>3, <1>4, EnterStep DEF TypeInv
  <1> HIDE DEF j
  <1>6. TablesGrow /\ OpenRowsFresh'
    BY <1>5, TablesKept DEF TypeInv
  <1>7. JobOK(w)'
    BY <1>3, <1>5 DEF JobOK, ProposeJobOK, AnswerJobOK, MarriageJobOK, EligibilityLabels,
                      tables, Answers
  <1>8. SweepersOK'
    BY <1>3, <1>4, <1>5 DEF TypeInv, SweepersOK, OnlyMoves, tables, Processes, Answers
  <1> QED
    BY <1>5, <1>6, <1>7, <1>8 DEF StepOK

LEMMA BeginDivorceStep ==
    ASSUME TypeInv, NEW w \in Workers, BeginDivorce(w)
    PROVE  StepOK(w)
  <1>1. PICK c \in Characters, m \in DOMAIN marriages :
          Enter(w, "loadMarriage", NewJob("divorce", c, NoOne, 0, m))
    BY DEF BeginDivorce
  <1> DEFINE j == NewJob("divorce", c, NoOne, 0, m)
  <1>2. m \in Nat
    BY RowsAreRows DEF TypeInv, TypeOK
  <1>3. j \in Job /\ j.op = "divorce" /\ j.key = c /\ j.mid = m
    <2>1. j \in Job
      BY <1>2, NewJobIsJob DEF Operations, Commands
    <2> QED
      BY <2>1 DEF NewJob
  <1>4. w \in Processes /\ "loadMarriage" \in Labels /\ w \notin Sweepers
    BY SweepersAreNotWorkers DEF Processes, Labels
  <1>5. /\ TypeOK' /\ OnlyMoves(w) /\ pc'[w] = "loadMarriage" /\ job'[w] = j
        /\ UNCHANGED <<now, tables, published, todo, faults>>
    BY <1>1, <1>3, <1>4, EnterStep DEF TypeInv
  <1> HIDE DEF j
  <1>6. TablesGrow /\ OpenRowsFresh'
    BY <1>5, TablesKept DEF TypeInv
  <1>7. JobOK(w)'
    BY <1>3, <1>5 DEF JobOK, ProposeJobOK, AnswerJobOK, MarriageJobOK, EligibilityLabels,
                      DissolvingOps, tables
  <1>8. SweepersOK'
    BY <1>3, <1>4, <1>5 DEF TypeInv, SweepersOK, OnlyMoves, tables, Processes
  <1> QED
    BY <1>5, <1>6, <1>7, <1>8 DEF StepOK

LEMMA BeginDeleteStep ==
    ASSUME TypeInv, NEW w \in Workers, BeginDelete(w)
    PROVE  StepOK(w)
  <1>1. PICK c \in Characters :
          Enter(w, "loadMarriage", NewJob("delete", c, NoOne, 0, 0))
    BY DEF BeginDelete
  <1> DEFINE j == NewJob("delete", c, NoOne, 0, 0)
  <1>3. j \in Job /\ j.op = "delete" /\ j.key = c
    <2>1. j \in Job
      BY NewJobIsJob DEF Operations, Commands
    <2> QED
      BY <2>1 DEF NewJob
  <1>4. w \in Processes /\ "loadMarriage" \in Labels /\ w \notin Sweepers
    BY SweepersAreNotWorkers DEF Processes, Labels
  <1>5. /\ TypeOK' /\ OnlyMoves(w) /\ pc'[w] = "loadMarriage" /\ job'[w] = j
        /\ UNCHANGED <<now, tables, published, todo, faults>>
    BY <1>1, <1>3, <1>4, EnterStep DEF TypeInv
  <1> HIDE DEF j
  <1>6. TablesGrow /\ OpenRowsFresh'
    BY <1>5, TablesKept DEF TypeInv
  <1>7. JobOK(w)'
    BY <1>3, <1>5 DEF JobOK, ProposeJobOK, AnswerJobOK, MarriageJobOK, EligibilityLabels,
                      DissolvingOps, tables
  <1>8. SweepersOK'
    BY <1>3, <1>4, <1>5 DEF TypeInv, SweepersOK, OnlyMoves, tables, Processes
  <1> QED
    BY <1>5, <1>6, <1>7, <1>8 DEF StepOK

(* A step that leaves a process with the operation it has, or with none,    *)
(* leaves the division of labour as it is.                                  *)
LEMMA SameLabour ==
    ASSUME TypeInv, NEW w \in Processes, TablesGrow, OnlyMoves(w), UNCHANGED todo,
           job'[w].op = job[w].op \/ job'[w].op = "none"
    PROVE  SweepersOK'
  <1>1. ASSUME NEW v \in Processes PROVE job'[v].op = job[v].op \/ job'[v].op = "none"
    BY DEF OnlyMoves
  <1>2. \A s \in Sweepers : job'[s].op \in {"none", "expire"} /\ todo'[s] \subseteq DOMAIN proposals'
    BY <1>1 DEF TypeInv, SweepersOK, TablesGrow, Processes
  <1>3. \A v \in Workers : job'[v].op # "expire"
    BY <1>1 DEF TypeInv, SweepersOK, Processes
  <1> QED
    BY <1>2, <1>3 DEF SweepersOK

LEMMA NoJobIsOK ==
    ASSUME NEW w, pc'[w] = "idle", job'[w] = NoJob
    PROVE  JobOK(w)'
  BY NoJobIsJob DEF JobOK, ProposeJobOK, AnswerJobOK, MarriageJobOK, EligibilityLabels

LEMMA CheckStepStep ==
    ASSUME TypeInv, NEW w \in Processes, CheckStep(w)
    PROVE  StepOK(w)
  <1>1. PICK here \in EligibilityLabels, next \in EligibilityLabels \ {"proposerFree"} :
          \E passes : Check(w, here, passes, next)
    BY DEF CheckStep, CheckProposerFree, CheckTargetFree, CheckNoneActive,
           CheckGlobalCooldown, CheckTargetCooldown, EligibilityLabels
  <1>2. next \in Labels /\ next # "idle"
    BY DEF EligibilityLabels, Labels
  <1>3. /\ TypeOK' /\ OnlyMoves(w) /\ pc[w] = here
        /\ \/ pc'[w] = next /\ job'[w] = job[w]
           \/ pc'[w] = "idle" /\ job'[w] = NoJob
        /\ UNCHANGED <<now, tables, published, todo, faults>>
    BY <1>1, <1>2, CheckStepOK DEF TypeInv
  <1>4. TablesGrow /\ OpenRowsFresh'
    BY <1>3, TablesKept DEF TypeInv
  <1>5. JobOK(w)'
    <2>1. CASE pc'[w] = "idle" /\ job'[w] = NoJob
      BY <2>1, NoJobIsOK
    <2>2. CASE pc'[w] = next /\ job'[w] = job[w]
      <3>1. ProposeJobOK(w) /\ pc[w] \in EligibilityLabels
        BY <1>3 DEF TypeInv, JobsOK, JobOK
      <3> QED
        BY <1>2, <2>2, <3>1
        DEF JobOK, ProposeJobOK, AnswerJobOK, MarriageJobOK, EligibilityLabels
    <2> QED
      BY <1>3, <2>1, <2>2
  <1>6. SweepersOK'
    BY <1>3, <1>4, SameLabour, NoJobIsJob
  <1> QED
    BY <1>3, <1>4, <1>5, <1>6 DEF StepOK

LEMMA InsertProposalStep ==
    ASSUME TypeInv, NEW w \in Processes, InsertProposal(w)
    PROVE  StepOK(w)
  <1> DEFINE p == NewProposal(job[w].key, job[w].target)
             n == Len(proposals) + 1
             j == [job[w] EXCEPT !.pid = n]
  <1>1. pc[w] = "insert" /\ proposals' = Append(proposals, p)
    BY DEF InsertProposal
  <1>2. job[w].key \in Characters /\ job[w].target \in Characters /\ job[w].op = "propose"
    BY <1>1 DEF TypeInv, JobsOK, JobOK, ProposeJobOK, EligibilityLabels
  <1>3. p \in ProposalRow /\ p.status = "pending" /\ p.rejections = 0
    <2>1. p \in ProposalRow
      BY <1>2, NewProposalIsRow DEF TypeInv
    <2> QED
      BY <2>1 DEF NewProposal
  <1>4. /\ proposals' \in Seq(ProposalRow) /\ n \in Nat
        /\ DOMAIN proposals' = DOMAIN proposals \cup {n}
        /\ \A i \in DOMAIN proposals : proposals'[i] = proposals[i]
        /\ proposals'[n] = p
    BY <1>1, <1>3, AppendedRow DEF TypeInv, TypeOK
  <1>5. j \in Job /\ j.op = "propose"
    <2>1. job[w] \in Job
      BY DEF TypeInv, TypeOK
    <2> QED
      BY <1>2, <1>4, <2>1 DEF Job
  <1> HIDE DEF p, n, j
  <1>6. /\ pc' \in [Processes -> Labels] /\ job' \in [Processes -> Job]
        /\ OnlyMoves(w)
        /\ \/ pc'[w] = "emit" /\ job'[w] = j
           \/ pc'[w] = "idle" /\ job'[w] = NoJob
    <2>1. CASE Finish(w)
      BY <2>1, FinishStep DEF TypeInv
    <2>2. CASE Goto(w, "emit") /\ job' = [job EXCEPT ![w].pid = Len(proposals) + 1]
      <3>1. job' = [job EXCEPT ![w] = j]
        BY <2>2 DEF j, n
      <3>2. "emit" \in Labels
        BY DEF Labels
      <3> QED
        BY <1>5, <2>2, <3>1, <3>2, GotoStep DEF TypeInv
    <2> QED
      BY <2>1, <2>2 DEF InsertProposal
  <1>7. TypeOK'
    BY <1>4, <1>6 DEF TypeInv, TypeOK, InsertProposal
  <1>8. TablesGrow
    BY <1>4 DEF TablesGrow, Kept, SamePair, InsertProposal
  <1>9. OpenRowsFresh'
    BY <1>3, <1>4 DEF TypeInv, OpenRowsFresh
  <1>10. JobOK(w)'
    BY <1>5, <1>6, NoJobIsOK
    DEF JobOK, ProposeJobOK, AnswerJobOK, MarriageJobOK, EligibilityLabels
  <1>11. SweepersOK'
    BY <1>2, <1>5, <1>6, <1>8, SameLabour, NoJobIsJob DEF InsertProposal
  <1> QED
    BY <1>6, <1>7, <1>8, <1>9, <1>10, <1>11 DEF StepOK

LEMMA LoadProposalStep ==
    ASSUME TypeInv, NEW w \in Processes, LoadProposal(w)
    PROVE  /\ StepOK(w)
           /\ pc'[w] = "saveProposal" =>
                /\ job'[w].draft = Transformed(job[w].op, proposals[job[w].pid])
                /\ job'[w].op = job[w].op /\ job'[w].pid = job[w].pid
                /\ MayTransform(job[w].op, proposals[job[w].pid])
  <1> DEFINE op == job[w].op
             p == proposals[job[w].pid]
             d == Transformed(op, p)
             j == [job[w] EXCEPT !.draft = d]
  <1>1. pc[w] = "loadProposal" /\ UNCHANGED <<now, tables, published, todo, faults>>
    BY DEF LoadProposal
  <1>2. op \in Answers \cup {"expire"} /\ job[w].pid \in DOMAIN proposals
    BY <1>1 DEF TypeInv, JobsOK, JobOK, AnswerJobOK
  <1>3. p \in ProposalRow
    BY <1>2, RowsAreRows DEF TypeInv, TypeOK
  <1>4. TablesGrow /\ OpenRowsFresh'
    BY <1>1, TablesKept DEF TypeInv
  <1>5. CASE MayTransform(op, p)
    <2>1. p.status = "pending" /\ p.rejections = 0
      BY <1>2, <1>5 DEF MayTransform, CanRespond, TypeInv, OpenRowsFresh
    <2>2. /\ d \in ProposalRow /\ d.status # "pending"
          /\ SamePair(d, p) /\ d.createdAt = p.createdAt
      BY <1>2, <1>3, <2>1, TransformedRow DEF TypeInv
    <2> HIDE DEF d
    <2>3. job[w] \in Job
      BY DEF TypeInv, TypeOK
    <2>4. j \in Job /\ j.op = op /\ j.pid = job[w].pid /\ j.draft = d
      BY <2>2, <2>3 DEF Job
    <2>5. job' = [job EXCEPT ![w] = j] /\ Goto(w, "saveProposal") /\ "saveProposal" \in Labels
      BY <1>5 DEF LoadProposal, d, Labels
    <2> HIDE DEF j
    <2>6. /\ pc' \in [Processes -> Labels] /\ job' \in [Processes -> Job]
          /\ OnlyMoves(w) /\ pc'[w] = "saveProposal" /\ job'[w] = j
      BY <2>4, <2>5, GotoStep DEF TypeInv
    <2>7. TypeOK'
      BY <1>1, <2>6 DEF TypeInv, TypeOK, tables
    <2>8. JobOK(w)'
      BY <1>1, <1>2, <2>2, <2>4, <2>6
      DEF JobOK, ProposeJobOK, AnswerJobOK, MarriageJobOK, EligibilityLabels, tables, Answers
    <2>9. SweepersOK'
      BY <1>1, <1>4, <2>4, <2>6, SameLabour
    <2> QED
      BY <1>4, <1>5, <2>4, <2>6, <2>7, <2>8, <2>9 DEF StepOK, d
  <1>6. CASE ~MayTransform(op, p)
    <2>1. Finish(w)
      BY <1>6 DEF LoadProposal
    <2>2. /\ pc' \in [Processes -> Labels] /\ job' \in [Processes -> Job]
          /\ OnlyMoves(w) /\ pc'[w] = "idle" /\ job'[w] = NoJob
      BY <2>1, FinishStep DEF TypeInv
    <2>3. TypeOK'
      BY <1>1, <2>2 DEF TypeInv, TypeOK, tables
    <2> QED
      BY <1>1, <1>4, <2>2, <2>3, NoJobIsOK, SameLabour, NoJobIsJob DEF StepOK
  <1> QED
    BY <1>5, <1>6

LEMMA SaveProposalStep ==
    ASSUME TypeInv, NEW w \in Processes, SaveProposal(w)
    PROVE  /\ StepOK(w)
           /\ DOMAIN proposals' = DOMAIN proposals
           /\ \A i \in DOMAIN proposals :
                proposals'[i] = IF i = job[w].pid THEN Saved(job[w].draft) ELSE proposals[i]
           /\ job'[w] = job[w] /\ UNCHANGED <<now, todo>>
  <1> DEFINE b == job[w].draft
             d == Saved(b)
             k == job[w].pid
             label == IF job[w].op = "accept" THEN "createMarriage" ELSE "emit"
  <1>1. /\ pc[w] = "saveProposal" /\ proposals' = [proposals EXCEPT ![k] = d]
        /\ Goto(w, label) /\ UNCHANGED <<now, marriages, published, job, todo, faults>>
    BY DEF SaveProposal
  <1>2. /\ k \in DOMAIN proposals /\ d \in ProposalRow /\ d.status # "pending"
        /\ SamePair(d, proposals[k]) /\ d.createdAt = proposals[k].createdAt
        /\ job[w].op \in Answers \cup {"expire"}
        /\ b \in ProposalRow /\ b.status # "pending"
        /\ SamePair(b, proposals[k]) /\ b.createdAt = proposals[k].createdAt
    <2>1. /\ k \in DOMAIN proposals /\ b \in ProposalRow /\ b.status # "pending"
          /\ SamePair(b, proposals[k]) /\ b.createdAt = proposals[k].createdAt
          /\ job[w].op \in Answers \cup {"expire"}
      BY <1>1 DEF TypeInv, JobsOK, JobOK, AnswerJobOK
    <2> QED
      BY <2>1, SavedRow DEF TypeInv, SamePair
  <1> HIDE DEF d
  <1>3. /\ proposals' \in Seq(ProposalRow)
        /\ DOMAIN proposals' = DOMAIN proposals
        /\ \A i \in DOMAIN proposals :
             proposals'[i] = IF i = k THEN d ELSE proposals[i]
    BY <1>1, <1>2, UpdatedRow DEF TypeInv, TypeOK
  <1>4. label \in Labels /\ label # "idle"
    BY DEF Labels
  <1>5. TypeOK' /\ OnlyMoves(w) /\ pc'[w] = label /\ job'[w] = job[w]
    BY <1>1, <1>3, <1>4 DEF TypeInv, TypeOK, OnlyMoves, Goto
  <1>6. TablesGrow /\ OpenRowsFresh'
    BY <1>1, <1>2, <1>3 DEF TablesGrow, Kept, SamePair, TypeInv, OpenRowsFresh
  <1>7. JobOK(w)'
    BY <1>2, <1>3, <1>5
    DEF JobOK, ProposeJobOK, AnswerJobOK, MarriageJobOK, EligibilityLabels, Answers, SamePair
  <1>8. SweepersOK'
    BY <1>1, <1>5, <1>6, SameLabour
  <1> QED
    BY <1>1, <1>3, <1>5, <1>6, <1>7, <1>8 DEF StepOK, d

(* The row a save leaves is the draft with a new update stamp.              *)
LEMMA SavedProposal ==
    ASSUME TypeInv, NEW w \in Processes, SaveProposal(w)
    PROVE  LET k == job[w].pid d == job[w].draft r == proposals'[k] IN
           /\ k \in DOMAIN proposals /\ k \in DOMAIN proposals'
           /\ d \in ProposalRow /\ r \in ProposalRow
           /\ r.status = d.status /\ d.status # "pending"
           /\ SamePair(d, proposals[k]) /\ SamePair(r, proposals[k])
           /\ d.createdAt = proposals[k].createdAt /\ r.createdAt = proposals[k].createdAt
           /\ r.respondedAt = d.respondedAt /\ r.updatedAt = now
           /\ r.cooldownUntil = d.cooldownUntil
           /\ r.proposer = proposals[k].proposer /\ r.target = proposals[k].target
           /\ d.proposer = proposals[k].proposer /\ d.target = proposals[k].target
  <1> DEFINE k == job[w].pid
             d == job[w].draft
             r == Saved(d)
  <1>1. /\ k \in DOMAIN proposals /\ d \in ProposalRow /\ d.status # "pending"
        /\ SamePair(d, proposals[k]) /\ d.createdAt = proposals[k].createdAt
    BY DEF SaveProposal, TypeInv, JobsOK, JobOK, AnswerJobOK
  <1>2. /\ r \in ProposalRow
        /\ r.status = d.status /\ SamePair(r, d) /\ r.createdAt = d.createdAt
        /\ r.respondedAt = d.respondedAt /\ r.updatedAt = now
        /\ r.cooldownUntil = d.cooldownUntil
    BY <1>1, SavedRow DEF TypeInv
  <1>3. k \in DOMAIN proposals' /\ proposals'[k] = r
    BY <1>1, SaveProposalStep
  <1> HIDE DEF k, d, r
  <1>4. /\ d.proposer = proposals[k].proposer /\ d.target = proposals[k].target
        /\ r.proposer = d.proposer /\ r.target = d.target
    BY <1>1, <1>2 DEF SamePair
  <1> QED
    BY <1>1, <1>2, <1>3, <1>4 DEF k, d, SamePair

LEMMA CreateMarriageStep ==
    ASSUME TypeInv, NEW w \in Processes, CreateMarriage(w)
    PROVE  StepOK(w)
  <1> DEFINE d == job[w].draft
             m == [partner1 |-> d.proposer, partner2 |-> d.target, status |-> "proposed"]
             n == Len(marriages) + 1
             j == [job[w] EXCEPT !.mid = n]
  <1>1. /\ pc[w] = "createMarriage" /\ marriages' = Append(marriages, m)
        /\ job' = [job EXCEPT ![w] = j] /\ Goto(w, "saveMarriage")
        /\ UNCHANGED <<now, proposals, published, todo, faults>>
    BY DEF CreateMarriage
  <1>2. d \in ProposalRow /\ job[w].op = "accept"
    BY <1>1 DEF TypeInv, JobsOK, JobOK, AnswerJobOK
  <1>3. m \in MarriageRow
    BY <1>2 DEF ProposalRow, MarriageRow, MarriageStatus
  <1>4. /\ marriages' \in Seq(MarriageRow) /\ n \in Nat
        /\ DOMAIN marriages \subseteq DOMAIN marriages' /\ n \in DOMAIN marriages'
    BY <1>1, <1>3, AppendedRow DEF TypeInv, TypeOK
  <1>5. j \in Job /\ j.op = "accept" /\ j.mid = n
    <2>1. job[w] \in Job
      BY DEF TypeInv, TypeOK
    <2> QED
      BY <1>2, <1>4, <2>1 DEF Job
  <1> HIDE DEF d, m, n, j
  <1>6. "saveMarriage" \in Labels
    BY DEF Labels
  <1>7. /\ pc' \in [Processes -> Labels] /\ job' \in [Processes -> Job]
        /\ OnlyMoves(w) /\ pc'[w] = "saveMarriage" /\ job'[w] = j
    BY <1>1, <1>5, <1>6, GotoStep DEF TypeInv
  <1>8. TypeOK'
    BY <1>1, <1>4, <1>7 DEF TypeInv, TypeOK
  <1>9. TablesGrow /\ OpenRowsFresh'
    BY <1>1, <1>4 DEF TablesGrow, Kept, SamePair, TypeInv, OpenRowsFresh
  <1>10. JobOK(w)'
    BY <1>4, <1>5, <1>7 DEF JobOK, ProposeJobOK, AnswerJobOK, MarriageJobOK, EligibilityLabels
  <1>11. SweepersOK'
    BY <1>1, <1>2, <1>5, <1>7, <1>9, SameLabour
  <1> QED
    BY <1>7, <1>8, <1>9, <1>10, <1>11 DEF StepOK

LEMMA LoadMarriageStep ==
    ASSUME TypeInv, NEW w \in Processes, LoadMarriage(w)
    PROVE  StepOK(w)
  <1>1. pc[w] = "loadMarriage" /\ UNCHANGED <<now, tables, published, todo, faults>>
    BY DEF LoadMarriage
  <1>2. /\ job[w].op \in DissolvingOps
        /\ job[w].op = "divorce" => job[w].mid \in DOMAIN marriages
    BY <1>1 DEF TypeInv, JobsOK, JobOK, MarriageJobOK
  <1>3. TablesGrow /\ OpenRowsFresh'
    BY <1>1, TablesKept DEF TypeInv
  <1>4. ASSUME NEW m \in Dissolvable(job[w]), job' = [job EXCEPT ![w].mid = m],
               Goto(w, "saveMarriage")
        PROVE  StepOK(w)
    <2> DEFINE j == [job[w] EXCEPT !.mid = m]
    <2>1. m \in DOMAIN marriages
      BY <1>2, <1>4 DEF Dissolvable, First, ActiveMarriages, DissolvingOps
    <2>2. m \in Nat
      BY <2>1, RowsAreRows DEF TypeInv, TypeOK
    <2>3. j \in Job /\ j.op = job[w].op /\ j.mid = m
      <3>1. job[w] \in Job
        BY DEF TypeInv, TypeOK
      <3> QED
        BY <2>2, <3>1 DEF Job
    <2>4. job' = [job EXCEPT ![w] = j] /\ "saveMarriage" \in Labels
      BY <1>4 DEF Labels
    <2> HIDE DEF j
    <2>5. /\ pc' \in [Processes -> Labels] /\ job' \in [Processes -> Job]
          /\ OnlyMoves(w) /\ pc'[w] = "saveMarriage" /\ job'[w] = j
      BY <1>4, <2>3, <2>4, GotoStep DEF TypeInv
    <2>6. TypeOK'
      BY <1>1, <2>5 DEF TypeInv, TypeOK, tables
    <2>7. JobOK(w)'
      BY <1>1, <1>2, <2>1, <2>3, <2>5
      DEF JobOK, ProposeJobOK, AnswerJobOK, MarriageJobOK, EligibilityLabels, DissolvingOps, tables
    <2>8. SweepersOK'
      BY <1>1, <1>3, <2>3, <2>5, SameLabour
    <2> QED
      BY <1>3, <2>5, <2>6, <2>7, <2>8 DEF StepOK
  <1>5. CASE Finish(w)
    <2>1. /\ pc' \in [Processes -> Labels] /\ job' \in [Processes -> Job]
          /\ OnlyMoves(w) /\ pc'[w] = "idle" /\ job'[w] = NoJob
      BY <1>5, FinishStep DEF TypeInv
    <2>2. TypeOK'
      BY <1>1, <2>1 DEF TypeInv, TypeOK, tables
    <2> QED
      BY <1>1, <1>3, <2>1, <2>2, NoJobIsOK, SameLabour, NoJobIsJob DEF StepOK
  <1> QED
    BY <1>4, <1>5 DEF LoadMarriage

LEMMA SaveMarriageStep ==
    ASSUME TypeInv, NEW w \in Processes, SaveMarriage(w)
    PROVE  StepOK(w)
  <1> DEFINE k == job[w].mid
             status == IF job[w].op = "accept" THEN "engaged" ELSE "divorced"
             m == [marriages[k] EXCEPT !.status = status]
  <1>1. /\ pc[w] = "saveMarriage" /\ marriages' = [marriages EXCEPT ![k] = m]
        /\ Goto(w, "emit") /\ UNCHANGED <<now, proposals, published, job, todo, faults>>
    BY DEF SaveMarriage
  <1>2. k \in DOMAIN marriages
    BY <1>1 DEF TypeInv, JobsOK, JobOK, MarriageJobOK
  <1>3. m \in MarriageRow
    <2>1. marriages[k] \in MarriageRow
      BY <1>2, RowsAreRows DEF TypeInv, TypeOK
    <2> QED
      BY <2>1 DEF MarriageRow, MarriageStatus
  <1> HIDE DEF m
  <1>4. marriages' \in Seq(MarriageRow) /\ DOMAIN marriages' = DOMAIN marriages
    BY <1>1, <1>2, <1>3, UpdatedRow DEF TypeInv, TypeOK
  <1>5. TypeOK' /\ OnlyMoves(w) /\ pc'[w] = "emit" /\ job'[w] = job[w]
    BY <1>1, <1>4 DEF TypeInv, TypeOK, OnlyMoves, Goto, Labels
  <1>6. TablesGrow /\ OpenRowsFresh'
    BY <1>1, <1>4 DEF TablesGrow, Kept, SamePair, TypeInv, OpenRowsFresh
  <1>7. JobOK(w)'
    BY <1>1, <1>5 DEF JobOK, ProposeJobOK, AnswerJobOK, MarriageJobOK, EligibilityLabels,
                      TypeInv, JobsOK
  <1>8. SweepersOK'
    BY <1>1, <1>5, <1>6, SameLabour
  <1> QED
    BY <1>5, <1>6, <1>7, <1>8 DEF StepOK

LEMMA EventsAreEvents ==
    ASSUME NEW j \in Job, j.op # "none"
    PROVE  EventsOf(j) \subseteq [type : EventTypes, id : Nat]
  <1>1. EventType[j.op] \in EventTypes
    <2>1. /\ EventType["propose"] = "PROPOSAL_CREATED" /\ EventType["accept"] = "PROPOSAL_ACCEPTED"
          /\ EventType["decline"] = "PROPOSAL_DECLINED" /\ EventType["cancel"] = "PROPOSAL_CANCELLED"
          /\ EventType["expire"] = "PROPOSAL_EXPIRED" /\ EventType["divorce"] = "MARRIAGE_DIVORCED"
          /\ EventType["delete"] = "MARRIAGE_DELETED"
      BY Zenon DEF EventType
    <2>2. j.op \in Operations
      BY DEF Job
    <2> QED
      BY <2>1, <2>2 DEF Operations, Commands, Answers, EventTypes
  <1>2. j.mid \in Nat /\ j.pid \in Nat
    BY DEF Job
  <1> DEFINE type == EventType[j.op]
  <1> HIDE DEF type
  <1>3. type \in EventTypes
    BY <1>1 DEF type
  <1>4. EventsOf(j) = LET id == IF j.op \in {"divorce", "delete"} THEN j.mid ELSE j.pid IN
                      {Event(type, id)} \cup
                      (IF j.op = "accept" THEN {Event("MARRIAGE_CREATED", j.mid)} ELSE {})
    BY Zenon DEF EventsOf, type
  <1> QED
    BY <1>2, <1>3, <1>4 DEF Event, EventTypes

LEMMA EmitStep ==
    ASSUME TypeInv, NEW w \in Processes, Emit(w)
    PROVE  StepOK(w)
  <1>1. /\ pc[w] = "emit" /\ published' = published \cup EventsOf(job[w]) /\ Finish(w)
        /\ UNCHANGED <<now, tables, todo, faults>>
    BY DEF Emit
  <1>2. EventsOf(job[w]) \subseteq [type : EventTypes, id : Nat]
    BY <1>1, EventsAreEvents DEF TypeInv, TypeOK, JobsOK, JobOK
  <1>3. /\ pc' \in [Processes -> Labels] /\ job' \in [Processes -> Job]
        /\ OnlyMoves(w) /\ pc'[w] = "idle" /\ job'[w] = NoJob
    BY <1>1, FinishStep DEF TypeInv
  <1>4. TypeOK'
    BY <1>1, <1>2, <1>3 DEF TypeInv, TypeOK, tables
  <1>5. TablesGrow /\ OpenRowsFresh'
    BY <1>1, TablesKept DEF TypeInv
  <1> QED
    BY <1>1, <1>3, <1>4, <1>5, NoJobIsOK, SameLabour, NoJobIsJob DEF StepOK

(* What another process holds is not invalidated by growing tables.         *)
LEMMA JobSurvives ==
    ASSUME TypeInv, NEW v \in Processes, TablesGrow, pc'[v] = pc[v], job'[v] = job[v]
    PROVE  JobOK(v)'
  <1>1. JobOK(v)
    BY DEF TypeInv, JobsOK
  <1>2. pc'[v] = "idle" <=> job'[v].op = "none"
    BY <1>1 DEF JobOK
  <1>3. ProposeJobOK(v)'
    BY <1>1 DEF JobOK, ProposeJobOK
  <1>4. AnswerJobOK(v)'
    BY <1>1 DEF JobOK, AnswerJobOK, TablesGrow, Kept, SamePair
  <1>5. MarriageJobOK(v)'
    BY <1>1 DEF JobOK, MarriageJobOK, TablesGrow
  <1> QED
    BY <1>2, <1>3, <1>4, <1>5 DEF JobOK

LEMMA SweepQueryStep ==
    ASSUME TypeInv, NEW s \in Sweepers, SweepQuery(s)
    PROVE  StepOK(s)
  <1>1. /\ todo' = [todo EXCEPT ![s] = DueProposals]
        /\ UNCHANGED <<now, tables, published, pc, job, faults>>
    BY DEF SweepQuery
  <1>2. DueProposals \subseteq DOMAIN proposals /\ DOMAIN proposals \subseteq Nat
    BY RowsAreRows DEF DueProposals, Pending, TypeInv, TypeOK
  <1>3. TypeOK'
    BY <1>1, <1>2 DEF TypeInv, TypeOK, tables
  <1>4. TablesGrow /\ OpenRowsFresh'
    BY <1>1, TablesKept DEF TypeInv
  <1>5. OnlyMoves(s) /\ s \in Processes
    BY <1>1 DEF OnlyMoves, Processes
  <1>6. JobOK(s)'
    BY <1>1, <1>4, <1>5, JobSurvives
  <1>7. SweepersOK'
    BY <1>1, <1>2 DEF TypeInv, TypeOK, SweepersOK, tables
  <1> QED
    BY <1>3, <1>4, <1>5, <1>6, <1>7 DEF StepOK

LEMMA SweepNextStep ==
    ASSUME TypeInv, NEW s \in Sweepers, SweepNext(s)
    PROVE  StepOK(s)
  <1>1. PICK i \in todo[s] :
          /\ todo' = [todo EXCEPT ![s] = @ \ {i}]
          /\ job' = [job EXCEPT ![s] = NewJob("expire", NoOne, NoOne, i, 0)]
          /\ Goto(s, "loadProposal")
          /\ UNCHANGED <<now, tables, published, faults>>
    BY DEF SweepNext
  <1> DEFINE j == NewJob("expire", NoOne, NoOne, i, 0)
  <1>2. i \in DOMAIN proposals /\ i \in Nat
    BY RowsAreRows DEF TypeInv, TypeOK, SweepersOK
  <1>3. j \in Job /\ j.op = "expire" /\ j.pid = i
    <2>1. j \in Job
      BY <1>2, NewJobIsJob DEF Operations
    <2> QED
      BY <2>1 DEF NewJob
  <1>4. s \in Processes /\ s \notin Workers /\ "loadProposal" \in Labels
    BY SweepersAreNotWorkers DEF Processes, Labels
  <1> HIDE DEF j
  <1>5. /\ pc' \in [Processes -> Labels] /\ job' \in [Processes -> Job]
        /\ OnlyMoves(s) /\ pc'[s] = "loadProposal" /\ job'[s] = j
    <2>1. job' = [job EXCEPT ![s] = j]
      BY <1>1 DEF j
    <2> QED
      BY <1>1, <1>3, <1>4, <2>1, GotoStep DEF TypeInv
  <1>6. TypeOK'
    BY <1>1, <1>5 DEF TypeInv, TypeOK, tables
  <1>7. TablesGrow /\ OpenRowsFresh'
    BY <1>1, TablesKept DEF TypeInv
  <1>8. JobOK(s)'
    BY <1>1, <1>2, <1>3, <1>5 DEF JobOK, ProposeJobOK, AnswerJobOK, MarriageJobOK,
                                  EligibilityLabels, tables
  <1>9. SweepersOK'
    <2>1. \A v \in Workers : job'[v] = job[v]
      BY <1>4, <1>5 DEF OnlyMoves, Processes
    <2>2. \A r \in Sweepers : todo'[r] \subseteq DOMAIN proposals'
      BY <1>1 DEF TypeInv, TypeOK, SweepersOK, tables
    <2>3. \A r \in Sweepers : job'[r].op \in {"none", "expire"}
      BY <1>3, <1>5 DEF TypeInv, SweepersOK, OnlyMoves, Processes
    <2> QED
      BY <2>1, <2>2, <2>3 DEF TypeInv, SweepersOK
  <1> QED
    BY <1>5, <1>6, <1>7, <1>8, <1>9 DEF StepOK

LEMMA AbortStep ==
    ASSUME TypeInv, NEW w \in Processes, Abort(w)
    PROVE  StepOK(w)
  <1>1. /\ faults < MaxFaults /\ faults' = faults + 1 /\ Finish(w)
        /\ UNCHANGED <<now, tables, published, todo>>
    BY DEF Abort
  <1>2. /\ pc' \in [Processes -> Labels] /\ job' \in [Processes -> Job]
        /\ OnlyMoves(w) /\ pc'[w] = "idle" /\ job'[w] = NoJob
    BY <1>1, FinishStep DEF TypeInv
  <1>3. TypeOK'
    BY <1>1, <1>2, BoundsAreNat DEF TypeInv, TypeOK, tables
  <1>4. TablesGrow /\ OpenRowsFresh'
    BY <1>1, TablesKept DEF TypeInv
  <1> QED
    BY <1>1, <1>2, <1>3, <1>4, NoJobIsOK, SameLabour, NoJobIsJob DEF StepOK

LEMMA CrashSweepStep ==
    ASSUME TypeInv, NEW s \in Sweepers, CrashSweep(s)
    PROVE  StepOK(s)
  <1>1. /\ faults < MaxFaults /\ faults' = faults + 1 /\ Finish(s)
        /\ todo' = [todo EXCEPT ![s] = {}]
        /\ UNCHANGED <<now, tables, published>>
    BY DEF CrashSweep
  <1>2. s \in Processes /\ s \notin Workers
    BY SweepersAreNotWorkers DEF Processes
  <1>3. /\ pc' \in [Processes -> Labels] /\ job' \in [Processes -> Job]
        /\ OnlyMoves(s) /\ pc'[s] = "idle" /\ job'[s] = NoJob
    BY <1>1, <1>2, FinishStep DEF TypeInv
  <1>4. TypeOK'
    BY <1>1, <1>3, BoundsAreNat DEF TypeInv, TypeOK, tables
  <1>5. TablesGrow /\ OpenRowsFresh'
    BY <1>1, TablesKept DEF TypeInv
  <1>6. SweepersOK'
    <2>1. \A v \in Workers : job'[v] = job[v]
      BY <1>2, <1>3 DEF OnlyMoves, Processes
    <2>2. \A r \in Sweepers : todo'[r] \subseteq DOMAIN proposals'
      BY <1>1 DEF TypeInv, TypeOK, SweepersOK, tables
    <2>3. \A r \in Sweepers : job'[r].op \in {"none", "expire"}
      BY <1>3, NoJobIsJob DEF TypeInv, SweepersOK, OnlyMoves, Processes
    <2> QED
      BY <2>1, <2>2, <2>3 DEF TypeInv, SweepersOK
  <1> QED
    BY <1>3, <1>4, <1>5, <1>6, NoJobIsOK DEF StepOK

(* What one process does leaves what all of them hold consistent.           *)
LEMMA StepKeepsTypeInv ==
    ASSUME TypeInv, NEW w \in Processes, StepOK(w)
    PROVE  TypeInv'
  <1>1. ASSUME NEW v \in Processes PROVE JobOK(v)'
    <2>1. CASE v = w
      BY <2>1 DEF StepOK
    <2>2. CASE v # w
      BY <2>2, JobSurvives DEF StepOK, OnlyMoves
    <2> QED
      BY <2>1, <2>2
  <1>2. JobsOK'
    BY <1>1 DEF JobsOK, Processes
  <1> QED
    BY <1>2 DEF StepOK, TypeInv

LEMMA StatementStep ==
    ASSUME TypeInv, NEW w \in Processes, Statement(w)
    PROVE  StepOK(w)
  <1>1. CASE CheckStep(w)
    BY <1>1, CheckStepStep
  <1>2. CASE InsertProposal(w)
    BY <1>2, InsertProposalStep
  <1>3. CASE LoadProposal(w)
    BY <1>3, LoadProposalStep
  <1>4. CASE SaveProposal(w)
    BY <1>4, SaveProposalStep
  <1>5. CASE CreateMarriage(w)
    BY <1>5, CreateMarriageStep
  <1>6. CASE LoadMarriage(w)
    BY <1>6, LoadMarriageStep
  <1>7. CASE SaveMarriage(w)
    BY <1>7, SaveMarriageStep
  <1>8. CASE Emit(w)
    BY <1>8, EmitStep
  <1> QED
    BY <1>1, <1>2, <1>3, <1>4, <1>5, <1>6, <1>7, <1>8 DEF Statement

LEMMA WorkerStep ==
    ASSUME TypeInv, NEW w \in Workers, Begin(w) \/ Statement(w) \/ Abort(w)
    PROVE  w \in Processes /\ StepOK(w)
  <1>1. w \in Processes
    BY DEF Processes
  <1>2. CASE Begin(w)
    BY <1>1, <1>2, BeginProposeStep, BeginAnswerStep, BeginDivorceStep, BeginDeleteStep
    DEF Begin
  <1> QED
    BY <1>1, <1>2, StatementStep, AbortStep

LEMMA SweeperStep ==
    ASSUME TypeInv, NEW s \in Sweepers, SweepStep(s) \/ Abort(s) \/ CrashSweep(s)
    PROVE  s \in Processes /\ StepOK(s)
  <1>1. s \in Processes
    BY DEF Processes
  <1> QED
    BY <1>1, SweepQueryStep, SweepNextStep, StatementStep, AbortStep, CrashSweepStep
    DEF SweepStep

(* A step other than one of the clock is a step of one process.             *)
LEMMA ProcessStep ==
    ASSUME TypeInv, Next, ~Tick
    PROVE  \E w \in Processes : StepOK(w)
  BY WorkerStep, SweeperStep DEF Next, Work

(* The clock moves nothing else.                                            *)
LEMMA TickStep ==
    ASSUME TypeInv, Tick
    PROVE  TypeInv' /\ TablesGrow /\ now' = now + 1
           /\ UNCHANGED <<tables, published, pc, job, todo, faults>>
  <1>1. now' = now + 1 /\ UNCHANGED <<tables, published, pc, job, todo, faults>>
    BY DEF Tick
  <1>2. TypeOK'
    BY <1>1 DEF TypeInv, TypeOK, tables
  <1>3. TablesGrow /\ OpenRowsFresh'
    BY <1>1, TablesKept DEF TypeInv
  <1>4. JobsOK'
    BY <1>1, <1>3, JobSurvives DEF JobsOK, Processes
  <1>5. SweepersOK'
    BY <1>1 DEF TypeInv, SweepersOK, tables
  <1> QED
    BY <1>1, <1>2, <1>3, <1>4, <1>5 DEF TypeInv

LEMMA NextKeepsTypeInv ==
    ASSUME TypeInv, [Next]_vars
    PROVE  TypeInv' /\ TablesGrow
  <1>1. CASE UNCHANGED vars
    <2>1. UNCHANGED <<now, tables, published, pc, job, todo, faults>>
      BY <1>1 DEF vars, tables
    <2>2. TypeOK'
      BY <2>1 DEF TypeInv, TypeOK, tables
    <2>3. TablesGrow /\ OpenRowsFresh'
      BY <2>1, TablesKept DEF TypeInv
    <2>4. JobsOK'
      BY <2>1, <2>3, JobSurvives DEF JobsOK, Processes
    <2>5. SweepersOK'
      BY <2>1 DEF TypeInv, SweepersOK, tables
    <2> QED
      BY <2>2, <2>3, <2>4, <2>5 DEF TypeInv
  <1>2. CASE Tick
    BY <1>2, TickStep
  <1>3. CASE Next /\ ~Tick
    BY <1>3, ProcessStep, StepKeepsTypeInv DEF StepOK
  <1> QED
    BY <1>1, <1>2, <1>3

LEMMA InitTypeInv == Init => TypeInv
  <1> SUFFICES ASSUME Init PROVE TypeInv
    OBVIOUS
  <1>1. "idle" \in Labels
    BY DEF Labels
  <1>2. << >> \in Seq(ProposalRow) /\ << >> \in Seq(MarriageRow) /\ DOMAIN << >> = {}
    BY EmptySeq
  <1>3. TypeOK
    BY <1>1, <1>2, NoJobIsJob, BoundsAreNat DEF Init, TypeOK
  <1>4. JobsOK
    BY NoJobIsJob DEF Init, JobsOK, JobOK, ProposeJobOK, AnswerJobOK, MarriageJobOK,
                      EligibilityLabels
  <1>5. SweepersOK
    BY NoJobIsJob DEF Init, SweepersOK, Processes
  <1>6. OpenRowsFresh
    BY <1>2 DEF Init, OpenRowsFresh
  <1> QED
    BY <1>3, <1>4, <1>5, <1>6 DEF TypeInv

LEMMA TypeInvHolds == Spec => []TypeInv
  BY InitTypeInv, NextKeepsTypeInv, PTL DEF Spec

(* Every variable keeps its type: in particular a handler never holds the   *)
(* id of a row that does not exist, whatever other handlers and sweepers    *)
(* do between its statements.                                               *)
THEOREM TypeCorrect == Spec => []TypeOK
  <1>1. TypeInv => TypeOK
    BY DEF TypeInv
  <1> QED
    BY <1>1, TypeInvHolds, PTL

(* A proposal that is settled is never open again, and stays the proposal   *)
(* of the same character to the same character made at the same time, in    *)
(* spite of whole-row saves of stale copies.                                *)
THEOREM SettledStaysSettled == Spec => NeverReopened
  <1> DEFINE A == \A i \in DOMAIN proposals :
                    /\ i \in DOMAIN proposals'
                    /\ SamePair(proposals[i], proposals'[i])
                    /\ proposals[i].createdAt = proposals'[i].createdAt
                    /\ proposals[i].status # "pending" => proposals'[i].status # "pending"
  <1>1. ASSUME TypeInv, [Next]_vars PROVE [A]_proposals
    BY <1>1, NextKeepsTypeInv DEF TablesGrow, Kept
  <1>2. Spec => [][A]_proposals
    BY <1>1, TypeInvHolds, PTL DEF Spec
  <1> QED
    BY <1>2 DEF NeverReopened

----------------------------------------------------------------------------
(* The global cooldown.                                                     *)

(* A handler keeps what it was asked to do until it is done.                *)
LEMMA SameTask ==
    ASSUME TypeInv, NEW w \in Processes, Statement(w) \/ Abort(w)
    PROVE  \/ job'[w].op = "none"
           \/ /\ job'[w].op = job[w].op
              /\ job'[w].key = job[w].key /\ job'[w].target = job[w].target
  <1>1. job \in [Processes -> Job]
    BY DEF TypeInv, TypeOK
  <1>2. Finish(w) => job'[w].op = "none"
    BY <1>1, NoJobIsJob DEF Finish
  <1>3. UNCHANGED job => job'[w] = job[w]
    OBVIOUS
  <1>4. ASSUME NEW d, job' = [job EXCEPT ![w].draft = d]
        PROVE  /\ job'[w].op = job[w].op /\ job'[w].key = job[w].key
               /\ job'[w].target = job[w].target
    BY <1>1, <1>4 DEF Job
  <1>5. ASSUME NEW m, job' = [job EXCEPT ![w].mid = m]
        PROVE  /\ job'[w].op = job[w].op /\ job'[w].key = job[w].key
               /\ job'[w].target = job[w].target
    BY <1>1, <1>5 DEF Job
  <1>6. ASSUME NEW p, job' = [job EXCEPT ![w].pid = p]
        PROVE  /\ job'[w].op = job[w].op /\ job'[w].key = job[w].key
               /\ job'[w].target = job[w].target
    BY <1>1, <1>6 DEF Job
  <1>7. CASE CheckStep(w) \/ Emit(w) \/ Abort(w)
    BY <1>2, <1>3, <1>7 DEF CheckStep, CheckProposerFree, CheckTargetFree, CheckNoneActive,
       CheckGlobalCooldown, CheckTargetCooldown, Check, Emit, Abort
  <1>8. CASE InsertProposal(w)
    BY <1>2, <1>6, <1>8 DEF InsertProposal
  <1>9. CASE LoadProposal(w)
    BY <1>2, <1>4, <1>9 DEF LoadProposal
  <1>10. CASE SaveProposal(w) \/ SaveMarriage(w)
    BY <1>3, <1>10 DEF SaveProposal, SaveMarriage
  <1>11. CASE CreateMarriage(w) \/ LoadMarriage(w)
    BY <1>2, <1>5, <1>11 DEF CreateMarriage, LoadMarriage
  <1> QED
    BY <1>7, <1>8, <1>9, <1>10, <1>11 DEF Statement

(* A new handler has the key of its command for itself.                     *)
LEMMA BeginTakesKey ==
    ASSUME TypeInv, NEW w \in Workers, Begin(w)
    PROVE  /\ job'[w].op \in Commands => KeyFree(job'[w].key)
           /\ pc'[w] \in {"proposerFree", "loadProposal", "loadMarriage"}
           /\ UNCHANGED <<now, tables, todo>>
  <1>1. /\ pc \in [Processes -> Labels] /\ job \in [Processes -> Job] /\ w \in Processes
    BY DEF TypeInv, TypeOK, Processes
  <1>2. ASSUME NEW label, NEW op, NEW c, NEW t, NEW i, NEW m,
               Enter(w, label, NewJob(op, c, t, i, m))
        PROVE  /\ pc'[w] = label /\ job'[w].op = op /\ job'[w].key = c
               /\ UNCHANGED <<now, tables, todo>>
    <2> DEFINE j == NewJob(op, c, t, i, m)
    <2>1. j.op = op /\ j.key = c
      BY DEF NewJob
    <2> HIDE DEF j
    <2>2. Enter(w, label, j)
      BY <1>2 DEF j
    <2> QED
      BY <1>1, <2>1, <2>2 DEF Enter, Goto, tables
  <1>3. CASE BeginPropose(w)
    BY <1>2, <1>3 DEF BeginPropose
  <1>4. CASE BeginAnswer(w)
    BY <1>2, <1>4 DEF BeginAnswer
  <1>5. CASE BeginDivorce(w)
    BY <1>2, <1>5 DEF BeginDivorce
  <1>6. CASE BeginDelete(w)
    BY <1>2, <1>6 DEF BeginDelete, Commands, Answers
  <1> QED
    BY <1>3, <1>4, <1>5, <1>6 DEF Begin

LEMMA KeysStayExclusive ==
    ASSUME TypeInv, KeysExclusive, [Next]_vars
    PROVE  KeysExclusive'
  <1>1. ASSUME NEW w \in Workers, OnlyMoves(w),
               \/ job'[w].op \in Commands => KeyFree(job'[w].key)
               \/ job'[w].op = job[w].op /\ job'[w].key = job[w].key
        PROVE  KeysExclusive'
    <2>1. \A v \in Workers \ {w} : job'[v] = job[v]
      BY <1>1 DEF OnlyMoves, Processes
    <2>2. \A v \in Workers \ {w} :
            job'[v].op \in Commands /\ job'[w].op \in Commands => job'[v].key # job'[w].key
      BY <1>1, <2>1 DEF KeysExclusive, KeyFree
    <2> QED
      BY <2>1, <2>2 DEF KeysExclusive
  <1>2. ASSUME NEW w \in Workers, Begin(w) PROVE KeysExclusive'
    BY <1>1, <1>2, BeginTakesKey, WorkerStep DEF StepOK
  <1>3. ASSUME NEW w \in Workers, Statement(w) \/ Abort(w) PROVE KeysExclusive'
    <2>1. w \in Processes
      BY DEF Processes
    <2>2. OnlyMoves(w)
      BY <1>3, <2>1, StatementStep, AbortStep DEF StepOK
    <2>3. \/ job'[w].op = "none"
          \/ job'[w].op = job[w].op /\ job'[w].key = job[w].key
      BY <1>3, <2>1, SameTask
    <2> QED
      BY <1>1, <2>2, <2>3 DEF Commands, Answers
  <1>4. ASSUME NEW s \in Sweepers, SweepStep(s) \/ Abort(s) \/ CrashSweep(s)
        PROVE  KeysExclusive'
    <2>1. OnlyMoves(s)
      BY <1>4, SweeperStep DEF StepOK
    <2>2. \A v \in Workers : job'[v] = job[v]
      BY <2>1, SweepersAreNotWorkers DEF OnlyMoves, Processes
    <2> QED
      BY <2>2 DEF KeysExclusive
  <1>5. CASE Tick \/ UNCHANGED vars
    BY <1>5 DEF Tick, vars, KeysExclusive
  <1> QED
    BY <1>2, <1>3, <1>4, <1>5 DEF Next, Work

(* Some row of a nonempty set has the highest id.                           *)
LEMMA LastOf ==
    ASSUME NEW n \in Nat, NEW ids \in SUBSET (1..n), ids # {}
    PROVE  \E m \in ids : \A k \in ids : k <= m
  <1> DEFINE T == {n - k : k \in ids}
  <1>1. T \subseteq Nat /\ T # {}
    <2>1. \A k \in ids : n - k \in Nat
      OBVIOUS
    <2> QED
      BY <2>1
  <1>2. PICK x \in T : \A y \in T : ~ (<<y, x>> \in OpToRel(<, Nat))
    BY <1>1, NatLessThanWellFounded, WFMin
  <1>3. PICK m \in ids : x = n - m
    OBVIOUS
  <1>4. \A k \in ids : ~ (n - k < n - m)
    BY <1>1, <1>2, <1>3 DEF OpToRel
  <1> QED
    BY <1>4

LEMMA StampsAreNat ==
    ASSUME TypeOK, NEW i \in DOMAIN proposals
    PROVE  /\ proposals[i].createdAt \in Nat /\ proposals[i].updatedAt \in Nat
           /\ proposals[i].cooldownUntil \in Nat
  <1>1. proposals[i] \in ProposalRow
    BY RowsAreRows DEF TypeOK
  <1> QED
    BY <1>1 DEF ProposalRow

(* What the check finds of the newest row of a proposer holds of them all,  *)
(* as long as the cooldown was kept so far.                                 *)
LEMMA NewestSpeaksForAll ==
    ASSUME TypeOK, GlobalCooldownKept, NEW c, GlobalCooldownOver(c)
    PROVE  Rested(c)
  <1>1. /\ proposals \in Seq(ProposalRow) /\ now \in Nat /\ GlobalCooldown \in Nat
        /\ DOMAIN proposals = 1..Len(proposals) /\ Len(proposals) \in Nat
    BY LenProperties, DurationsAreNat DEF TypeOK
  <1>2. \A i \in DOMAIN proposals : proposals[i].createdAt \in Nat
    BY StampsAreNat
  <1>3. SUFFICES ASSUME NEW i \in ProposalsBy(c)
                 PROVE  now > proposals[i].createdAt + GlobalCooldown
    BY DEF Rested
  <1>4. ProposalsBy(c) \in SUBSET (1..Len(proposals))
    BY <1>1 DEF ProposalsBy
  <1>5. PICK m \in ProposalsBy(c) : \A k \in ProposalsBy(c) : k <= m
    BY <1>1, <1>3, <1>4, LastOf
  <1>6. \A k \in ProposalsBy(c) : proposals[k].createdAt <= proposals[m].createdAt
    <2>1. ASSUME NEW k \in ProposalsBy(c), k # m
          PROVE  proposals[k].createdAt <= proposals[m].createdAt
      <3>1. k < m /\ k \in DOMAIN proposals /\ m \in DOMAIN proposals
        BY <1>1, <1>4, <1>5, <2>1
      <3>2. proposals[m].createdAt > proposals[k].createdAt + GlobalCooldown
        BY <3>1, <2>1 DEF GlobalCooldownKept, ProposalsBy
      <3> QED
        BY <1>1, <1>2, <3>1, <3>2
    <2>2. proposals[m].createdAt \in Nat
      BY <1>2 DEF ProposalsBy
    <2> QED
      BY <2>1, <2>2
  <1>7. m \in Newest(ProposalsBy(c))
    BY <1>6 DEF Newest
  <1>8. now > proposals[m].createdAt + GlobalCooldown
    BY <1>7 DEF GlobalCooldownOver
  <1> QED
    BY <1>1, <1>2, <1>6, <1>8 DEF ProposalsBy

(* Nothing is inserted by other steps than the insert.                      *)
LEMMA OnlyInsertInserts ==
    ASSUME TypeInv, [Next]_vars, ~ \E w \in Workers \cup Sweepers : InsertProposal(w)
    PROVE  DOMAIN proposals' = DOMAIN proposals
  <1>1. ASSUME NEW w \in Processes, Statement(w) PROVE DOMAIN proposals' = DOMAIN proposals
    <2>1. CASE SaveProposal(w)
      BY <2>1, SaveProposalStep
    <2>2. CASE ~SaveProposal(w)
      BY <1>1, <2>2 DEF Statement, CheckStep, CheckProposerFree, CheckTargetFree, CheckNoneActive,
         CheckGlobalCooldown, CheckTargetCooldown, Check, LoadProposal, CreateMarriage,
         LoadMarriage, SaveMarriage, Emit, tables, Processes
    <2> QED
      BY <2>1, <2>2
  <1>2. ASSUME NEW w \in Workers, Begin(w) PROVE DOMAIN proposals' = DOMAIN proposals
    BY <1>2, BeginTakesKey DEF tables
  <1>3. ASSUME NEW w \in Processes, Abort(w) \/ CrashSweep(w) \/ SweepQuery(w) \/ SweepNext(w)
        PROVE  DOMAIN proposals' = DOMAIN proposals
    BY <1>3 DEF Abort, CrashSweep, SweepQuery, SweepNext, tables
  <1>4. CASE Tick \/ UNCHANGED vars
    BY <1>4 DEF Tick, vars, tables
  <1> QED
    BY <1>1, <1>2, <1>3, <1>4 DEF Next, Work, SweepStep, Processes

(* Without an insert a character stays rested, and proposals stay apart.    *)
LEMMA StaysRested ==
    ASSUME TypeInv, TablesGrow, DOMAIN proposals' = DOMAIN proposals,
           now' \in Nat, now' >= now, NEW c, Rested(c)
    PROVE  Rested(c)'
  <1>1. now \in Nat /\ \A i \in DOMAIN proposals : proposals[i].createdAt \in Nat
    BY StampsAreNat DEF TypeInv, TypeOK
  <1> QED
    BY <1>1, DurationsAreNat DEF Rested, ProposalsBy, TablesGrow, Kept, SamePair

LEMMA StaysApart ==
    ASSUME TypeInv, TablesGrow, DOMAIN proposals' = DOMAIN proposals, GlobalCooldownKept
    PROVE  GlobalCooldownKept'
  BY DEF GlobalCooldownKept, TablesGrow, Kept, SamePair

(* Every process but the one that steps stands still.                       *)
LEMMA MoverOrNot ==
    ASSUME TypeInv, [Next]_vars, NEW v \in Workers
    PROVE  \/ pc'[v] = pc[v] /\ job'[v] = job[v]
           \/ Begin(v) \/ Statement(v) \/ Abort(v)
  <1>1. ASSUME NEW w \in Workers, w # v, Begin(w) \/ Statement(w) \/ Abort(w)
        PROVE  pc'[v] = pc[v] /\ job'[v] = job[v]
    BY <1>1, WorkerStep DEF StepOK, OnlyMoves, Processes
  <1>2. ASSUME NEW s \in Sweepers, SweepStep(s) \/ Abort(s) \/ CrashSweep(s)
        PROVE  pc'[v] = pc[v] /\ job'[v] = job[v]
    BY <1>2, SweeperStep, SweepersAreNotWorkers DEF StepOK, OnlyMoves, Processes
  <1>3. CASE Tick \/ UNCHANGED vars
    BY <1>3 DEF Tick, vars
  <1> QED
    BY <1>1, <1>2, <1>3 DEF Next, Work

LEMMA SweeperMovesOrNot ==
    ASSUME TypeInv, [Next]_vars, NEW v \in Sweepers
    PROVE  \/ pc'[v] = pc[v] /\ job'[v] = job[v]
           \/ SweepQuery(v) \/ SweepNext(v) \/ Statement(v) \/ Abort(v) \/ CrashSweep(v)
  <1>1. ASSUME NEW w \in Workers, Begin(w) \/ Statement(w) \/ Abort(w)
        PROVE  pc'[v] = pc[v] /\ job'[v] = job[v]
    BY <1>1, WorkerStep, SweepersAreNotWorkers DEF StepOK, OnlyMoves, Processes
  <1>2. ASSUME NEW s \in Sweepers, s # v, SweepStep(s) \/ Abort(s) \/ CrashSweep(s)
        PROVE  pc'[v] = pc[v] /\ job'[v] = job[v]
    BY <1>2, SweeperStep DEF StepOK, OnlyMoves, Processes
  <1>3. CASE Tick \/ UNCHANGED vars
    BY <1>3 DEF Tick, vars
  <1> QED
    BY <1>1, <1>2, <1>3 DEF Next, Work, SweepStep

(* Only the clock's own step moves the clock.                               *)
LEMMA WorkTakesNoTime ==
    ASSUME TypeInv, Work
    PROVE  now' = now
  <1>1. ASSUME NEW w \in Processes, Statement(w) PROVE now' = now
    BY <1>1 DEF Statement, CheckStep, CheckProposerFree, CheckTargetFree, CheckNoneActive,
       CheckGlobalCooldown, CheckTargetCooldown, Check, InsertProposal, LoadProposal, SaveProposal,
       CreateMarriage, LoadMarriage, SaveMarriage, Emit
  <1>2. ASSUME NEW w \in Workers, Begin(w) PROVE now' = now
    BY <1>2, BeginTakesKey
  <1>3. ASSUME NEW w \in Processes, Abort(w) \/ CrashSweep(w) \/ SweepQuery(w) \/ SweepNext(w)
        PROVE  now' = now
    BY <1>3 DEF Abort, CrashSweep, SweepQuery, SweepNext
  <1> QED
    BY <1>1, <1>2, <1>3 DEF Work, SweepStep, Processes

LEMMA ClockTicks ==
    ASSUME TypeInv, [Next]_vars, ~Tick
    PROVE  now' = now
  BY WorkTakesNoTime DEF Next, vars

LEMMA ClockAdvances ==
    ASSUME TypeInv, [Next]_vars
    PROVE  now' \in Nat /\ now' >= now
  <1>1. now' \in Nat /\ now \in Nat
    BY NextKeepsTypeInv DEF TypeInv, TypeOK
  <1>2. CASE Tick
    BY <1>1, <1>2 DEF Tick
  <1>3. CASE ~Tick
    BY <1>1, <1>3, ClockTicks
  <1> QED
    BY <1>2, <1>3

(* A handler comes to wait with its insert by having passed the check.      *)
LEMMA WaitsOnceRested ==
    ASSUME TypeInv, NEW w \in Processes, Statement(w), ~InsertProposal(w), Waits(w)'
    PROVE  job'[w] = job[w] /\ (Waits(w) \/ GlobalCooldownOver(job[w].key))
  <1>1. pc \in [Processes -> Labels]
    BY DEF TypeInv, TypeOK
  <1>2. pc'[w] \in {"targetCooldown", "insert"}
    BY DEF Waits
  <1>3. ~Finish(w)
    BY <1>1, <1>2 DEF Finish, Goto
  <1>4. ~Emit(w) /\ ~LoadProposal(w) /\ ~SaveProposal(w) /\ ~CreateMarriage(w)
        /\ ~LoadMarriage(w) /\ ~SaveMarriage(w)
    BY <1>1, <1>2, <1>3 DEF Emit, LoadProposal, SaveProposal, CreateMarriage, LoadMarriage,
                            SaveMarriage, Goto
  <1>5. CheckGlobalCooldown(w) \/ CheckTargetCooldown(w)
    BY <1>1, <1>2, <1>3, <1>4 DEF Statement, CheckStep, CheckProposerFree, CheckTargetFree,
       CheckNoneActive, Check, Goto
  <1> QED
    BY <1>3, <1>5 DEF CheckGlobalCooldown, CheckTargetCooldown, Check, Waits

LEMMA InsertKeepsCooldown ==
    ASSUME TypeInv, CooldownInv, NEW w \in Processes, InsertProposal(w)
    PROVE  GlobalCooldownKept' /\ CooldownPassed'
  <1> DEFINE n == Len(proposals) + 1
             c == job[w].key
  <1>1. /\ pc[w] = "insert" /\ proposals' = Append(proposals, NewProposal(c, job[w].target))
        /\ now' = now
    BY DEF InsertProposal
  <1>2. c \in Characters /\ job[w].target \in Characters /\ job[w].op = "propose"
    BY <1>1 DEF TypeInv, JobsOK, JobOK, ProposeJobOK, EligibilityLabels
  <1>3. w \in Workers
    BY <1>2 DEF TypeInv, SweepersOK, Processes
  <1>4. Rested(c)
    BY <1>1, <1>3 DEF CooldownInv, CooldownPassed, Waits
  <1>5. /\ proposals \in Seq(ProposalRow) /\ n \in Nat /\ DOMAIN proposals = 1 .. (n - 1)
        /\ DOMAIN proposals' = DOMAIN proposals \cup {n}
        /\ \A i \in DOMAIN proposals : proposals'[i] = proposals[i]
        /\ proposals'[n].proposer = c /\ proposals'[n].createdAt = now
    <2>1. NewProposal(c, job[w].target) \in ProposalRow
      BY <1>2, NewProposalIsRow DEF TypeInv
    <2>2. /\ proposals \in Seq(ProposalRow) /\ n \in Nat /\ DOMAIN proposals = 1..Len(proposals)
          /\ DOMAIN proposals' = 1 .. n
          /\ \A i \in DOMAIN proposals : proposals'[i] = proposals[i]
          /\ proposals'[n] = NewProposal(c, job[w].target)
      BY <1>1, <2>1, AppendedRow DEF TypeInv, TypeOK
    <2> QED
      BY <2>2 DEF NewProposal
  <1>6. GlobalCooldownKept'
    <2>1. SUFFICES ASSUME NEW i \in DOMAIN proposals', NEW j \in DOMAIN proposals',
                          i < j, proposals'[i].proposer = proposals'[j].proposer
                   PROVE  proposals'[j].createdAt > proposals'[i].createdAt + GlobalCooldown
      BY DEF GlobalCooldownKept
    <2>2. i \in DOMAIN proposals
      BY <1>5, <2>1
    <2>3. CASE j = n
      BY <1>4, <1>5, <2>1, <2>2, <2>3 DEF Rested, ProposalsBy
    <2>4. CASE j # n
      BY <1>5, <2>1, <2>2, <2>4 DEF CooldownInv, GlobalCooldownKept
    <2> QED
      BY <2>3, <2>4
  <1>7. CooldownPassed'
    <2>1. SUFFICES ASSUME NEW v \in Workers, Waits(v)' PROVE Rested(job[v].key)' /\ job'[v] = job[v]
      BY DEF CooldownPassed, Rested, ProposalsBy
    <2>2. pc'[w] \in {"emit", "idle"}
      BY <1>3 DEF TypeInv, TypeOK, InsertProposal, Finish, Goto
    <2>3. v # w
      BY <2>1, <2>2 DEF Waits
    <2>4. pc'[v] = pc[v] /\ job'[v] = job[v] /\ v \in Processes
      BY <2>3, InsertProposalStep DEF StepOK, OnlyMoves, Processes
    <2>5. Waits(v)
      BY <2>1, <2>4 DEF Waits
    <2>6. job[v].op = "propose" /\ Rested(job[v].key)
      BY <2>4, <2>5 DEF Waits, TypeInv, JobsOK, JobOK, ProposeJobOK, EligibilityLabels,
                        CooldownInv, CooldownPassed
    <2>7. job[v].key # c
      BY <1>2, <1>3, <2>3, <2>6 DEF CooldownInv, KeysExclusive, Commands
    <2> QED
      BY <1>1, <1>5, <2>4, <2>6, <2>7 DEF Rested, ProposalsBy
  <1> QED
    BY <1>6, <1>7

LEMMA OthersKeepCooldown ==
    ASSUME TypeInv, CooldownInv, [Next]_vars,
           ~ \E w \in Workers \cup Sweepers : InsertProposal(w)
    PROVE  GlobalCooldownKept' /\ CooldownPassed'
  <1>1. TypeInv' /\ TablesGrow /\ DOMAIN proposals' = DOMAIN proposals
    BY NextKeepsTypeInv, OnlyInsertInserts
  <1>2. now' \in Nat /\ now' >= now
    BY ClockAdvances
  <1>3. GlobalCooldownKept'
    BY <1>1, StaysApart DEF CooldownInv
  <1>4. \A c : Rested(c) => Rested(c)'
    BY <1>1, <1>2, StaysRested
  <1>5. ASSUME NEW v \in Workers, Waits(v)'
        PROVE  job'[v] = job[v] /\ (Waits(v) \/ GlobalCooldownOver(job[v].key))
    <2>1. v \in Processes
      BY DEF Processes
    <2>2. CASE pc'[v] = pc[v] /\ job'[v] = job[v]
      BY <1>5, <2>2 DEF Waits
    <2>3. CASE Statement(v)
      BY <1>5, <2>1, <2>3, WaitsOnceRested DEF Processes
    <2>4. ~Begin(v) /\ ~Abort(v)
      <3>1. ~Begin(v)
        BY <1>5, BeginTakesKey DEF Waits
      <3>2. ~Abort(v)
        BY <1>5, <2>1 DEF Abort, Finish, Goto, Waits, TypeInv, TypeOK
      <3> QED
        BY <3>1, <3>2
    <2> QED
      BY <2>1, <2>2, <2>3, <2>4, MoverOrNot
  <1>6. CooldownPassed'
    <2>1. \A v \in Workers : Waits(v)' => Rested(job[v].key) /\ job'[v] = job[v]
      BY <1>5, NewestSpeaksForAll DEF CooldownInv, CooldownPassed, TypeInv
    <2> QED
      BY <1>4, <2>1 DEF CooldownPassed, Rested, ProposalsBy
  <1> QED
    BY <1>3, <1>6

LEMMA CooldownInvHolds == Spec => []CooldownInv
  <1>1. Init => CooldownInv
    <2> SUFFICES ASSUME Init PROVE CooldownInv
      OBVIOUS
    <2>1. DOMAIN proposals = {}
      BY EmptySeq DEF Init
    <2>2. \A w \in Workers : job[w].op = "none" /\ pc[w] = "idle"
      BY NoJobIsJob DEF Init, Processes
    <2> QED
      BY <2>1, <2>2 DEF CooldownInv, KeysExclusive, CooldownPassed, Waits, GlobalCooldownKept,
                        Commands, Answers
  <1>2. TypeInv /\ CooldownInv /\ [Next]_vars => CooldownInv'
    BY KeysStayExclusive, InsertKeepsCooldown, OthersKeepCooldown DEF CooldownInv, Processes
  <1> QED
    BY <1>1, <1>2, TypeInvHolds, PTL DEF Spec

(* The cooldown between two proposals of one character holds although the   *)
(* check and the insert are separate statements and other handlers, of      *)
(* other replicas too, run in between: it rests on the commands of one      *)
(* character being handled one after the other.                             *)
THEOREM CooldownBetweenProposals == Spec => []GlobalCooldownKept
  <1>1. CooldownInv => GlobalCooldownKept
    BY DEF CooldownInv
  <1> QED
    BY <1>1, CooldownInvHolds, PTL

----------------------------------------------------------------------------
(* Answers before the expiry, expiries after it.                            *)

LEMMA StaysOverdue ==
    ASSUME TypeInv, [Next]_vars, NEW i \in DOMAIN proposals, Overdue(proposals[i])
    PROVE  i \in DOMAIN proposals' /\ Overdue(proposals[i])'
  <1>1. now' \in Nat /\ now' >= now /\ now \in Nat /\ proposals[i].createdAt \in Nat
    BY ClockAdvances, StampsAreNat DEF TypeInv, TypeOK
  <1>2. i \in DOMAIN proposals' /\ proposals'[i].createdAt = proposals[i].createdAt
    BY NextKeepsTypeInv DEF TablesGrow, Kept
  <1> QED
    BY <1>1, <1>2, DurationsAreNat DEF Overdue, ExpiresAt

(* The table of proposals is written by inserts and saves only.             *)
LEMMA OnlyTheseWrite ==
    ASSUME TypeInv, [Next]_vars,
           ~ \E w \in Processes : InsertProposal(w) \/ SaveProposal(w)
    PROVE  proposals' = proposals
  <1>1. ASSUME NEW w \in Processes, Statement(w) PROVE proposals' = proposals
    BY <1>1 DEF Statement, CheckStep, CheckProposerFree, CheckTargetFree, CheckNoneActive,
       CheckGlobalCooldown, CheckTargetCooldown, Check, LoadProposal, CreateMarriage,
       LoadMarriage, SaveMarriage, Emit, tables
  <1>2. ASSUME NEW w \in Workers, Begin(w) PROVE proposals' = proposals
    BY <1>2, BeginTakesKey DEF tables
  <1>3. ASSUME NEW w \in Processes, Abort(w) \/ CrashSweep(w) \/ SweepQuery(w) \/ SweepNext(w)
        PROVE  proposals' = proposals
    BY <1>3 DEF Abort, CrashSweep, SweepQuery, SweepNext, tables
  <1>4. CASE Tick \/ UNCHANGED vars
    BY <1>4 DEF Tick, vars, tables
  <1> QED
    BY <1>1, <1>2, <1>3, <1>4 DEF Next, Work, SweepStep, Processes

(* A row in its window stays there while the clock goes on.                 *)
LEMMA RowKeepsWindow ==
    ASSUME TypeInv, [Next]_vars, NEW p \in ProposalRow, RowInWindow(p),
           NEW i, proposals'[i] = p
    PROVE  RowInWindow(proposals[i])'
  <1>1. now' \in Nat /\ now' >= now /\ now \in Nat
    BY ClockAdvances DEF TypeInv, TypeOK
  <1>2. p.createdAt \in Nat /\ p.updatedAt \in Nat /\ p.respondedAt \in Nat
    BY DEF ProposalRow
  <1> QED
    BY <1>1, <1>2 DEF RowInWindow, AnsweredInTime, ExpiresAt

LEMMA RowsStayInWindow ==
    ASSUME TypeInv, WindowInv, [Next]_vars
    PROVE  \A i \in DOMAIN proposals' : RowInWindow(proposals[i])'
  <1>1. \A i \in DOMAIN proposals : proposals[i] \in ProposalRow /\ RowInWindow(proposals[i])
    BY RowsAreRows DEF TypeInv, TypeOK, WindowInv
  <1>2. ASSUME NEW w \in Processes, InsertProposal(w), NEW i \in DOMAIN proposals'
        PROVE  RowInWindow(proposals[i])'
    <2> DEFINE p == NewProposal(job[w].key, job[w].target)
    <2>1. proposals' = Append(proposals, p) /\ pc[w] = "insert"
      BY <1>2 DEF InsertProposal
    <2>2. job[w].key \in Characters /\ job[w].target \in Characters
      BY <2>1 DEF TypeInv, JobsOK, JobOK, ProposeJobOK, EligibilityLabels
    <2>3. p \in ProposalRow
      BY <2>2, NewProposalIsRow DEF TypeInv
    <2>4. RowInWindow(p)
      BY DEF NewProposal, RowInWindow, AnsweredInTime, TypeInv, TypeOK
    <2> HIDE DEF p
    <2>5. /\ Len(proposals) \in Nat /\ DOMAIN proposals = 1..Len(proposals)
          /\ DOMAIN proposals' = 1 .. (Len(proposals) + 1)
          /\ \A k \in DOMAIN proposals : proposals'[k] = proposals[k]
          /\ proposals'[Len(proposals) + 1] = p
      BY <2>1, <2>3, AppendedRow DEF TypeInv, TypeOK
    <2>6. \/ proposals'[i] = p
          \/ i \in DOMAIN proposals /\ proposals'[i] = proposals[i]
      BY <1>2, <2>5
    <2> QED
      BY <1>1, <2>3, <2>4, <2>6, RowKeepsWindow
  <1>3. ASSUME NEW w \in Processes, SaveProposal(w), NEW i \in DOMAIN proposals'
        PROVE  RowInWindow(proposals[i])'
    <2> DEFINE d == job[w].draft
               r == Saved(d)
    <2>1. i \in DOMAIN proposals /\ proposals'[i] = IF i = job[w].pid THEN r ELSE proposals[i]
      BY <1>3, SaveProposalStep
    <2>2. DraftInWindow(d) /\ d \in ProposalRow /\ job[w].pid \in DOMAIN proposals
          /\ d.createdAt = proposals[job[w].pid].createdAt
      BY <1>3 DEF SaveProposal, WindowInv, TypeInv, JobsOK, JobOK, AnswerJobOK
    <2>3. /\ r \in ProposalRow /\ r.status = d.status /\ r.createdAt = d.createdAt
          /\ r.respondedAt = d.respondedAt /\ r.updatedAt = now
      BY <2>2, SavedRow DEF TypeInv
    <2> HIDE DEF d, r
    <2>4. RowInWindow(r)
      BY <1>1, <2>2, <2>3 DEF RowInWindow, DraftInWindow, AnsweredInTime, Overdue, ExpiresAt
    <2> QED
      BY <1>1, <2>1, <2>3, <2>4, RowKeepsWindow
  <1>4. CASE proposals' = proposals
    BY <1>1, <1>4, RowKeepsWindow
  <1> QED
    BY <1>2, <1>3, <1>4, OnlyTheseWrite

LEMMA SweepersHoldOverdue ==
    ASSUME TypeInv, WindowInv, [Next]_vars, NEW s \in Sweepers, NEW i \in todo'[s]
    PROVE  i \in DOMAIN proposals /\ Overdue(proposals[i])
  <1>1. i \in todo[s] \/ i \in DueProposals
    <2>1. ASSUME NEW r \in Sweepers, SweepQuery(r) \/ SweepNext(r) \/ CrashSweep(r)
          PROVE  todo'[s] \subseteq todo[s] \cup DueProposals
      BY <2>1 DEF SweepQuery, SweepNext, CrashSweep, TypeInv, TypeOK
    <2>2. ASSUME NEW w \in Processes, Statement(w) \/ Abort(w) PROVE todo' = todo
      BY <2>2 DEF Statement, CheckStep, CheckProposerFree, CheckTargetFree, CheckNoneActive,
         CheckGlobalCooldown, CheckTargetCooldown, Check, InsertProposal, LoadProposal,
         SaveProposal, CreateMarriage, LoadMarriage, SaveMarriage, Emit, Abort
    <2>3. ASSUME NEW w \in Workers, Begin(w) PROVE todo' = todo
      BY <2>3, BeginTakesKey
    <2>4. CASE Tick \/ UNCHANGED vars
      BY <2>4 DEF Tick, vars
    <2> QED
      BY <2>1, <2>2, <2>3, <2>4 DEF Next, Work, SweepStep, Processes
  <1> QED
    BY <1>1 DEF DueProposals, Pending, WindowInv, TypeInv, SweepersOK

(* A process that takes up an expiry has found the row overdue.             *)
LEMMA ExpiresOverdue ==
    ASSUME TypeInv, WindowInv, [Next]_vars, NEW w \in Processes,
           pc'[w] = "loadProposal", job'[w].op = "expire"
    PROVE  job'[w].pid \in DOMAIN proposals /\ Overdue(proposals[job'[w].pid])
  <1>1. w \in Sweepers
    BY NextKeepsTypeInv DEF TypeInv, SweepersOK, Processes
  <1>2. CASE pc'[w] = pc[w] /\ job'[w] = job[w]
    BY <1>2 DEF WindowInv, TypeInv, JobsOK, JobOK, AnswerJobOK
  <1>3. CASE SweepNext(w)
    <2>1. PICK i \in todo[w] : job' = [job EXCEPT ![w] = NewJob("expire", NoOne, NoOne, i, 0)]
      BY <1>3 DEF SweepNext
    <2> DEFINE j == NewJob("expire", NoOne, NoOne, i, 0)
    <2>2. j.pid = i
      BY DEF NewJob
    <2> HIDE DEF j
    <2>3. job'[w] = j
      BY <2>1 DEF j, TypeInv, TypeOK
    <2> QED
      BY <1>1, <2>2, <2>3 DEF WindowInv, TypeInv, SweepersOK
  <1>4. CASE Statement(w)
    BY <1>4 DEF Statement, CheckStep, CheckProposerFree, CheckTargetFree, CheckNoneActive,
       CheckGlobalCooldown, CheckTargetCooldown, Check, InsertProposal, LoadProposal, SaveProposal,
       CreateMarriage, LoadMarriage, SaveMarriage, Emit, Finish, Goto, TypeInv, TypeOK
  <1>5. ~Abort(w) /\ ~CrashSweep(w)
    BY DEF Abort, CrashSweep, Finish, Goto, TypeInv, TypeOK
  <1>6. SweepQuery(w) => pc'[w] = pc[w] /\ job'[w] = job[w]
    BY DEF SweepQuery
  <1> QED
    BY <1>1, <1>2, <1>3, <1>4, <1>5, <1>6, SweeperMovesOrNot

(* What a process is about to save was made in time.                        *)
LEMMA DraftsInWindow ==
    ASSUME TypeInv, WindowInv, [Next]_vars, NEW w \in Processes, pc'[w] = "saveProposal"
    PROVE  DraftInWindow(job[w].draft)'
  <1>0. now' \in Nat /\ now' >= now /\ now \in Nat
    BY ClockAdvances DEF TypeInv, TypeOK
  <1>1. CASE pc'[w] = pc[w] /\ job'[w] = job[w]
    <2>1. DraftInWindow(job[w].draft) /\ job[w].draft \in ProposalRow
      BY <1>1 DEF WindowInv, TypeInv, JobsOK, JobOK, AnswerJobOK
    <2>2. job[w].draft.createdAt \in Nat /\ job[w].draft.updatedAt \in Nat
      BY <2>1 DEF ProposalRow
    <2> QED
      BY <1>0, <1>1, <2>1, <2>2, DurationsAreNat
      DEF DraftInWindow, Overdue, ExpiresAt
  <1>2. CASE LoadProposal(w)
    <2> DEFINE op == job[w].op
               p == proposals[job[w].pid]
               d == Transformed(op, p)
    <2>1. /\ job'[w].draft = d /\ MayTransform(op, p) /\ pc[w] = "loadProposal" /\ now' = now
      BY <1>2, LoadProposalStep DEF LoadProposal
    <2>2. op \in Answers \cup {"expire"} /\ job[w].pid \in DOMAIN proposals
      BY <2>1 DEF TypeInv, JobsOK, JobOK, AnswerJobOK
    <2>3. p \in ProposalRow
      BY <2>2, RowsAreRows DEF TypeInv, TypeOK
    <2>4. p.status = "pending" /\ p.rejections = 0 /\ (op # "expire" => ~Overdue(p))
      BY <2>1, <2>2 DEF MayTransform, CanRespond, TypeInv, OpenRowsFresh
    <2>5. p.respondedAt = 0
      BY <2>2, <2>4 DEF WindowInv, RowInWindow, AnsweredInTime
    <2>6. op = "expire" => Overdue(p)
      BY <2>1 DEF WindowInv
    <2>7. /\ d.createdAt = p.createdAt /\ d.updatedAt = now
          /\ d.status = "expired" <=> op = "expire"
          /\ d.status \in {"accepted", "rejected"} <=> op \in {"accept", "decline"}
          /\ d.respondedAt = IF op \in {"accept", "decline"} THEN now ELSE 0
      BY <2>2, <2>3, <2>4, <2>5, TransformedRow DEF TypeInv
    <2>8. d.respondedAt = IF d.status \in {"accepted", "rejected"} THEN now ELSE 0
      BY <2>7
    <2>9. p.createdAt \in Nat /\ ExpiresAt(p) \in Nat
      BY <2>2, StampsAreNat, DurationsAreNat DEF TypeInv, TypeOK, ExpiresAt
    <2> HIDE DEF d, p, op
    <2>10. ExpiresAt(d) = ExpiresAt(p)
      BY <2>7 DEF ExpiresAt
    <2>11. DraftInWindow(d)
      BY <1>0, <2>4, <2>6, <2>7, <2>8, <2>9, <2>10 DEF DraftInWindow, Overdue
    <2> QED
      BY <2>1, <2>11 DEF DraftInWindow, Overdue, ExpiresAt
  <1>3. CASE Statement(w) /\ ~LoadProposal(w)
    BY <1>3 DEF Statement, CheckStep, CheckProposerFree, CheckTargetFree, CheckNoneActive,
       CheckGlobalCooldown, CheckTargetCooldown, Check, InsertProposal, SaveProposal,
       CreateMarriage, LoadMarriage, SaveMarriage, Emit, Finish, Goto, TypeInv, TypeOK
  <1>4. ~Abort(w) /\ ~CrashSweep(w) /\ ~SweepNext(w)
    BY DEF Abort, CrashSweep, SweepNext, Finish, Goto, TypeInv, TypeOK
  <1>5. SweepQuery(w) => pc'[w] = pc[w] /\ job'[w] = job[w]
    BY DEF SweepQuery
  <1>6. w \in Workers => ~Begin(w)
    BY BeginTakesKey
  <1> QED
    BY <1>1, <1>2, <1>3, <1>4, <1>5, <1>6, SweeperMovesOrNot, MoverOrNot DEF Processes

LEMMA WindowInvHolds == Spec => []WindowInv
  <1>1. Init => WindowInv
    <2> SUFFICES ASSUME Init PROVE WindowInv
      OBVIOUS
    <2>1. DOMAIN proposals = {}
      BY EmptySeq DEF Init
    <2> QED
      BY <2>1 DEF Init, WindowInv
  <1>2. TypeInv /\ WindowInv /\ [Next]_vars => WindowInv'
    <2> SUFFICES ASSUME TypeInv, WindowInv, [Next]_vars PROVE WindowInv'
      OBVIOUS
    <2>1. \A i \in DOMAIN proposals' : RowInWindow(proposals[i])'
      BY RowsStayInWindow
    <2>2. \A s \in Sweepers : \A i \in todo'[s] : Overdue(proposals[i])'
      BY SweepersHoldOverdue, StaysOverdue
    <2>3. \A w \in Processes :
            pc'[w] = "loadProposal" /\ job'[w].op = "expire" => Overdue(proposals[job[w].pid])'
      BY ExpiresOverdue, StaysOverdue DEF Overdue, ExpiresAt
    <2>4. \A w \in Processes : pc'[w] = "saveProposal" => DraftInWindow(job[w].draft)'
      BY DraftsInWindow
    <2> QED
      BY <2>1, <2>2, <2>3, <2>4 DEF WindowInv, Processes
  <1> QED
    BY <1>1, <1>2, TypeInvHolds, PTL DEF Spec

(* Whoever answers a proposal has done so before it ran out, and only what  *)
(* ran out is marked expired, although an answer may be saved long after it *)
(* was judged and the expiry of a row does not look at the clock.           *)
THEOREM OutcomesInTime == Spec => []OutcomesRespectExpiry
  <1>1. WindowInv => OutcomesRespectExpiry
    BY DEF WindowInv, RowInWindow, OutcomesRespectExpiry
  <1> QED
    BY <1>1, WindowInvHolds, PTL

----------------------------------------------------------------------------
(* A second open proposal of one pair.                                      *)

(* Some row of a nonempty set has the lowest id.                            *)
LEMMA FirstOf ==
    ASSUME NEW ids \in SUBSET Nat, ids # {}
    PROVE  \E m \in ids : \A k \in ids : m <= k
  <1>1. PICK m \in ids : \A k \in ids : ~ (<<k, m>> \in OpToRel(<, Nat))
    BY NatLessThanWellFounded, WFMin
  <1>2. \A k \in ids : ~ (k < m)
    BY <1>1 DEF OpToRel
  <1> QED
    BY <1>2

(* The check finds an open proposal unless an earlier one is overdue.       *)
LEMMA NoneActiveMeans ==
    ASSUME TypeOK, NEW c, NEW d, NoneActive(c, d)
    PROVE  PairMayAsk(c, d)
  <1>1. DOMAIN proposals = 1..Len(proposals) /\ Len(proposals) \in Nat
    BY LenProperties DEF TypeOK
  <1>2. SUFFICES ASSUME NEW k \in ProposalsTo(c, d), IsOpen(k)
                 PROVE  LapsedBefore(k)
    BY DEF PairMayAsk
  <1> DEFINE ids == Pending(ProposalsTo(c, d))
  <1>3. ids \in SUBSET Nat /\ k \in ids
    BY <1>1, <1>2 DEF Pending, ProposalsTo, ProposalsBy, IsOpen
  <1>4. PICK h \in ids : \A i \in ids : h <= i
    BY <1>3, FirstOf
  <1>5. Overdue(proposals[h])
    BY <1>4 DEF NoneActive, First
  <1>6. h \in 1..(k - 1)
    BY <1>1, <1>2, <1>3, <1>4, <1>5 DEF IsOpen, Pending, ProposalsTo, ProposalsBy
  <1>7. SamePair(proposals[h], proposals[k])
    BY <1>2, <1>4 DEF Pending, ProposalsTo, ProposalsBy, SamePair
  <1> QED
    BY <1>5, <1>6, <1>7 DEF LapsedBefore

(* Open rows were open before, and who has lapsed stays lapsed.             *)
LEMMA OpenWasOpen ==
    ASSUME TypeInv, [Next]_vars, NEW k \in DOMAIN proposals
    PROVE  /\ IsOpen(k)' => IsOpen(k)
           /\ LapsedBefore(k) => LapsedBefore(k)'
           /\ SamePair(proposals'[k], proposals[k])
  <1>1. TablesGrow /\ Kept(k)
    BY NextKeepsTypeInv DEF TablesGrow
  <1>2. IsOpen(k)' => IsOpen(k)
    BY <1>1, StaysOverdue DEF IsOpen, Kept
  <1>3. ASSUME LapsedBefore(k) PROVE LapsedBefore(k)'
    <2>1. PICK h \in 1..(k - 1) : SamePair(proposals[h], proposals[k]) /\ Overdue(proposals[h])
      BY <1>3 DEF LapsedBefore
    <2>2. h \in DOMAIN proposals
      BY LenProperties DEF TypeInv, TypeOK
    <2>3. Overdue(proposals[h])' /\ Kept(h)
      BY <1>1, <2>1, <2>2, StaysOverdue DEF TablesGrow
    <2>4. SamePair(proposals[h], proposals[k])'
      BY <1>1, <2>1, <2>3 DEF Kept, SamePair
    <2> QED
      BY <2>3, <2>4 DEF LapsedBefore
  <1> QED
    BY <1>1, <1>2, <1>3 DEF Kept, SamePair

(* A handler comes past the check by having passed it.                      *)
LEMMA UnaskedOnceChecked ==
    ASSUME TypeInv, [Next]_vars, NEW v \in Workers, Unasked(v)'
    PROVE  /\ job'[v] = job[v]
           /\ Unasked(v) \/ NoneActive(job[v].key, job[v].target)
           /\ ~InsertProposal(v)
  <1>1. pc \in [Processes -> Labels] /\ v \in Processes
    BY DEF TypeInv, TypeOK, Processes
  <1>2. pc'[v] \in {"globalCooldown", "targetCooldown", "insert"}
    BY DEF Unasked
  <1>3. ~Finish(v)
    BY <1>1, <1>2 DEF Finish, Goto
  <1>4. ~InsertProposal(v)
    BY <1>1, <1>2, <1>3 DEF InsertProposal, Goto
  <1>5. CASE Statement(v)
    <2>1. ~Emit(v) /\ ~LoadProposal(v) /\ ~SaveProposal(v) /\ ~CreateMarriage(v)
          /\ ~LoadMarriage(v) /\ ~SaveMarriage(v)
      BY <1>1, <1>2, <1>3 DEF Emit, LoadProposal, SaveProposal, CreateMarriage, LoadMarriage,
                              SaveMarriage, Goto
    <2>2. CheckNoneActive(v) \/ CheckGlobalCooldown(v) \/ CheckTargetCooldown(v)
      BY <1>1, <1>2, <1>3, <1>4, <1>5, <2>1 DEF Statement, CheckStep, CheckProposerFree,
         CheckTargetFree, Check, Goto
    <2> QED
      BY <1>3, <1>4, <2>2 DEF CheckNoneActive, CheckGlobalCooldown, CheckTargetCooldown, Check,
                              Unasked
  <1>6. ~Begin(v)
    BY <1>2, BeginTakesKey
  <1>7. ~Abort(v)
    BY <1>3 DEF Abort
  <1> QED
    BY <1>4, <1>5, <1>6, <1>7, MoverOrNot DEF Unasked

(* The row an insert adds, and whose it is.                                 *)
LEMMA InsertedRow ==
    ASSUME TypeInv, NEW w \in Processes, InsertProposal(w)
    PROVE  LET n == Len(proposals) + 1 IN
           /\ n \in Nat /\ DOMAIN proposals = 1..(n - 1)
           /\ DOMAIN proposals' = DOMAIN proposals \cup {n}
           /\ proposals'[n].proposer = job[w].key /\ proposals'[n].target = job[w].target
           /\ w \in Workers /\ Unasked(w) /\ job[w].op = "propose"
  <1> DEFINE q == NewProposal(job[w].key, job[w].target)
  <1>1. pc[w] = "insert" /\ proposals' = Append(proposals, q)
    BY DEF InsertProposal
  <1>2. job[w].key \in Characters /\ job[w].target \in Characters /\ job[w].op = "propose"
    BY <1>1 DEF TypeInv, JobsOK, JobOK, ProposeJobOK, EligibilityLabels
  <1>3. w \in Workers
    BY <1>2 DEF TypeInv, SweepersOK, Processes
  <1>4. q \in ProposalRow /\ q.proposer = job[w].key /\ q.target = job[w].target
    <2>1. q \in ProposalRow
      BY <1>2, NewProposalIsRow DEF TypeInv
    <2> QED
      BY <2>1 DEF NewProposal
  <1> HIDE DEF q
  <1>5. /\ Len(proposals) \in Nat /\ DOMAIN proposals = 1..Len(proposals)
        /\ DOMAIN proposals' = 1..(Len(proposals) + 1)
        /\ proposals'[Len(proposals) + 1] = q
    BY <1>1, <1>4, AppendedRow DEF TypeInv, TypeOK
  <1> QED
    BY <1>1, <1>2, <1>3, <1>4, <1>5 DEF Unasked

LEMMA NextKeepsRepeatInv ==
    ASSUME TypeInv, CooldownInv, RepeatInv, [Next]_vars
    PROVE  RepeatInv'
  <1> DEFINE n == Len(proposals) + 1
  <1>1. ASSUME NEW k \in DOMAIN proposals
        PROVE  /\ IsOpen(k)' => IsOpen(k)
               /\ LapsedBefore(k) => LapsedBefore(k)'
               /\ SamePair(proposals'[k], proposals[k])
    BY OpenWasOpen
  <1>2. ASSUME NEW v \in Workers, Unasked(v)'
        PROVE  PairMayAsk(job[v].key, job[v].target) /\ job'[v] = job[v]
    BY <1>2, UnaskedOnceChecked, NoneActiveMeans DEF RepeatInv, NoneActivePassed, TypeInv
  <1>3. ASSUME NEW c, NEW d, PairMayAsk(c, d), NEW k \in DOMAIN proposals,
               proposals'[k].proposer = c, proposals'[k].target = d, IsOpen(k)'
        PROVE  LapsedBefore(k)'
    BY <1>1, <1>3 DEF PairMayAsk, ProposalsTo, ProposalsBy, SamePair
  <1>4. ASSUME NEW w \in Processes, InsertProposal(w)
        PROVE  RepeatInv'
    <2>1. /\ n \in Nat /\ DOMAIN proposals = 1..(n - 1)
          /\ DOMAIN proposals' = DOMAIN proposals \cup {n}
          /\ proposals'[n].proposer = job[w].key /\ proposals'[n].target = job[w].target
          /\ w \in Workers /\ Unasked(w) /\ job[w].op = "propose"
      BY <1>4, InsertedRow
    <2> HIDE DEF n
    <2>2. NoneActivePassed'
      <3>1. SUFFICES ASSUME NEW v \in Workers, Unasked(v)',
                            NEW k \in DOMAIN proposals',
                            proposals'[k].proposer = job'[v].key,
                            proposals'[k].target = job'[v].target, IsOpen(k)'
                     PROVE  LapsedBefore(k)'
        BY DEF NoneActivePassed, PairMayAsk, ProposalsTo, ProposalsBy
      <3>2. v # w /\ job'[v] = job[v] /\ PairMayAsk(job[v].key, job[v].target)
        BY <1>2, <1>4, <3>1, UnaskedOnceChecked
      <3>3. job[v].op = "propose"
        <4>1. JobOK(v)' /\ v \in Processes
          BY NextKeepsTypeInv DEF TypeInv, JobsOK, Processes
        <4> QED
          BY <3>1, <3>2, <4>1 DEF JobOK, ProposeJobOK, EligibilityLabels, Unasked
      <3>4. job[v].key # job[w].key
        BY <2>1, <3>2, <3>3 DEF CooldownInv, KeysExclusive, Commands
      <3>5. k \in DOMAIN proposals
        BY <2>1, <3>1, <3>2, <3>4
      <3> QED
        BY <1>3, <3>1, <3>2, <3>5
    <2>3. RepeatedOnlyAfterLapse'
      <3>1. SUFFICES ASSUME NEW k \in DOMAIN proposals', NEW i \in DOMAIN proposals', k < i,
                            SamePair(proposals'[k], proposals'[i]), IsOpen(k)'
                     PROVE  LapsedBefore(k)'
        BY DEF RepeatedOnlyAfterLapse
      <3>2. k \in DOMAIN proposals
        BY <2>1, <3>1
      <3>3. CASE i = n
        <4>1. PairMayAsk(job[w].key, job[w].target)
          BY <2>1 DEF RepeatInv, NoneActivePassed
        <4> QED
          BY <1>3, <2>1, <3>1, <3>2, <3>3, <4>1 DEF SamePair
      <3>4. CASE i \in DOMAIN proposals
        BY <1>1, <3>1, <3>2, <3>4 DEF RepeatInv, RepeatedOnlyAfterLapse, SamePair
      <3> QED
        BY <2>1, <3>3, <3>4
    <2> QED
      BY <2>2, <2>3 DEF RepeatInv
  <1>5. ASSUME ~ \E w \in Workers \cup Sweepers : InsertProposal(w)
        PROVE  RepeatInv'
    <2>1. DOMAIN proposals' = DOMAIN proposals
      BY <1>5, OnlyInsertInserts
    <2>2. NoneActivePassed'
      BY <1>2, <1>3, <2>1 DEF NoneActivePassed, PairMayAsk, ProposalsTo, ProposalsBy
    <2>3. RepeatedOnlyAfterLapse'
      BY <1>1, <2>1 DEF RepeatInv, RepeatedOnlyAfterLapse, SamePair
    <2> QED
      BY <2>2, <2>3 DEF RepeatInv
  <1> QED
    BY <1>4, <1>5 DEF Processes

LEMMA RepeatInvHolds == Spec => []RepeatInv
  <1>1. Init => RepeatInv
    BY EmptySeq DEF Init, RepeatInv, NoneActivePassed, Unasked, RepeatedOnlyAfterLapse, Processes
  <1>2. TypeInv /\ CooldownInv /\ RepeatInv /\ [Next]_vars => RepeatInv'
    BY NextKeepsRepeatInv
  <1> QED
    BY <1>1, <1>2, TypeInvHolds, CooldownInvHolds, PTL DEF Spec

(* However handlers and sweepers interleave, a pair gets to a second open   *)
(* proposal only by way of one that outlived its expiry unswept.            *)
THEOREM NoRepeatBeforeLapse == Spec => []RepeatedOnlyAfterLapse
  <1>1. RepeatInv => RepeatedOnlyAfterLapse
    BY DEF RepeatInv
  <1> QED
    BY <1>1, RepeatInvHolds, PTL
=============================================================================
