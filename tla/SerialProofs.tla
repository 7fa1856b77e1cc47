----------------------------- MODULE SerialProofs -----------------------------
(****************************************************************************)
(* Theorems about Proposals with one handler and any number of sweepers,    *)
(* and with any number of both that take turns at a row.                    *)
(****************************************************************************)
EXTENDS MarriageProofs, SerialInvariant, FiniteSetTheorems

----------------------------------------------------------------------------
(* What does not happen while the one handler is busy.                      *)

(* A handler comes to a check, and to the insert, by passing the one before.*)
LEMMA ChecksInOrder ==
    ASSUME TypeInv, [Next]_vars, NEW w \in Processes, FoundProposerFree(w)'
    PROVE  /\ job'[w] = job[w]
           /\ StandsStill(w) \/ CheckStep(w)
           /\ StandsStill(w) \/
                /\ pc'[w] = "targetFree" =>
                      pc[w] = "proposerFree" /\ Free(job[w].key)
                /\ pc'[w] = "noneActive" =>
                      pc[w] = "targetFree" /\ Free(job[w].target)
                /\ pc'[w] = "globalCooldown" =>
                      pc[w] = "noneActive" /\ NoneActive(job[w].key, job[w].target)
                /\ pc'[w] = "targetCooldown" => pc[w] = "globalCooldown"
                /\ pc'[w] = "insert" =>
                      pc[w] = "targetCooldown" /\ TargetCooldownOver(job[w].key, job[w].target)
  <1>1. \A label : Goto(w, label) => pc'[w] = label
    BY DEF TypeInv, TypeOK, Goto
  <1>2. /\ pc'[w] \in {"targetFree", "noneActive", "globalCooldown", "targetCooldown", "insert"}
        /\ ~Finish(w)
    BY <1>1 DEF FoundProposerFree, Finish
  <1>3. StandsStill(w) \/ Statement(w)
    BY <1>2, MovesByStatement
  <1>4. CASE StandsStill(w)
    BY <1>4 DEF StandsStill
  <1>5. CASE Statement(w)
    <2>1. CheckStep(w)
      BY <1>1, <1>2, <1>5 DEF Statement, InsertProposal, LoadProposal, SaveProposal,
         CreateMarriage, LoadMarriage, SaveMarriage, Emit
    <2>2. CASE CheckProposerFree(w)
      BY <1>1, <1>2, <2>1, <2>2 DEF CheckProposerFree, Check
    <2>3. CASE CheckTargetFree(w)
      BY <1>1, <1>2, <2>1, <2>3 DEF CheckTargetFree, Check
    <2>4. CASE CheckNoneActive(w)
      BY <1>1, <1>2, <2>1, <2>4 DEF CheckNoneActive, Check
    <2>5. CASE CheckGlobalCooldown(w)
      BY <1>1, <1>2, <2>1, <2>5 DEF CheckGlobalCooldown, Check
    <2>6. CASE CheckTargetCooldown(w)
      BY <1>1, <1>2, <2>1, <2>6 DEF CheckTargetCooldown, Check
    <2> QED
      BY <2>1, <2>2, <2>3, <2>4, <2>5, <2>6 DEF CheckStep
  <1> QED
    BY <1>3, <1>4, <1>5

(* While the one handler reads, the only writes are the saves of sweepers.  *)
LEMMA OnlySweepersWrite ==
    ASSUME OneHandler, TypeInv, [Next]_vars, NEW w \in Workers,
           StandsStill(w) \/ CheckStep(w) \/ LoadProposal(w)
    PROVE  /\ \A v \in Processes : SaveProposal(v) => v \in Sweepers /\ job[v].op = "expire"
           /\ DOMAIN proposals' = DOMAIN proposals
           /\ marriages' = marriages
  <1>1. pc \in [Processes -> Labels] /\ w \in Processes
    BY DEF TypeInv, TypeOK, Processes
  <1> DEFINE Writes(v) == InsertProposal(v) \/ SaveProposal(v) \/ CreateMarriage(v) \/ SaveMarriage(v)
  <1>2. ~Writes(w)
    <2>1. Writes(w) => /\ pc[w] \in {"insert", "saveProposal", "createMarriage", "saveMarriage"}
                       /\ pc'[w] \in {"idle", "emit", "createMarriage", "saveMarriage"}
                       /\ pc'[w] # pc[w]
      BY <1>1 DEF InsertProposal, SaveProposal, CreateMarriage, SaveMarriage, Finish, Goto
    <2>2. CheckStep(w) =>
            pc[w] \in {"proposerFree", "targetFree", "noneActive", "globalCooldown", "targetCooldown"}
      BY DEF CheckStep, CheckProposerFree, CheckTargetFree, CheckNoneActive,
             CheckGlobalCooldown, CheckTargetCooldown, Check
    <2>3. LoadProposal(w) => pc[w] = "loadProposal"
      BY DEF LoadProposal
    <2> QED
      BY <2>1, <2>2, <2>3 DEF StandsStill
  <1>3. \A v \in Workers : v = w
    BY DEF OneHandler
  <1>4. ASSUME NEW s \in Sweepers
        PROVE  /\ ~InsertProposal(s) /\ ~CreateMarriage(s) /\ ~SaveMarriage(s)
               /\ SaveProposal(s) => job[s].op = "expire"
    <2>1. JobOK(s) /\ job[s].op \in {"none", "expire"}
      BY DEF TypeInv, JobsOK, SweepersOK, Processes
    <2> QED
      BY <2>1 DEF JobOK, ProposeJobOK, AnswerJobOK, MarriageJobOK, EligibilityLabels, DissolvingOps,
         InsertProposal, SaveProposal, CreateMarriage, SaveMarriage, Answers
  <1>5. \A v \in Processes : SaveProposal(v) => v \in Sweepers /\ job[v].op = "expire"
    BY <1>2, <1>3, <1>4 DEF Processes
  <1>6. ~ \E v \in Processes : InsertProposal(v) \/ CreateMarriage(v) \/ SaveMarriage(v)
    BY <1>2, <1>3, <1>4 DEF Processes
  <1> QED
    BY <1>5, <1>6, OnlyInsertInserts, OnlyTheseMarry DEF Processes

----------------------------------------------------------------------------
(* Proposals are made by and to characters who are free.                    *)

LEMMA NextKeepsFreeInv ==
    ASSUME OneHandler, TypeInv, FreeInv, [Next]_vars
    PROVE  FreeInv'
  <1>1. SUFFICES ASSUME NEW w \in Workers
                 PROVE  /\ FoundProposerFree(w)' => Free(job[w].key)'
                        /\ FoundTargetFree(w)' => Free(job[w].target)'
    BY DEF FreeInv
  <1>2. CASE ~FoundProposerFree(w)'
    BY <1>2 DEF FoundProposerFree, FoundTargetFree
  <1>3. CASE FoundProposerFree(w)'
    <2>1. w \in Processes
      BY DEF Processes
    <2>2. marriages' = marriages /\ job'[w] = job[w]
      BY <1>3, <2>1, ChecksInOrder, OnlySweepersWrite
    <2>3. /\ Free(job[w].key)
          /\ FoundTargetFree(w)' => Free(job[w].target)
      <3>1. CASE StandsStill(w)
        BY <1>3, <3>1 DEF FreeInv, StandsStill, FoundProposerFree, FoundTargetFree
      <3>2. CASE ~StandsStill(w)
        BY <1>3, <2>1, <3>2, ChecksInOrder DEF FreeInv, FoundProposerFree, FoundTargetFree
      <3> QED
        BY <3>1, <3>2
    <2>4. Free(job[w].key)' <=> Free(job[w].key)
      BY <2>2 DEF Free, ActiveMarriages
    <2>5. Free(job[w].target)' <=> Free(job[w].target)
      BY <2>2 DEF Free, ActiveMarriages
    <2> QED
      BY <2>3, <2>4, <2>5
  <1> QED
    BY <1>2, <1>3

LEMMA FreeInvHolds == ASSUME OneHandler PROVE Spec => []FreeInv
  <1>1. Init => FreeInv
    BY DEF Init, FreeInv, FoundProposerFree, FoundTargetFree, Processes
  <1>2. TypeInv /\ FreeInv /\ [Next]_vars => FreeInv'
    BY NextKeepsFreeInv
  <1> QED
    BY <1>1, <1>2, TypeInvHolds, PTL DEF Spec

(* With one handler, and any number of sweepers, a proposal is recorded     *)
(* only while neither of the two is in an active marriage, although the     *)
(* marriages are looked at several statements before the insert.            *)
THEOREM ProposersAreFree == ASSUME OneHandler PROVE Spec => ProposedWhileFree
  <1>1. TypeInv /\ FreeInv /\ [Next]_vars =>
          [\A i \in DOMAIN proposals' \ DOMAIN proposals :
              Free(proposals'[i].proposer) /\ Free(proposals'[i].target)]_proposals
    <2> SUFFICES ASSUME TypeInv, FreeInv, [Next]_vars,
                        NEW i \in DOMAIN proposals' \ DOMAIN proposals
                 PROVE  Free(proposals'[i].proposer) /\ Free(proposals'[i].target)
      OBVIOUS
    <2>1. PICK w \in Processes : InsertProposal(w)
      BY OnlyInsertInserts DEF Processes
    <2>2. /\ proposals'[i].proposer = job[w].key /\ proposals'[i].target = job[w].target
          /\ w \in Workers /\ pc[w] = "insert"
      BY <2>1, InsertedRow DEF InsertProposal
    <2> QED
      BY <2>2 DEF FreeInv, FoundProposerFree, FoundTargetFree
  <1> QED
    BY <1>1, TypeInvHolds, FreeInvHolds, PTL DEF Spec, ProposedWhileFree

----------------------------------------------------------------------------
(* The cooldown after a rejection.                                          *)

(* The row an insert adds is stamped with the time of the insert.           *)
LEMMA InsertStamps ==
    ASSUME TypeInv, NEW w \in Processes, InsertProposal(w)
    PROVE  LET n == Len(proposals) + 1 IN
           /\ proposals'[n].createdAt = now /\ now' = now
           /\ proposals'[n].status = "pending"
           /\ \A i \in DOMAIN proposals : proposals'[i] = proposals[i]
  <1> DEFINE q == NewProposal(job[w].key, job[w].target)
  <1>1. /\ pc[w] = "insert" /\ proposals' = Append(proposals, q) /\ now' = now
    BY DEF InsertProposal
  <1>2. job[w].key \in Characters /\ job[w].target \in Characters
    BY <1>1 DEF TypeInv, JobsOK, JobOK, ProposeJobOK, EligibilityLabels
  <1>3. q \in ProposalRow /\ q.createdAt = now /\ q.status = "pending"
    <2>1. q \in ProposalRow
      BY <1>2, NewProposalIsRow DEF TypeInv
    <2> QED
      BY <2>1 DEF NewProposal
  <1> HIDE DEF q
  <1> QED
    BY <1>1, <1>3, AppendedRow DEF TypeInv, TypeOK

(* What a load puts in the draft.                                           *)
LEMMA LoadedDraft ==
    ASSUME TypeInv, NEW w \in Processes, LoadProposal(w), pc'[w] = "saveProposal"
    PROVE  /\ job[w].pid \in DOMAIN proposals /\ job'[w].pid = job[w].pid
           /\ proposals[job[w].pid].status = "pending"
           /\ job'[w].op = job[w].op /\ job[w].op \in Answers \cup {"expire"}
           /\ job'[w].draft = Transformed(job[w].op, proposals[job[w].pid])
           /\ job'[w].draft.updatedAt = now
           /\ job'[w].draft.createdAt = proposals[job[w].pid].createdAt
           /\ SamePair(job'[w].draft, proposals[job[w].pid])
           /\ job'[w].draft.status = Outcome[job[w].op]
           /\ job[w].op # "expire" => ~Overdue(proposals[job[w].pid])
           /\ UNCHANGED <<now, proposals, marriages>>
  <1> DEFINE op == job[w].op
             p == proposals[job[w].pid]
  <1>1. /\ job'[w].draft = Transformed(op, p) /\ job'[w].op = op /\ job'[w].pid = job[w].pid
        /\ MayTransform(op, p)
        /\ pc[w] = "loadProposal" /\ UNCHANGED <<now, proposals, marriages>>
    BY LoadProposalStep DEF LoadProposal, tables
  <1>2. op \in Answers \cup {"expire"} /\ job[w].pid \in DOMAIN proposals
    BY <1>1 DEF TypeInv, JobsOK, JobOK, AnswerJobOK
  <1>3. p \in ProposalRow
    BY <1>2, RowsAreRows DEF TypeInv, TypeOK
  <1>4. p.status = "pending" /\ p.rejections = 0 /\ (op # "expire" => ~Overdue(p))
    BY <1>1, <1>2 DEF MayTransform, CanRespond, TypeInv, OpenRowsFresh
  <1>5. LET d == Transformed(op, p) IN
          /\ d.updatedAt = now /\ d.createdAt = p.createdAt /\ SamePair(d, p)
          /\ d.status = Outcome[op]
    BY <1>2, <1>3, <1>4, TransformedRow DEF TypeInv
  <1> QED
    BY <1>1, <1>2, <1>4, <1>5

LEMMA NextKeepsOutcomeInv ==
    ASSUME TypeInv, OutcomeInv, [Next]_vars
    PROVE  OutcomeInv'
  <1>1. ASSUME NEW w \in Processes, pc'[w] = "saveProposal"
        PROVE  job'[w].draft.status = Outcome[job'[w].op]
    <2>1. CASE StandsStill(w)
      BY <1>1, <2>1 DEF StandsStill, OutcomeInv
    <2>2. CASE LoadProposal(w)
      BY <1>1, <2>2, LoadedDraft
    <2> QED
      BY <1>1, <2>1, <2>2, Arrivals
  <1> QED
    BY <1>1 DEF OutcomeInv

(* Who had lapsed stays so: the one handler does not answer an overdue row, *)
(* for nothing was inserted since it loaded the row it saves.               *)
LEMMA LapsedStays ==
    ASSUME OneHandler, TypeInv, WindowInv, OutcomeInv, DraftInv, [Next]_vars,
           NEW h \in DOMAIN proposals, proposals[h].status \in {"pending", "expired"},
           \/ \E k \in DOMAIN proposals : proposals[k].createdAt > ExpiresAt(proposals[h])
           \/ ~ \E w \in Workers : SaveProposal(w)
    PROVE  proposals'[h].status \in {"pending", "expired"}
  <1>1. CASE \E w \in Processes : InsertProposal(w)
    BY <1>1, InsertStamps
  <1>2. ASSUME NEW w \in Processes, SaveProposal(w), job[w].pid = h
        PROVE  proposals'[h].status \in {"pending", "expired"}
    <2> DEFINE d == job[w].draft
    <2>1. proposals'[h].status = d.status /\ pc[w] = "saveProposal"
      BY <1>2, SavedProposal DEF SaveProposal
    <2>2. d \in ProposalRow /\ d.createdAt = proposals[h].createdAt /\ d.status # "pending"
      BY <1>2, SavedProposal
    <2>3. DraftInWindow(d)
      BY <2>1 DEF WindowInv
    <2>4. CASE w \in Workers
      <3>1. PICK k \in DOMAIN proposals : proposals[k].createdAt > ExpiresAt(proposals[h])
        BY <1>2, <2>4
      <3>2. proposals[k].createdAt <= d.updatedAt
        BY <2>1, <2>4 DEF DraftInv
      <3>3. ExpiresAt(d) = ExpiresAt(proposals[h])
        BY <2>2 DEF ExpiresAt
      <3>4. /\ proposals[k].createdAt \in Nat /\ d.updatedAt \in Nat
            /\ ExpiresAt(proposals[h]) \in Nat
        BY <2>2, StampsAreNat, DurationsAreNat DEF TypeInv, ExpiresAt, ProposalRow
      <3>5. d.status = "expired"
        BY <2>3, <3>1, <3>2, <3>3, <3>4 DEF DraftInWindow
      <3> QED
        BY <2>1, <3>5
    <2>5. CASE w \in Sweepers
      <3>1. job[w].op = "expire"
        BY <2>1, <2>5 DEF TypeInv, JobsOK, JobOK, AnswerJobOK, SweepersOK, Answers, Processes
      <3>2. d.status = "expired"
        BY <2>1, <3>1, OutcomeValues DEF OutcomeInv
      <3> QED
        BY <2>1, <3>2
    <2> QED
      BY <2>4, <2>5 DEF Processes
  <1>3. ASSUME NEW w \in Processes, SaveProposal(w), job[w].pid # h
        PROVE  proposals'[h].status \in {"pending", "expired"}
    BY <1>3, SaveProposalStep
  <1> QED
    BY <1>1, <1>2, <1>3, OnlyTheseWrite

LEMMA HadLapsedStays ==
    ASSUME OneHandler, TypeInv, WindowInv, OutcomeInv, DraftInv, [Next]_vars,
           NEW h \in DOMAIN proposals, NEW k \in DOMAIN proposals, HadLapsed(h, k)
    PROVE  HadLapsed(h, k)'
  <1>1. Kept(h) /\ Kept(k)
    BY NextKeepsTypeInv DEF TablesGrow
  <1>2. /\ SamePair(proposals[h], proposals[k])
        /\ proposals[h].status \in {"pending", "expired"}
        /\ proposals[k].createdAt > ExpiresAt(proposals[h])
    BY DEF HadLapsed
  <1>3. proposals'[h].status \in {"pending", "expired"}
    BY <1>2, LapsedStays
  <1> QED
    BY <1>1, <1>2, <1>3 DEF HadLapsed, Kept, SamePair, ExpiresAt

(* The check for an open proposal finds the first pending one overdue, if   *)
(* there is one.                                                            *)
LEMMA FirstHasLapsed ==
    ASSUME TypeOK, NEW w \in Workers, NoneActive(job[w].key, job[w].target)
    PROVE  FoundLapsed(w)
  <1> DEFINE ids == Pending(ProposalsTo(job[w].key, job[w].target))
  <1>1. DOMAIN proposals = 1..Len(proposals) /\ Len(proposals) \in Nat
    BY LenProperties DEF TypeOK
  <1>2. SUFFICES ASSUME NEW i \in ids
                 PROVE  \E h \in ProposalsTo(job[w].key, job[w].target) :
                          /\ h <= i
                          /\ proposals[h].status \in {"pending", "expired"}
                          /\ Overdue(proposals[h])
    BY DEF FoundLapsed
  <1>3. ids \in SUBSET Nat
    BY <1>1 DEF Pending, ProposalsTo, ProposalsBy
  <1>4. PICK h \in ids : \A k \in ids : h <= k
    BY <1>2, <1>3, FirstOf
  <1>5. Overdue(proposals[h])
    BY <1>4 DEF NoneActive, First
  <1> QED
    BY <1>4, <1>5 DEF Pending

LEMMA FoundLapsedStays ==
    ASSUME OneHandler, TypeInv, WindowInv, OutcomeInv, LapseInv, DraftInv, [Next]_vars,
           NEW w \in Workers, Unasked(w)'
    PROVE  FoundLapsed(w)'
  <1>1. w \in Processes /\ FoundProposerFree(w)'
    BY DEF Processes, Unasked, FoundProposerFree
  <1>2. job'[w] = job[w]
    BY <1>1, ChecksInOrder
  <1>3. /\ DOMAIN proposals' = DOMAIN proposals
        /\ ~ \E v \in Workers : SaveProposal(v)
    BY <1>1, ChecksInOrder, OnlySweepersWrite, SweepersAreNotWorkers DEF Processes
  <1>4. FoundLapsed(w)
    <2>1. CASE Unasked(w)
      BY <2>1 DEF LapseInv
    <2>2. CASE NoneActive(job[w].key, job[w].target)
      BY <2>2, FirstHasLapsed DEF TypeInv
    <2> QED
      BY <2>1, <2>2, UnaskedOnceChecked
  <1> DEFINE c == job[w].key
             d == job[w].target
  <1>5. \A i \in DOMAIN proposals : Kept(i)
    BY NextKeepsTypeInv DEF TablesGrow
  <1>6. SUFFICES ASSUME NEW i \in DOMAIN proposals, proposals'[i].proposer = c,
                        proposals'[i].target = d, proposals'[i].status = "pending"
                 PROVE  \E h \in DOMAIN proposals :
                          /\ proposals'[h].proposer = c /\ proposals'[h].target = d
                          /\ h <= i
                          /\ proposals'[h].status \in {"pending", "expired"}
                          /\ Overdue(proposals[h])'
    BY <1>2, <1>3 DEF FoundLapsed, Pending, ProposalsTo, ProposalsBy
  <1>7. proposals[i].proposer = c /\ proposals[i].target = d /\ proposals[i].status = "pending"
    BY <1>5, <1>6 DEF Kept
  <1>8. PICK h \in DOMAIN proposals :
          /\ proposals[h].proposer = c /\ proposals[h].target = d
          /\ h <= i
          /\ proposals[h].status \in {"pending", "expired"}
          /\ Overdue(proposals[h])
    BY <1>4, <1>7 DEF FoundLapsed, Pending, ProposalsTo, ProposalsBy
  <1>9. proposals'[h].status \in {"pending", "expired"}
    BY <1>3, <1>8, LapsedStays
  <1> QED
    BY <1>5, <1>8, <1>9, StaysOverdue DEF Kept, SamePair

LEMMA NextKeepsLapseInv ==
    ASSUME OneHandler, TypeInv, WindowInv, OutcomeInv, LapseInv, DraftInv, [Next]_vars
    PROVE  LapseInv'
  <1>1. SUFFICES ASSUME NEW i \in DOMAIN proposals', NEW k \in DOMAIN proposals', i < k,
                        SamePair(proposals'[i], proposals'[k]), proposals'[i].status = "pending"
                 PROVE  \E h \in 1..i : HadLapsed(h, k)'
    BY FoundLapsedStays DEF LapseInv
  <1>2. CASE k \in DOMAIN proposals
    <2>1. DOMAIN proposals = 1..Len(proposals) /\ Len(proposals) \in Nat
          /\ DOMAIN proposals' = 1..Len(proposals') /\ Len(proposals') \in Nat
      BY LenProperties, NextKeepsTypeInv DEF TypeInv, TypeOK
    <2>2. i \in DOMAIN proposals
      BY <1>1, <1>2, <2>1
    <2>3. Kept(i) /\ Kept(k)
      BY <1>2, <2>2, NextKeepsTypeInv DEF TablesGrow
    <2>4. SamePair(proposals[i], proposals[k]) /\ proposals[i].status = "pending"
      BY <1>1, <2>3 DEF Kept, SamePair
    <2>5. PICK h \in 1..i : HadLapsed(h, k)
      BY <1>1, <1>2, <2>2, <2>4 DEF LapseInv
    <2>6. h \in DOMAIN proposals
      BY <2>1, <2>2
    <2> QED
      BY <1>2, <2>5, <2>6, HadLapsedStays
  <1>3. CASE k \notin DOMAIN proposals
    <2>1. PICK w \in Processes : InsertProposal(w)
      BY <1>3, OnlyInsertInserts DEF Processes
    <2> DEFINE n == Len(proposals) + 1
    <2>2. /\ n \in Nat /\ DOMAIN proposals = 1..(n - 1)
          /\ DOMAIN proposals' = DOMAIN proposals \cup {n}
          /\ proposals'[n].proposer = job[w].key /\ proposals'[n].target = job[w].target
          /\ w \in Workers /\ Unasked(w)
      BY <2>1, InsertedRow
    <2>3. /\ proposals'[n].createdAt = now
          /\ \A m \in DOMAIN proposals : proposals'[m] = proposals[m]
      BY <2>1, InsertStamps
    <2> HIDE DEF n
    <2>4. k = n /\ i \in DOMAIN proposals /\ proposals'[i] = proposals[i]
      BY <1>1, <1>3, <2>2, <2>3
    <2>5. i \in Pending(ProposalsTo(job[w].key, job[w].target))
      BY <1>1, <2>2, <2>4 DEF Pending, ProposalsTo, ProposalsBy, SamePair
    <2>6. PICK h \in ProposalsTo(job[w].key, job[w].target) :
            /\ h <= i
            /\ proposals[h].status \in {"pending", "expired"}
            /\ Overdue(proposals[h])
      BY <2>2, <2>5 DEF LapseInv, FoundLapsed
    <2>7. h \in 1..i /\ h \in DOMAIN proposals /\ proposals'[h] = proposals[h]
      BY <2>2, <2>3, <2>4, <2>6 DEF ProposalsTo, ProposalsBy
    <2>8. HadLapsed(h, k)'
      BY <2>2, <2>3, <2>4, <2>6, <2>7
      DEF HadLapsed, SamePair, Overdue, ExpiresAt, ProposalsTo, ProposalsBy
    <2> QED
      BY <2>7, <2>8
  <1> QED
    BY <1>2, <1>3

LEMMA NextKeepsDraftInv ==
    ASSUME OneHandler, TypeInv, WindowInv, OutcomeInv, LapseInv, DraftInv, [Next]_vars
    PROVE  DraftInv'
  <1>1. SUFFICES ASSUME NEW w \in Workers, pc'[w] = "saveProposal", NEW k \in DOMAIN proposals'
                 PROVE  /\ proposals'[k].createdAt <= job'[w].draft.updatedAt
                        /\ job'[w].pid < k /\ SamePair(proposals'[job'[w].pid], proposals'[k])
                           => \E h \in 1..(job'[w].pid - 1) : HadLapsed(h, k)'
    BY DEF DraftInv
  <1>2. w \in Processes /\ (StandsStill(w) \/ LoadProposal(w))
    BY <1>1, Arrivals DEF Processes
  <1>3. k \in DOMAIN proposals /\ Kept(k)
    BY <1>2, OnlySweepersWrite, NextKeepsTypeInv DEF TablesGrow
  <1>4. DOMAIN proposals = 1..Len(proposals) /\ Len(proposals) \in Nat
    BY LenProperties DEF TypeInv, TypeOK
  <1>5. CASE StandsStill(w)
    <2> DEFINE i == job[w].pid
    <2>1. pc[w] = "saveProposal" /\ job'[w] = job[w] /\ i \in DOMAIN proposals
      BY <1>1, <1>2, <1>5 DEF StandsStill, TypeInv, JobsOK, JobOK, AnswerJobOK
    <2>2. Kept(i)
      BY <2>1, NextKeepsTypeInv DEF TablesGrow
    <2>3. /\ proposals[k].createdAt <= job[w].draft.updatedAt
          /\ i < k /\ SamePair(proposals[i], proposals[k])
             => \E h \in 1..(i - 1) : HadLapsed(h, k)
      BY <1>3, <2>1 DEF DraftInv
    <2>4. ASSUME NEW h \in 1..(i - 1), HadLapsed(h, k) PROVE HadLapsed(h, k)'
      <3>1. h \in DOMAIN proposals
        BY <1>4, <2>1
      <3> QED
        BY <1>3, <2>4, <3>1, HadLapsedStays
    <2> QED
      BY <1>3, <2>1, <2>2, <2>3, <2>4 DEF Kept, SamePair
  <1>6. CASE LoadProposal(w)
    <2> DEFINE i == job[w].pid
    <2>1. /\ i \in DOMAIN proposals /\ job'[w].pid = i
          /\ proposals[i].status = "pending"
          /\ job[w].op # "expire" => ~Overdue(proposals[i])
          /\ job'[w].draft.updatedAt = now /\ proposals' = proposals
      BY <1>1, <1>2, <1>6, LoadedDraft
    <2>2. ~Overdue(proposals[i])
      BY <2>1 DEF TypeInv, SweepersOK
    <2>3. proposals[k].createdAt <= now
      BY <1>3 DEF WindowInv, RowInWindow
    <2>4. ASSUME i < k, SamePair(proposals[i], proposals[k])
          PROVE  \E h \in 1..(i - 1) : HadLapsed(h, k)
      <3>1. PICK h \in 1..i : HadLapsed(h, k)
        BY <1>3, <2>1, <2>4 DEF LapseInv
      <3>2. /\ now \in Nat /\ proposals[k].createdAt \in Nat /\ ExpiresAt(proposals[i]) \in Nat
        BY <1>3, <2>1, StampsAreNat, DurationsAreNat DEF TypeInv, TypeOK, ExpiresAt
      <3>3. h # i
        BY <2>2, <2>3, <3>1, <3>2 DEF HadLapsed, Overdue
      <3> QED
        BY <1>4, <2>1, <3>1, <3>3
    <2>5. \A h : HadLapsed(h, k)' <=> HadLapsed(h, k)
      BY <2>1 DEF HadLapsed, SamePair, ExpiresAt
    <2> QED
      BY <2>1, <2>3, <2>4, <2>5
  <1> QED
    BY <1>2, <1>5, <1>6

(* What the check finds of a row stays found: while the handler goes on,    *)
(* rows change by expiring only.                                            *)
LEMMA CooledDownStays ==
    ASSUME OneHandler, TypeInv, OutcomeInv, RejectionInv, [Next]_vars,
           NEW w \in Workers, pc'[w] = "insert"
    PROVE  FoundCooledDown(w)'
  <1>1. w \in Processes /\ FoundProposerFree(w)'
    BY DEF Processes, FoundProposerFree
  <1>2. job'[w] = job[w] /\ (StandsStill(w) \/ CheckStep(w))
    BY <1>1, ChecksInOrder
  <1>3. /\ DOMAIN proposals' = DOMAIN proposals
        /\ \A v \in Processes : SaveProposal(v) => v \in Sweepers /\ job[v].op = "expire"
    BY <1>2, OnlySweepersWrite
  <1>4. FoundCooledDown(w)
    <2>1. CASE StandsStill(w)
      BY <2>1 DEF StandsStill, RejectionInv
    <2>2. CASE TargetCooldownOver(job[w].key, job[w].target)
      BY <2>2 DEF TargetCooldownOver, FoundCooledDown
    <2> QED
      BY <1>1, <2>1, <2>2, ChecksInOrder
  <1>5. ASSUME NEW i \in DOMAIN proposals
        PROVE  /\ SamePair(proposals'[i], proposals[i])
               /\ proposals'[i].createdAt = proposals[i].createdAt
               /\ proposals'[i].status = "rejected" => proposals'[i] = proposals[i]
    <2>1. Kept(i)
      BY NextKeepsTypeInv DEF TablesGrow
    <2>2. ASSUME NEW v \in Processes, SaveProposal(v)
          PROVE  proposals'[i].status = "rejected" => proposals'[i] = proposals[i]
      <3>1. job[v].draft.status = "expired"
        BY <1>3, <2>2, OutcomeValues DEF OutcomeInv, SaveProposal
      <3> QED
        BY <2>2, <3>1, SaveProposalStep, SavedProposal
    <2>3. ASSUME NEW v \in Processes, InsertProposal(v)
          PROVE  proposals'[i] = proposals[i]
      BY <2>3, InsertStamps
    <2> QED
      BY <2>1, <2>2, <2>3, OnlyTheseWrite DEF Kept, SamePair
  <1> DEFINE ids == ProposalsTo(job[w].key, job[w].target)
  <1>6. ids' = ids
    BY <1>2, <1>3, <1>5 DEF ProposalsTo, ProposalsBy, SamePair
  <1>7. now' >= now /\ now' \in Nat /\ now \in Nat
    BY ClockAdvances DEF TypeInv, TypeOK
  <1>8. ASSUME NEW i \in Newest(ids)', proposals'[i].status = "rejected"
        PROVE  now' > proposals'[i].cooldownUntil
    <2>1. i \in ids /\ i \in DOMAIN proposals
      BY <1>6, <1>8 DEF Newest, ProposalsTo, ProposalsBy
    <2>2. \A k \in ids : k \in DOMAIN proposals
      BY DEF ProposalsTo, ProposalsBy
    <2>3. i \in Newest(ids)
      BY <1>5, <1>6, <1>8, <2>1, <2>2 DEF Newest
    <2>4. proposals'[i] = proposals[i]
      BY <1>5, <1>8, <2>1
    <2>5. now > proposals[i].cooldownUntil
      BY <1>4, <1>8, <2>3, <2>4 DEF FoundCooledDown
    <2>6. proposals[i].cooldownUntil \in Nat
      BY <2>1, StampsAreNat DEF TypeInv
    <2> QED
      BY <1>7, <2>4, <2>5, <2>6
  <1> QED
    BY <1>8 DEF FoundCooledDown

(* A proposal made while the rejected one was open is not forgotten.        *)
LEMMA AskedStays ==
    ASSUME OneHandler, TypeInv, WindowInv, OutcomeInv, DraftInv, [Next]_vars,
           NEW i \in DOMAIN proposals, NEW j \in DOMAIN proposals, AskedMeanwhile(i, j),
           proposals'[i].respondedAt = proposals[i].respondedAt
    PROVE  AskedMeanwhile(i, j)'
  <1>1. DOMAIN proposals = 1..Len(proposals) /\ Len(proposals) \in Nat
    BY LenProperties DEF TypeInv, TypeOK
  <1>2. PICK k \in (i + 1)..j :
          /\ SamePair(proposals[i], proposals[k])
          /\ proposals[k].createdAt <= proposals[i].respondedAt
          /\ \E h \in 1..(i - 1) : HadLapsed(h, k)
    BY DEF AskedMeanwhile
  <1>3. PICK h \in 1..(i - 1) : HadLapsed(h, k)
    BY <1>2
  <1>4. k \in DOMAIN proposals /\ h \in DOMAIN proposals
    BY <1>1, <1>2, <1>3
  <1>5. HadLapsed(h, k)'
    BY <1>3, <1>4, HadLapsedStays
  <1>6. Kept(i) /\ Kept(k)
    BY <1>4, NextKeepsTypeInv DEF TablesGrow
  <1>7. SamePair(proposals'[i], proposals'[k]) /\ proposals'[k].createdAt <= proposals'[i].respondedAt
    BY <1>2, <1>6 DEF Kept, SamePair
  <1> QED
    BY <1>5, <1>7 DEF AskedMeanwhile

(* The newest row of a pair is the last one.                                *)
LEMMA LastIsNewest ==
    ASSUME TypeOK, GlobalCooldownKept, NEW c, NEW d, NEW i \in ProposalsTo(c, d)
    PROVE  \E m \in Newest(ProposalsTo(c, d)) : i <= m
  <1>1. DOMAIN proposals = 1..Len(proposals) /\ Len(proposals) \in Nat
    BY LenProperties DEF TypeOK
  <1> DEFINE ids == ProposalsTo(c, d)
  <1>2. ids \in SUBSET (1..Len(proposals))
    BY <1>1 DEF ProposalsTo, ProposalsBy
  <1>3. PICK m \in ids : \A k \in ids : k <= m
    BY <1>1, <1>2, LastOf
  <1>4. ASSUME NEW k \in ids PROVE proposals[k].createdAt <= proposals[m].createdAt
    <2>1. k \in DOMAIN proposals /\ m \in DOMAIN proposals /\ k <= m
      BY <1>1, <1>2, <1>3
    <2>2. proposals[k].createdAt \in Nat /\ proposals[m].createdAt \in Nat /\ GlobalCooldown \in Nat
      BY <2>1, StampsAreNat, DurationsAreNat
    <2>3. proposals[k].proposer = proposals[m].proposer
      BY DEF ProposalsTo, ProposalsBy
    <2>4. k # m => k < m
      BY <1>1, <2>1
    <2> QED
      BY <2>1, <2>2, <2>3, <2>4 DEF GlobalCooldownKept
  <1>5. m \in Newest(ids)
    BY <1>4 DEF Newest
  <1> QED
    BY <1>3, <1>5

LEMMA NextKeepsRejectionInv ==
    ASSUME OneHandler, TypeInv, CooldownInv, WindowInv, OutcomeInv, LapseInv, DraftInv,
           RejectionInv, [Next]_vars
    PROVE  RejectionInv'
  <1>1. SUFFICES ASSUME NEW i \in DOMAIN proposals', NEW j \in DOMAIN proposals', i < j,
                        SamePair(proposals'[i], proposals'[j]), proposals'[i].status = "rejected",
                        proposals'[j].createdAt <= proposals'[i].cooldownUntil
                 PROVE  AskedMeanwhile(i, j)'
    BY CooledDownStays DEF RejectionInv, RejectionCooldownKept
  <1>2. /\ DOMAIN proposals = 1..Len(proposals) /\ Len(proposals) \in Nat
        /\ DOMAIN proposals' = 1..Len(proposals') /\ Len(proposals') \in Nat
    BY LenProperties, NextKeepsTypeInv DEF TypeInv, TypeOK
  <1>3. \A k \in DOMAIN proposals : Kept(k)
    BY NextKeepsTypeInv DEF TablesGrow
  <1>4. CASE j \in DOMAIN proposals /\ proposals'[i] = proposals[i]
    <2>1. i \in DOMAIN proposals
      BY <1>1, <1>2, <1>4
    <2>2. /\ SamePair(proposals[i], proposals[j])
          /\ proposals[j].createdAt <= proposals[i].cooldownUntil
      BY <1>1, <1>3, <1>4, <2>1 DEF Kept, SamePair
    <2>3. AskedMeanwhile(i, j)
      BY <1>1, <1>4, <2>1, <2>2 DEF RejectionInv, RejectionCooldownKept
    <2> QED
      BY <1>4, <2>1, <2>3, AskedStays
  <1>5. ASSUME NEW w \in Processes, InsertProposal(w), j \notin DOMAIN proposals
        PROVE  AskedMeanwhile(i, j)'
    <2> DEFINE n == Len(proposals) + 1
               c == job[w].key
               d == job[w].target
    <2>1. /\ DOMAIN proposals' = DOMAIN proposals \cup {n}
          /\ proposals'[n].proposer = c /\ proposals'[n].target = d /\ w \in Workers
          /\ pc[w] = "insert"
      BY <1>5, InsertedRow DEF InsertProposal
    <2>2. /\ proposals'[n].createdAt = now
          /\ \A m \in DOMAIN proposals : proposals'[m] = proposals[m]
      BY <1>5, InsertStamps
    <2>3. j = n /\ i \in DOMAIN proposals /\ proposals'[i] = proposals[i]
      <3>1. j = n
        BY <1>5, <2>1
      <3>2. i # n
        BY <1>1, <1>2, <3>1
      <3> QED
        BY <2>1, <2>2, <3>1, <3>2
    <2>4. i \in ProposalsTo(c, d)
      BY <1>1, <2>1, <2>3 DEF ProposalsTo, ProposalsBy, SamePair
    <2>5. PICK m \in Newest(ProposalsTo(c, d)) : i <= m
      BY <2>4, LastIsNewest DEF TypeInv, CooldownInv
    <2>6. m \in DOMAIN proposals /\ SamePair(proposals[i], proposals[m])
      BY <2>4, <2>5 DEF Newest, ProposalsTo, ProposalsBy, SamePair
    <2>7. /\ now \in Nat /\ proposals[m].createdAt \in Nat /\ proposals[i].cooldownUntil \in Nat
          /\ now <= proposals[i].cooldownUntil /\ proposals[i].status = "rejected"
      BY <1>1, <2>2, <2>3, <2>6, StampsAreNat DEF TypeInv, TypeOK
    <2>8. m # i
      BY <2>1, <2>5, <2>7 DEF RejectionInv, FoundCooledDown
    <2>9. proposals[m].createdAt <= now
      BY <2>6 DEF WindowInv, RowInWindow
    <2>10. AskedMeanwhile(i, m)
      <3>1. i < m /\ proposals[m].createdAt <= proposals[i].cooldownUntil
        BY <1>2, <2>3, <2>5, <2>6, <2>7, <2>8, <2>9
      <3> QED
        BY <2>3, <2>6, <2>7, <3>1 DEF RejectionInv, RejectionCooldownKept
    <2>11. AskedMeanwhile(i, m)'
      BY <2>3, <2>6, <2>10, AskedStays
    <2>12. (i + 1)..m \subseteq (i + 1)..j
      BY <1>2, <2>3, <2>6
    <2> QED
      BY <2>11, <2>12 DEF AskedMeanwhile
  <1>6. ASSUME NEW w \in Processes, SaveProposal(w), i = job[w].pid
        PROVE  AskedMeanwhile(i, j)'
    <2> DEFINE p == job[w].draft
    <2>1. /\ DOMAIN proposals' = DOMAIN proposals /\ i \in DOMAIN proposals
          /\ proposals'[i].status = p.status /\ proposals'[i].respondedAt = p.respondedAt
          /\ pc[w] = "saveProposal"
      BY <1>6, SaveProposalStep, SavedProposal DEF SaveProposal
    <2>2. w \in Workers
      <3>1. w \in Sweepers => job[w].op = "expire"
        BY <2>1 DEF TypeInv, JobsOK, JobOK, AnswerJobOK, SweepersOK, Answers
      <3> QED
        BY <1>1, <2>1, <3>1, OutcomeValues DEF OutcomeInv, Processes
    <2>3. SamePair(proposals[i], proposals[j])
      BY <1>1, <1>3, <2>1 DEF Kept, SamePair
    <2>4. /\ proposals[j].createdAt <= p.updatedAt
          /\ \E h \in 1..(i - 1) : HadLapsed(h, j)
      BY <1>1, <1>6, <2>1, <2>2, <2>3 DEF DraftInv
    <2>5. PICK h \in 1..(i - 1) : HadLapsed(h, j)
      BY <2>4
    <2>6. h \in DOMAIN proposals
      BY <1>1, <1>2, <2>1
    <2>7. HadLapsed(h, j)'
      BY <1>1, <2>1, <2>5, <2>6, HadLapsedStays
    <2>8. proposals'[j].createdAt <= proposals'[i].respondedAt
      <3>1. p.respondedAt = p.updatedAt
        BY <1>1, <2>1 DEF WindowInv, DraftInWindow
      <3> QED
        BY <1>1, <1>3, <2>1, <2>4, <3>1 DEF Kept
    <2>9. j \in (i + 1)..j
      BY <1>1, <1>2
    <2> QED
      BY <1>1, <2>7, <2>8, <2>9 DEF AskedMeanwhile
  <1>7. ASSUME NEW w \in Processes, SaveProposal(w), i # job[w].pid
        PROVE  j \in DOMAIN proposals /\ proposals'[i] = proposals[i]
    BY <1>1, <1>7, SaveProposalStep
  <1>8. ASSUME NEW w \in Processes, InsertProposal(w), j \in DOMAIN proposals
        PROVE  proposals'[i] = proposals[i]
    BY <1>1, <1>2, <1>8, InsertStamps
  <1> QED
    BY <1>4, <1>5, <1>6, <1>7, <1>8, OnlyTheseWrite

(* The inductive invariant for one handler and any number of sweepers.      *)
THEOREM HandlerInvariantHolds == ASSUME OneHandler PROVE Spec => []HandlerInv
  <1>1. Init => HandlerInv
    <2> SUFFICES ASSUME Init PROVE HandlerInv
      OBVIOUS
    <2>1. DOMAIN proposals = {}
      BY EmptySeq DEF Init
    <2>2. \A w \in Processes : pc[w] = "idle"
      BY DEF Init
    <2>3. FreeInv /\ OutcomeInv
      BY <2>1, <2>2 DEF FreeInv, FoundProposerFree, FoundTargetFree, OutcomeInv, Processes
    <2>4. LapseInv /\ DraftInv /\ RejectionInv
      BY <2>1, <2>2 DEF LapseInv, Unasked, DraftInv, RejectionInv, RejectionCooldownKept, Processes
    <2> QED
      BY <2>3, <2>4 DEF HandlerInv
  <1>2. IInv /\ HandlerInv /\ [Next]_vars => HandlerInv'
    BY NextKeepsFreeInv, NextKeepsOutcomeInv, NextKeepsLapseInv,
       NextKeepsDraftInv, NextKeepsRejectionInv DEF IInv, HandlerInv
  <1> QED
    BY <1>1, <1>2, InvariantHolds, PTL DEF Spec

(* With one handler, and any number of sweepers, a rejected proposal is not *)
(* made again before its cooldown is over, except by a pair that had got to *)
(* two open proposals by way of a lapsed one no sweep had marked.           *)
THEOREM RejectionsAreRespected == ASSUME OneHandler PROVE Spec => []RejectionCooldownKept
  <1>1. HandlerInv => RejectionCooldownKept
    BY DEF HandlerInv, RejectionInv
  <1> QED
    BY <1>1, HandlerInvariantHolds, PTL

----------------------------------------------------------------------------
(* Turns: what an answer has loaded is what it replaces.                    *)

LEMMA WritesMove ==
    ASSUME TypeInv, NEW w \in Processes, StandsStill(w)
    PROVE  ~InsertProposal(w) /\ ~SaveProposal(w) /\ ~CreateMarriage(w) /\ ~SaveMarriage(w)
  BY DEF TypeInv, TypeOK, StandsStill, InsertProposal, SaveProposal, CreateMarriage, SaveMarriage,
         Finish, Goto

(* A step is the save of one process.                                       *)
LEMMA OneSave ==
    ASSUME TypeInv, NEW v \in Processes, NEW w \in Processes, SaveProposal(v), SaveProposal(w)
    PROVE  v = w
  BY DEF TypeInv, TypeOK, SaveProposal, Goto

(* A process comes to owe an announcement by saving an outcome.             *)
LEMMA OwesOrSaves ==
    ASSUME TypeInv, [Next]_vars, NEW w \in Processes, Owes(w)'
    PROVE  \/ Owes(w) /\ job'[w].pid = job[w].pid /\ job'[w].op = job[w].op
           \/ SaveProposal(w)
  <1>1. pc'[w] \in {"createMarriage", "saveMarriage", "emit"} /\ Settles(job'[w].op)
    BY DEF Owes
  <1>2. CASE StandsStill(w)
    BY <1>1, <1>2 DEF StandsStill, Owes
  <1>3. CASE CreateMarriage(w)
    <2>1. /\ pc[w] = "createMarriage"
          /\ job' = [job EXCEPT ![w].mid = Len(marriages) + 1]
      BY <1>3 DEF CreateMarriage
    <2>2. job'[w].pid = job[w].pid /\ job'[w].op = job[w].op
      BY <2>1 DEF TypeInv, TypeOK, Job
    <2> QED
      BY <1>1, <2>1, <2>2 DEF Owes
  <1>4. CASE SaveMarriage(w)
    BY <1>1, <1>4 DEF SaveMarriage, Owes
  <1>5. ~InsertProposal(w)
    <2>1. InsertProposal(w) => job[w].op = "propose"
      BY InsertedRow
    <2>2. InsertProposal(w) => job'[w].op \in {job[w].op, "none"}
      BY SameTask DEF Statement
    <2> QED
      BY <1>1, <2>1, <2>2 DEF Settles, Answers
  <1>6. ~LoadMarriage(w)
    <2>1. LoadMarriage(w) => job[w].op \in DissolvingOps
      BY DEF LoadMarriage, TypeInv, JobsOK, JobOK, MarriageJobOK
    <2>2. LoadMarriage(w) => job'[w].op \in {job[w].op, "none"}
      BY SameTask DEF Statement
    <2> QED
      BY <1>1, <2>1, <2>2 DEF Settles, Answers, DissolvingOps
  <1> QED
    BY <1>1, <1>2, <1>3, <1>4, <1>5, <1>6, Arrivals

LEMMA NextKeepsDraftCurrent ==
    ASSUME RowsTakeTurns, TypeInv, OutcomeInv, DraftCurrent, [Next]_vars
    PROVE  DraftCurrent'
  <1>1. ASSUME NEW i \in DOMAIN proposals,
               ~ \E v \in Processes : SaveProposal(v) /\ job[v].pid = i
        PROVE  i \in DOMAIN proposals' /\ proposals'[i] = proposals[i]
    <2>1. CASE \E v \in Processes : InsertProposal(v)
      BY <2>1, InsertStamps, InsertedRow
    <2>2. CASE \E v \in Processes : SaveProposal(v)
      BY <1>1, <2>2, SaveProposalStep
    <2> QED
      BY <2>1, <2>2, OnlyTheseWrite
  <1>2. ASSUME NEW w \in Processes, pc'[w] = "saveProposal"
        PROVE  proposals'[job'[w].pid].status = "pending"
    <2>1. CASE StandsStill(w)
      <3>1. /\ pc[w] = "saveProposal" /\ job'[w] = job[w] /\ job[w].pid \in DOMAIN proposals
            /\ proposals[job[w].pid].status = "pending"
        BY <1>2, <2>1 DEF StandsStill, DraftCurrent, TypeInv, JobsOK, JobOK, AnswerJobOK
      <3>2. ~ \E v \in Processes : SaveProposal(v) /\ job[v].pid = job[w].pid
        BY <2>1, <3>1, WritesMove DEF RowsTakeTurns, SaveProposal
      <3> QED
        BY <1>1, <3>1, <3>2
    <2>2. CASE LoadProposal(w)
      BY <1>2, <2>2, LoadedDraft
    <2> QED
      BY <1>2, <2>1, <2>2, Arrivals
  <1>3. ASSUME NEW w \in Processes, Owes(w)'
        PROVE  /\ job'[w].pid \in DOMAIN proposals'
               /\ proposals'[job'[w].pid].status = Outcome[job'[w].op]
    <2>1. CASE Owes(w) /\ job'[w].pid = job[w].pid /\ job'[w].op = job[w].op
      <3>1. /\ job[w].pid \in DOMAIN proposals
            /\ proposals[job[w].pid].status = Outcome[job[w].op]
            /\ Outcome[job[w].op] # "pending"
        BY <2>1, OutcomeValues DEF DraftCurrent, Owes, Settles, Answers
      <3>2. ~ \E v \in Processes : SaveProposal(v) /\ job[v].pid = job[w].pid
        BY <3>1 DEF DraftCurrent, SaveProposal
      <3> QED
        BY <1>1, <2>1, <3>1, <3>2
    <2>2. CASE SaveProposal(w)
      <3>1. job[w].draft.status = Outcome[job[w].op] /\ job'[w] = job[w]
        BY <2>2, SaveProposalStep DEF SaveProposal, OutcomeInv
      <3> QED
        BY <2>2, <3>1, SavedProposal
    <2> QED
      BY <1>3, <2>1, <2>2, OwesOrSaves
  <1> QED
    BY <1>2, <1>3 DEF DraftCurrent

(* A settled proposal keeps its outcome.                                    *)
LEMMA OutcomesStay ==
    ASSUME TypeInv, DraftCurrent, [Next]_vars, NEW i \in DOMAIN proposals,
           proposals[i].status # "pending"
    PROVE  proposals'[i] = proposals[i]
  <1>1. ASSUME NEW w \in Processes, SaveProposal(w)
        PROVE  proposals'[i] = proposals[i]
    <2>1. proposals[job[w].pid].status = "pending"
      BY <1>1 DEF SaveProposal, DraftCurrent
    <2> QED
      BY <1>1, <2>1, SaveProposalStep
  <1> QED
    BY <1>1, InsertStamps, OnlyTheseWrite

LEMMA NextKeepsEventsMatch ==
    ASSUME IInv, DraftCurrent, EventsMatchRows, [Next]_vars
    PROVE  EventsMatchRows'
  <1>1. SUFFICES ASSUME NEW e \in published', e.type \in OutcomeEvents
                 PROVE  \E op \in Answers \cup {"expire"} :
                           e.type = EventType[op] /\ proposals'[e.id].status = Outcome[op]
    BY DEF EventsMatchRows
  <1>2. e.id \in DOMAIN proposals /\ proposals[e.id].status # "pending"
        /\ \E op \in Answers \cup {"expire"} :
              e.type = EventType[op] /\ proposals[e.id].status = Outcome[op]
    <2>1. CASE e \in published
      BY <1>1, <2>1 DEF EventsMatchRows, IInv, EventInv, EventsBacked, Backed
    <2>2. CASE e \notin published
      <3>1. PICK w \in Processes : pc[w] = "emit" /\ e \in EventsOf(job[w])
        BY <1>1, <2>2, OnlyEmitPublishes DEF IInv
      <3>2. job[w] \in Job /\ job[w].op # "none"
        BY <3>1 DEF IInv, TypeInv, TypeOK, JobsOK, JobOK
      <3>3. Settles(job[w].op) /\ e.type = EventType[job[w].op] /\ e.id = job[w].pid
        BY <1>1, <3>1, <3>2, EventsOfJob DEF Settles, OutcomeEvents
      <3>4. e.id \in DOMAIN proposals /\ proposals[e.id].status = Outcome[job[w].op]
        BY <3>1, <3>3 DEF DraftCurrent, Owes
      <3>5. Outcome[job[w].op] # "pending"
        BY <3>3, OutcomeValues DEF Settles, Answers
      <3> QED
        BY <3>3, <3>4, <3>5 DEF Settles
    <2> QED
      BY <2>1, <2>2
  <1>3. proposals'[e.id] = proposals[e.id]
    BY <1>2, OutcomesStay DEF IInv
  <1> QED
    BY <1>2, <1>3

(* The announcement of an outcome is owed by whoever has saved it, and the  *)
(* save has found the proposal open: nobody else has announced one or is    *)
(* about to.                                                                *)
LEMMA NextKeepsAnnouncedOnce ==
    ASSUME IInv, DraftCurrent, AnnouncedOnce, [Next]_vars
    PROVE  AnnouncedOnce'
  <1>1. ASSUME NEW w \in Processes, Owes(w)'
        PROVE  \/ Owes(w) /\ job'[w].pid = job[w].pid
               \/ SaveProposal(w) /\ job'[w].pid = job[w].pid
    BY <1>1, OwesOrSaves, SaveProposalStep DEF IInv
  <1>2. ASSUME NEW w \in Processes, SaveProposal(w)
        PROVE  /\ proposals[job[w].pid].status = "pending"
               /\ \A e \in published : e.type \in OutcomeEvents => e.id # job[w].pid
               /\ \A v \in Processes : Owes(v) => job[v].pid # job[w].pid
    <2>1. proposals[job[w].pid].status = "pending"
      BY <1>2 DEF SaveProposal, DraftCurrent
    <2>2. \A e \in published : e.type \in OutcomeEvents => proposals[e.id].status # "pending"
      BY DEF IInv, EventInv, EventsBacked, Backed
    <2>3. ASSUME NEW v \in Processes, Owes(v) PROVE proposals[job[v].pid].status # "pending"
      BY <2>3, OutcomeValues DEF DraftCurrent, Owes, Settles, Answers
    <2> QED
      BY <2>1, <2>2, <2>3
  <1>3. ASSUME NEW w \in Processes, Owes(w)', NEW v \in Processes \ {w}, Owes(v)'
        PROVE  job'[v].pid # job'[w].pid
    <2>1. ~(SaveProposal(v) /\ SaveProposal(w))
      BY <1>3, OneSave DEF IInv
    <2> QED
      BY <1>1, <1>2, <1>3, <2>1 DEF AnnouncedOnce
  <1>4. ASSUME NEW w \in Processes, Owes(w)', NEW e \in published', e.type \in OutcomeEvents
        PROVE  e.id # job'[w].pid
    <2>1. CASE e \in published
      BY <1>1, <1>2, <1>4, <2>1 DEF AnnouncedOnce
    <2>2. CASE e \notin published
      <3>1. PICK v \in Processes : Emit(v) /\ pc[v] = "emit" /\ e \in EventsOf(job[v])
        BY <1>4, <2>2, OnlyEmitPublishes DEF IInv
      <3>2. job[v] \in Job /\ job[v].op # "none"
        BY <3>1 DEF IInv, TypeInv, TypeOK, JobsOK, JobOK
      <3>3. Owes(v) /\ e.id = job[v].pid
        BY <1>4, <3>1, <3>2, EventsOfJob DEF Settles, Owes, OutcomeEvents
      <3>4. v # w
        <4>1. Emit(v) => pc'[v] = "idle"
          BY DEF Emit, Finish, Goto, IInv, TypeInv, TypeOK
        <4> QED
          BY <1>4, <3>1, <4>1 DEF Owes
      <3>5. ~SaveProposal(w)
        BY <1>4, <2>2 DEF SaveProposal
      <3> QED
        BY <1>1, <1>4, <3>3, <3>4, <3>5 DEF AnnouncedOnce
    <2> QED
      BY <2>1, <2>2
  <1> QED
    BY <1>3, <1>4 DEF AnnouncedOnce

----------------------------------------------------------------------------
(* Turns: acceptances and marriages are counted alike.                      *)

LEMMA FaultsGrow ==
    ASSUME TypeInv, [Next]_vars
    PROVE  /\ faults \in Nat /\ (faults' = faults \/ faults' = faults + 1)
           /\ (\E w \in Processes : Abort(w) \/ CrashSweep(w)) \/ faults' = faults
  <1>1. ASSUME NEW w \in Processes, Statement(w) PROVE faults' = faults
    BY <1>1 DEF Statement, CheckStep, CheckProposerFree, CheckTargetFree, CheckNoneActive,
       CheckGlobalCooldown, CheckTargetCooldown, Check, InsertProposal, LoadProposal,
       SaveProposal, CreateMarriage, LoadMarriage, SaveMarriage, Emit
  <1>2. ASSUME NEW w \in Workers, Begin(w) PROVE faults' = faults
    BY <1>2 DEF Begin, BeginPropose, BeginAnswer, BeginDivorce, BeginDelete, Enter
  <1>3. ASSUME NEW s \in Sweepers, SweepQuery(s) \/ SweepNext(s) PROVE faults' = faults
    BY <1>3 DEF SweepQuery, SweepNext
  <1>4. Tick \/ UNCHANGED vars => faults' = faults
    BY DEF Tick, vars
  <1>5. ASSUME NEW w \in Processes, Abort(w) \/ CrashSweep(w) PROVE faults' = faults + 1
    BY <1>5 DEF Abort, CrashSweep
  <1>6. faults \in Nat
    BY BoundsAreNat DEF TypeInv, TypeOK
  <1> QED
    BY <1>1, <1>2, <1>3, <1>4, <1>5, <1>6 DEF Next, Work, SweepStep, Processes

LEMMA CountsAreNat ==
    ASSUME TypeOK, NEW c, NEW d
    PROVE  /\ IsFiniteSet(Accepted(c, d)) /\ Cardinality(Accepted(c, d)) \in Nat
           /\ IsFiniteSet(MarriagesOf(c, d)) /\ Cardinality(MarriagesOf(c, d)) \in Nat
           /\ IsFiniteSet(Unwed(c, d)) /\ Cardinality(Unwed(c, d)) \in Nat
  <1>1. /\ DOMAIN proposals = 1..Len(proposals) /\ Len(proposals) \in Nat
        /\ DOMAIN marriages = 1..Len(marriages) /\ Len(marriages) \in Nat
    BY LenProperties DEF TypeOK
  <1>2. IsFiniteSet(1..Len(proposals)) /\ IsFiniteSet(1..Len(marriages))
    BY <1>1, FS_Interval
  <1>3. /\ Accepted(c, d) \in SUBSET (1..Len(proposals))
        /\ MarriagesOf(c, d) \in SUBSET (1..Len(marriages))
        /\ Unwed(c, d) \in SUBSET Accepted(c, d)
    BY <1>1 DEF Accepted, ProposalsTo, ProposalsBy, MarriagesOf, Unwed
  <1>4. IsFiniteSet(Accepted(c, d)) /\ IsFiniteSet(MarriagesOf(c, d))
    BY <1>2, <1>3, FS_Subset
  <1>5. IsFiniteSet(Unwed(c, d))
    BY <1>3, <1>4, FS_Subset
  <1> QED
    BY <1>4, <1>5, FS_CardinalityType

(* Saving an acceptance adds it, and the marriage it owes, to the counts.   *)
LEMMA SaveCounts ==
    ASSUME TypeInv, OutcomeInv, DraftCurrent, [Next]_vars,
           NEW w \in Processes, SaveProposal(w), NEW c, NEW d
    PROVE  /\ MarriagesOf(c, d)' = MarriagesOf(c, d) /\ faults' = faults
           /\ \/ /\ Cardinality(Accepted(c, d)') = Cardinality(Accepted(c, d)) + 1
                 /\ Cardinality(Unwed(c, d)') = Cardinality(Unwed(c, d)) + 1
              \/ Accepted(c, d)' = Accepted(c, d) /\ Unwed(c, d)' = Unwed(c, d)
  <1> DEFINE k == job[w].pid
             p == proposals[k]
             op == job[w].op
  <1>1. /\ pc[w] = "saveProposal" /\ marriages' = marriages /\ faults' = faults /\ job' = job
        /\ pc'[w] = IF op = "accept" THEN "createMarriage" ELSE "emit"
        /\ \A v \in Processes \ {w} : pc'[v] = pc[v]
    BY DEF SaveProposal, Goto, TypeInv, TypeOK
  <1>2. /\ op \in Answers \cup {"expire"} /\ k \in DOMAIN proposals /\ p.status = "pending"
        /\ proposals'[k].status = Outcome[op]
        /\ proposals'[k].proposer = p.proposer /\ proposals'[k].target = p.target
    BY <1>1, SavedProposal DEF TypeInv, JobsOK, JobOK, AnswerJobOK, OutcomeInv, DraftCurrent
  <1>3. /\ DOMAIN proposals' = DOMAIN proposals
        /\ \A i \in DOMAIN proposals \ {k} : proposals'[i] = proposals[i]
    BY SaveProposalStep
  <1>4. Outcome[op] = "accepted" <=> op = "accept"
    BY <1>2, OutcomeValues DEF Answers
  <1>5. k \notin Accepted(c, d) /\ k \notin Unwed(c, d)
    BY <1>2 DEF Accepted, Unwed
  <1>6. \A i \in DOMAIN proposals \ {k} :
          (\E v \in Processes : pc'[v] = "createMarriage" /\ job'[v].pid = i)
          <=> (\E v \in Processes : pc[v] = "createMarriage" /\ job[v].pid = i)
    BY <1>1
  <1>7. op = "accept" => \E v \in Processes : pc'[v] = "createMarriage" /\ job'[v].pid = k
    BY <1>1
  <1> HIDE DEF k, p, op
  <1>8. \A i \in DOMAIN proposals \ {k} : i \in Accepted(c, d)' <=> i \in Accepted(c, d)
    BY <1>3 DEF Accepted, ProposalsTo, ProposalsBy
  <1>9. \A i : i \in Accepted(c, d)' \/ i \in Accepted(c, d) => i \in DOMAIN proposals
    BY <1>3 DEF Accepted, ProposalsTo, ProposalsBy
  <1>10. k \in Accepted(c, d)' <=> op = "accept" /\ p.proposer = c /\ p.target = d
    BY <1>2, <1>3, <1>4 DEF Accepted, ProposalsTo, ProposalsBy
  <1>11. Unwed(c, d)' = {i \in Accepted(c, d)' :
                           \E v \in Processes : pc'[v] = "createMarriage" /\ job'[v].pid = i}
    BY DEF Unwed
  <1>12. MarriagesOf(c, d)' = MarriagesOf(c, d)
    BY <1>1 DEF MarriagesOf
  <1>13. CASE op = "accept" /\ p.proposer = c /\ p.target = d
    <2>1. Accepted(c, d)' = Accepted(c, d) \cup {k}
      BY <1>2, <1>8, <1>9, <1>10, <1>13
    <2>2. Unwed(c, d)' = Unwed(c, d) \cup {k}
      BY <1>5, <1>6, <1>7, <1>8, <1>9, <1>11, <1>13, <2>1 DEF Unwed
    <2>3. /\ Cardinality(Accepted(c, d) \cup {k}) = Cardinality(Accepted(c, d)) + 1
          /\ Cardinality(Unwed(c, d) \cup {k}) = Cardinality(Unwed(c, d)) + 1
      BY <1>5, CountsAreNat, FS_AddElement DEF TypeInv
    <2> QED
      BY <1>1, <1>12, <2>1, <2>2, <2>3
  <1>14. CASE ~(op = "accept" /\ p.proposer = c /\ p.target = d)
    <2>1. Accepted(c, d)' = Accepted(c, d)
      BY <1>5, <1>8, <1>9, <1>10, <1>14
    <2>2. Unwed(c, d)' = Unwed(c, d)
      BY <1>5, <1>6, <1>9, <1>11, <2>1 DEF Unwed
    <2> QED
      BY <1>1, <1>12, <2>1, <2>2
  <1> QED
    BY <1>13, <1>14

(* Creating a marriage takes it from what is owed to what is there.         *)
LEMMA CreationCounts ==
    ASSUME TypeInv, RegisterInv, DraftCurrent, AnnouncedOnce, [Next]_vars,
           NEW w \in Processes, CreateMarriage(w), NEW c, NEW d
    PROVE  /\ Accepted(c, d)' = Accepted(c, d) /\ faults' = faults
           /\ \/ /\ Cardinality(MarriagesOf(c, d)') = Cardinality(MarriagesOf(c, d)) + 1
                 /\ Cardinality(Unwed(c, d)) = Cardinality(Unwed(c, d)') + 1
              \/ MarriagesOf(c, d)' = MarriagesOf(c, d) /\ Unwed(c, d)' = Unwed(c, d)
           /\ Unwed(c, d)' \subseteq Unwed(c, d)
  <1> DEFINE k == job[w].pid
             p == job[w].draft
             n == Len(marriages) + 1
  <1>1. /\ pc[w] = "createMarriage" /\ proposals' = proposals /\ faults' = faults
        /\ pc'[w] = "saveMarriage" /\ \A v \in Processes \ {w} : pc'[v] = pc[v] /\ job'[v] = job[v]
    BY DEF CreateMarriage, Goto, TypeInv, TypeOK
  <1>2. /\ n \notin DOMAIN marriages /\ DOMAIN marriages' = DOMAIN marriages \cup {n}
        /\ \A m \in DOMAIN marriages : marriages'[m] = marriages[m]
        /\ marriages'[n].partner1 = p.proposer /\ marriages'[n].partner2 = p.target
    <2>1. /\ n \notin DOMAIN marriages /\ DOMAIN marriages' = DOMAIN marriages \cup {n}
          /\ \A m \in DOMAIN marriages : marriages'[m] = marriages[m]
          /\ marriages'[n] = NewMarriage(p)
      BY CreationAppends
    <2> QED
      BY <2>1 DEF NewMarriage
  <1>3. Accepted(c, d)' = Accepted(c, d)
    BY <1>1 DEF Accepted, ProposalsTo, ProposalsBy
  <1>4. /\ job[w].op = "accept" /\ k \in DOMAIN proposals
        /\ p.proposer = proposals[k].proposer /\ p.target = proposals[k].target
    BY <1>1 DEF TypeInv, JobsOK, JobOK, AnswerJobOK, SamePair
  <1>5. Owes(w) /\ proposals[k].status = "accepted"
    BY <1>1, <1>4, OutcomeValues DEF DraftCurrent, Owes, Settles, Answers
  <1>6. k \in Accepted(c, d) <=> p.proposer = c /\ p.target = d
    BY <1>4, <1>5 DEF Accepted, ProposalsTo, ProposalsBy
  <1>7. ASSUME NEW v \in Processes \ {w}, pc[v] = "createMarriage" PROVE job[v].pid # k
    <2>1. job[v].op = "accept"
      BY <1>7 DEF TypeInv, JobsOK, JobOK, AnswerJobOK
    <2> QED
      BY <1>5, <1>7, <2>1 DEF AnnouncedOnce, Owes, Settles, Answers
  <1>8. Unwed(c, d)' = Unwed(c, d) \ {k}
    BY <1>1, <1>3, <1>7 DEF Unwed
  <1> HIDE DEF n, k, p
  <1>9. CASE p.proposer = c /\ p.target = d
    <2>1. MarriagesOf(c, d)' = MarriagesOf(c, d) \cup {n}
      BY <1>2, <1>9 DEF MarriagesOf
    <2>2. n \notin MarriagesOf(c, d)
      BY <1>2 DEF MarriagesOf
    <2>3. Cardinality(MarriagesOf(c, d) \cup {n}) = Cardinality(MarriagesOf(c, d)) + 1
      BY <2>2, CountsAreNat, FS_AddElement DEF TypeInv
    <2>4. k \in Unwed(c, d)
      BY <1>1, <1>6, <1>9 DEF Unwed, k
    <2>5. Cardinality(Unwed(c, d) \ {k}) = Cardinality(Unwed(c, d)) - 1
      BY <2>4, CountsAreNat, FS_RemoveElement DEF TypeInv
    <2>6. Cardinality(Unwed(c, d)) \in Nat
      BY CountsAreNat DEF TypeInv
    <2> QED
      BY <1>1, <1>3, <1>8, <2>1, <2>3, <2>5, <2>6
  <1>10. CASE ~(p.proposer = c /\ p.target = d)
    <2>1. MarriagesOf(c, d)' = MarriagesOf(c, d)
      BY <1>2, <1>10 DEF MarriagesOf
    <2>2. k \notin Unwed(c, d)
      BY <1>6, <1>10 DEF Unwed
    <2> QED
      BY <1>1, <1>3, <1>8, <2>1, <2>2
  <1> QED
    BY <1>9, <1>10

(* Other steps count nothing, and only a failure forgets what is owed.      *)
LEMMA OthersDoNotCount ==
    ASSUME TypeInv, RegisterInv, [Next]_vars, NEW c, NEW d,
           ~ \E w \in Processes : SaveProposal(w) \/ CreateMarriage(w)
    PROVE  /\ Accepted(c, d)' = Accepted(c, d) /\ MarriagesOf(c, d)' = MarriagesOf(c, d)
           /\ Unwed(c, d)' \subseteq Unwed(c, d)
           /\ \/ faults' = faults /\ Unwed(c, d)' = Unwed(c, d)
              \/ faults' = faults + 1 /\ \E k : Unwed(c, d) \subseteq Unwed(c, d)' \cup {k}
  <1>1. Accepted(c, d)' = Accepted(c, d)
    <2>1. ASSUME NEW w \in Processes, InsertProposal(w)
          PROVE  Accepted(c, d)' = Accepted(c, d)
      <3>1. DOMAIN proposals' = DOMAIN proposals \cup {Len(proposals) + 1}
        BY <2>1, InsertedRow
      <3>2. /\ proposals'[Len(proposals) + 1].status = "pending"
            /\ \A i \in DOMAIN proposals : proposals'[i] = proposals[i]
        BY <2>1, InsertStamps
      <3> QED
        BY <3>1, <3>2 DEF Accepted, ProposalsTo, ProposalsBy
    <2>2. CASE proposals' = proposals
      BY <2>2 DEF Accepted, ProposalsTo, ProposalsBy
    <2> QED
      BY <2>1, <2>2, OnlyTheseWrite
  <1>2. MarriagesOf(c, d)' = MarriagesOf(c, d)
    <2>1. ASSUME NEW w \in Processes, SaveMarriage(w)
          PROVE  MarriagesOf(c, d)' = MarriagesOf(c, d)
      <3>1. /\ DOMAIN marriages' = DOMAIN marriages
            /\ \A m \in DOMAIN marriages :
                  /\ marriages'[m].partner1 = marriages[m].partner1
                  /\ marriages'[m].partner2 = marriages[m].partner2
        BY <2>1, SaveUpdates
      <3> QED
        BY <3>1 DEF MarriagesOf
    <2>2. CASE marriages' = marriages
      BY <2>2 DEF MarriagesOf
    <2> QED
      BY <2>1, <2>2, OnlyTheseMarry
  <1>3. ASSUME NEW w \in Processes, pc'[w] = "createMarriage" PROVE StandsStill(w)
    BY <1>3, Arrivals
  <1>4. Unwed(c, d)' \subseteq Unwed(c, d)
    BY <1>1, <1>3 DEF Unwed, StandsStill
  <1>5. ASSUME NEW w \in Processes, pc[w] = "createMarriage"
        PROVE  StandsStill(w) \/ Abort(w) \/ CrashSweep(w)
    <2>1. ~SweepQuery(w) /\ ~SweepNext(w)
      BY <1>5 DEF SweepQuery, SweepNext
    <2>2. ~Begin(w)
      BY <1>5 DEF Begin, BeginPropose, BeginAnswer, BeginDivorce, BeginDelete, Enter
    <2>3. ~Statement(w)
      BY <1>5 DEF Statement, CheckStep, CheckProposerFree, CheckTargetFree, CheckNoneActive,
         CheckGlobalCooldown, CheckTargetCooldown, Check, InsertProposal, LoadProposal,
         LoadMarriage, SaveMarriage, Emit
    <2> QED
      BY <2>1, <2>2, <2>3, MoverOrNot, SweeperMovesOrNot DEF StandsStill, Processes
  <1>6. ASSUME NEW w \in Processes, Abort(w) \/ CrashSweep(w)
        PROVE  /\ faults' = faults + 1
               /\ \A v \in Processes \ {w} : StandsStill(v)
    BY <1>6 DEF Abort, CrashSweep, Finish, Goto, StandsStill, TypeInv, TypeOK
  <1>7. CASE \E w \in Processes : Abort(w) \/ CrashSweep(w)
    <2>1. PICK w \in Processes : Abort(w) \/ CrashSweep(w)
      BY <1>7
    <2>2. \A v \in Processes \ {w} : StandsStill(v)
      BY <1>6, <2>1
    <2>3. Unwed(c, d) \subseteq Unwed(c, d)' \cup {job[w].pid}
      BY <1>1, <2>2 DEF Unwed, StandsStill
    <2> QED
      BY <1>1, <1>2, <1>4, <1>6, <2>1, <2>3
  <1>8. CASE ~ \E w \in Processes : Abort(w) \/ CrashSweep(w)
    <2>1. Unwed(c, d) \subseteq Unwed(c, d)'
      BY <1>1, <1>5, <1>8 DEF Unwed, StandsStill
    <2> QED
      BY <1>1, <1>2, <1>4, <1>8, <2>1, FaultsGrow
  <1> QED
    BY <1>7, <1>8

LEMMA NextKeepsCounts ==
    ASSUME TypeInv, RegisterInv, OutcomeInv, DraftCurrent, AnnouncedOnce,
           OneMarriagePerAcceptance, [Next]_vars
    PROVE  OneMarriagePerAcceptance'
  <1>1. SUFFICES ASSUME NEW c \in Characters, NEW d \in Characters
                 PROVE  LET a == Cardinality(Accepted(c, d)')
                            m == Cardinality(MarriagesOf(c, d)')
                            u == Cardinality(Unwed(c, d)') IN
                        m + u <= a /\ a <= m + u + faults'
    BY DEF OneMarriagePerAcceptance
  <1> DEFINE a == Cardinality(Accepted(c, d))
             m == Cardinality(MarriagesOf(c, d))
             u == Cardinality(Unwed(c, d))
             a1 == Cardinality(Accepted(c, d)')
             m1 == Cardinality(MarriagesOf(c, d)')
             u1 == Cardinality(Unwed(c, d)')
  <1>2. a \in Nat /\ m \in Nat /\ u \in Nat /\ IsFiniteSet(Unwed(c, d))
    BY CountsAreNat DEF TypeInv
  <1>3. m + u <= a /\ a <= m + u + faults
    BY DEF OneMarriagePerAcceptance
  <1>4. faults \in Nat
    BY FaultsGrow
  <1>5. CASE \E w \in Processes : SaveProposal(w)
    <2>1. m1 = m /\ faults' = faults /\ ((a1 = a + 1 /\ u1 = u + 1) \/ (a1 = a /\ u1 = u))
      BY <1>5, SaveCounts
    <2> HIDE DEF a, m, u, a1, m1, u1
    <2>2. m1 + u1 <= a1 /\ a1 <= m1 + u1 + faults'
      BY <1>2, <1>3, <1>4, <2>1
    <2> QED
      BY <2>2 DEF a1, m1, u1
  <1>6. CASE \E w \in Processes : CreateMarriage(w)
    <2>1. a1 = a /\ faults' = faults /\ ((m1 = m + 1 /\ u = u1 + 1) \/ (m1 = m /\ u1 = u))
      BY <1>6, CreationCounts
    <2>2. u1 \in Nat
      <3>1. Unwed(c, d)' \subseteq Unwed(c, d)
        BY <1>6, CreationCounts
      <3> QED
        BY <1>2, <3>1, FS_Subset, FS_CardinalityType
    <2> HIDE DEF a, m, u, a1, m1, u1
    <2>3. m1 + u1 <= a1 /\ a1 <= m1 + u1 + faults'
      BY <1>2, <1>3, <1>4, <2>1, <2>2
    <2> QED
      BY <2>3 DEF a1, m1, u1
  <1>7. CASE ~ \E w \in Processes : SaveProposal(w) \/ CreateMarriage(w)
    <2>1. /\ a1 = a /\ m1 = m /\ Unwed(c, d)' \subseteq Unwed(c, d)
          /\ \/ faults' = faults /\ u1 = u
             \/ faults' = faults + 1 /\ \E k : Unwed(c, d) \subseteq Unwed(c, d)' \cup {k}
      BY <1>7, OthersDoNotCount
    <2>2. IsFiniteSet(Unwed(c, d)') /\ u1 <= u
      BY <1>2, <2>1, FS_Subset
    <2>3. u1 \in Nat
      BY <2>2, FS_CardinalityType
    <2>4. ASSUME NEW k, Unwed(c, d) \subseteq Unwed(c, d)' \cup {k}
          PROVE  u <= u1 + 1
      <3>1. /\ IsFiniteSet(Unwed(c, d)' \cup {k})
            /\ Cardinality(Unwed(c, d)' \cup {k}) \in {u1, u1 + 1}
        BY <2>2, <2>3, FS_AddElement
      <3>2. u <= Cardinality(Unwed(c, d)' \cup {k})
        BY <2>4, <3>1, FS_Subset
      <3> HIDE DEF u, u1
      <3> QED
        BY <1>2, <2>3, <3>1, <3>2
    <2> HIDE DEF a, m, u, a1, m1, u1
    <2>5. m1 + u1 <= a1 /\ a1 <= m1 + u1 + faults'
      BY <1>2, <1>3, <1>4, <2>1, <2>2, <2>3, <2>4
    <2> QED
      BY <2>5 DEF a1, m1, u1
  <1> QED
    BY <1>5, <1>6, <1>7

----------------------------------------------------------------------------
(* Turns: the theorems.                                                     *)

LEMMA OutcomeInvHolds == Spec => []OutcomeInv
  <1>1. Init => OutcomeInv
    BY DEF Init, OutcomeInv
  <1>2. TypeInv /\ OutcomeInv /\ [Next]_vars => OutcomeInv'
    BY NextKeepsOutcomeInv
  <1> QED
    BY <1>1, <1>2, TypeInvHolds, PTL DEF Spec

(* The inductive invariant for handlers and sweepers, however many, of      *)
(* which no two are between the load and the save of one proposal.          *)
THEOREM SerialInvariantHolds == Spec /\ []RowsTakeTurns => []SerialInv
  <1>1. Init => SerialInv
    <2> SUFFICES ASSUME Init PROVE SerialInv
      OBVIOUS
    <2>1. /\ DOMAIN proposals = {} /\ DOMAIN marriages = {} /\ published = {} /\ faults = 0
          /\ \A w \in Processes : pc[w] = "idle"
      BY EmptySeq DEF Init
    <2>2. DraftCurrent /\ EventsMatchRows /\ AnnouncedOnce
      BY <2>1 DEF DraftCurrent, EventsMatchRows, AnnouncedOnce, Owes
    <2>3. ASSUME NEW c, NEW d
          PROVE  Accepted(c, d) = {} /\ MarriagesOf(c, d) = {} /\ Unwed(c, d) = {}
      BY <2>1 DEF Accepted, ProposalsTo, ProposalsBy, MarriagesOf, Unwed
    <2>4. OneMarriagePerAcceptance
      <3>1. Cardinality({}) = 0
        BY FS_EmptySet
      <3>2. ASSUME NEW c, NEW d
            PROVE  /\ Cardinality(Accepted(c, d)) = 0 /\ Cardinality(MarriagesOf(c, d)) = 0
                   /\ Cardinality(Unwed(c, d)) = 0
        BY <2>3, <3>1
      <3> QED
        BY <2>1, <3>2 DEF OneMarriagePerAcceptance
    <2> QED
      BY <2>2, <2>4 DEF SerialInv
  <1>2. RowsTakeTurns /\ IInv /\ OutcomeInv /\ SerialInv /\ [Next]_vars => SerialInv'
    BY NextKeepsDraftCurrent, NextKeepsEventsMatch, NextKeepsAnnouncedOnce, NextKeepsCounts
    DEF IInv, SerialInv
  <1> QED
    BY <1>1, <1>2, InvariantHolds, OutcomeInvHolds, PTL DEF Spec

(* As long as no two processes hold one proposal, no acceptance leads to    *)
(* two marriages, and each failure loses the marriage of one at most,       *)
(* although the three statements of an acceptance are not a transaction.    *)
THEOREM AcceptanceMarriesOnce == Spec /\ []RowsTakeTurns => []OneMarriagePerAcceptance
  <1>1. SerialInv => OneMarriagePerAcceptance
    BY DEF SerialInv
  <1> QED
    BY <1>1, SerialInvariantHolds, PTL

(* As long as no two processes hold one proposal, an outcome that was       *)
(* announced is the outcome in the table, then and ever after: handlers and *)
(* sweeps that come later, commands repeated or late do not change it.      *)
THEOREM AnnouncedOutcomesStand == Spec /\ []RowsTakeTurns => []EventsMatchRows
  <1>1. SerialInv => EventsMatchRows
    BY DEF SerialInv
  <1> QED
    BY <1>1, SerialInvariantHolds, PTL

(* As long as no two processes hold one proposal, no outcome is announced   *)
(* twice, by the sweepers of several replicas as little as by handlers.     *)
THEOREM OutcomesAnnouncedOnce == Spec /\ []RowsTakeTurns => []AnnouncedOnce
  <1>1. SerialInv => AnnouncedOnce
    BY DEF SerialInv
  <1> QED
    BY <1>1, SerialInvariantHolds, PTL

----------------------------------------------------------------------------
(* Turns: the cooldown after an expiry.                                     *)

(* While a handler waits with its insert the rows of the pair stay as they  *)
(* are: saves wait for it, and so do the other proposals of its character.  *)
LEMMA PairRowsStay ==
    ASSUME TypeInv, KeysExclusive, InsertsTakeTurns, [Next]_vars,
           NEW w \in Workers, pc[w] = "insert", StandsStill(w)
    PROVE  LET ids == ProposalsTo(job[w].key, job[w].target) IN
           /\ ids' = ids
           /\ \A i \in ids : i \in DOMAIN proposals /\ proposals'[i] = proposals[i]
  <1> DEFINE ids == ProposalsTo(job[w].key, job[w].target)
  <1>1. w \in Processes /\ job'[w] = job[w] /\ job[w].op = "propose"
    BY DEF Processes, StandsStill, TypeInv, JobsOK, JobOK, ProposeJobOK, EligibilityLabels
  <1>2. \A i \in ids : i \in DOMAIN proposals
    BY DEF ProposalsTo, ProposalsBy
  <1>3. ASSUME NEW v \in Processes, SaveProposal(v)
        PROVE  ids' = ids /\ \A i \in ids : proposals'[i] = proposals[i]
    <2>1. /\ pc[v] = "saveProposal"
          /\ job[v].draft.proposer = proposals[job[v].pid].proposer
          /\ job[v].draft.target = proposals[job[v].pid].target
          /\ job[v].pid \in DOMAIN proposals
          /\ SamePair(proposals'[job[v].pid], proposals[job[v].pid])
      BY <1>3, SavedProposal DEF SaveProposal
    <2>2. job[v].pid \notin ids
      BY <1>1, <2>1 DEF InsertsTakeTurns, ProposalsTo, ProposalsBy
    <2>3. /\ DOMAIN proposals' = DOMAIN proposals
          /\ \A i \in DOMAIN proposals \ {job[v].pid} : proposals'[i] = proposals[i]
      BY <1>3, SaveProposalStep
    <2> QED
      BY <1>1, <1>2, <2>1, <2>2, <2>3 DEF ProposalsTo, ProposalsBy, SamePair
  <1>4. ASSUME NEW v \in Processes, InsertProposal(v)
        PROVE  ids' = ids /\ \A i \in ids : proposals'[i] = proposals[i]
    <2> DEFINE n == Len(proposals) + 1
    <2>1. /\ DOMAIN proposals' = DOMAIN proposals \cup {n}
          /\ proposals'[n].proposer = job[v].key /\ v \in Workers /\ job[v].op = "propose"
      BY <1>4, InsertedRow
    <2>2. \A i \in DOMAIN proposals : proposals'[i] = proposals[i]
      BY <1>4, InsertStamps
    <2>3. v # w
      BY <1>1, <1>4, WritesMove
    <2>4. job[v].key # job[w].key
      BY <1>1, <2>1, <2>3 DEF KeysExclusive, Commands
    <2> HIDE DEF n
    <2> QED
      BY <1>1, <1>2, <2>1, <2>2, <2>4 DEF ProposalsTo, ProposalsBy
  <1>5. CASE proposals' = proposals
    BY <1>1, <1>5 DEF ProposalsTo, ProposalsBy
  <1> QED
    BY <1>2, <1>3, <1>4, <1>5, OnlyTheseWrite

LEMMA LapseOverStays ==
    ASSUME TypeInv, KeysExclusive, InsertsTakeTurns, LapseCooldownInv, [Next]_vars,
           NEW w \in Workers, pc'[w] = "insert"
    PROVE  FoundLapseOver(w)'
  <1>1. w \in Processes /\ FoundProposerFree(w)'
    BY DEF Processes, FoundProposerFree
  <1>2. job'[w] = job[w] /\ (StandsStill(w) \/ CheckStep(w))
    BY <1>1, ChecksInOrder
  <1>3. CASE ~StandsStill(w)
    <2>1. TargetCooldownOver(job[w].key, job[w].target)
      BY <1>1, <1>3, ChecksInOrder
    <2>2. proposals' = proposals /\ now' = now
      BY <1>2, <1>3 DEF CheckStep, CheckProposerFree, CheckTargetFree, CheckNoneActive,
         CheckGlobalCooldown, CheckTargetCooldown, Check, tables
    <2> QED
      BY <1>2, <2>1, <2>2
      DEF TargetCooldownOver, FoundLapseOver, Newest, ProposalsTo, ProposalsBy
  <1>4. CASE StandsStill(w)
    <2> DEFINE ids == ProposalsTo(job[w].key, job[w].target)
    <2>1. pc[w] = "insert" /\ FoundLapseOver(w)
      BY <1>4 DEF StandsStill, LapseCooldownInv
    <2>2. ids' = ids /\ \A i \in ids : i \in DOMAIN proposals /\ proposals'[i] = proposals[i]
      BY <1>4, <2>1, PairRowsStay
    <2>3. now' >= now /\ now' \in Nat /\ now \in Nat
      BY ClockAdvances DEF TypeInv, TypeOK
    <2>4. ASSUME NEW i \in Newest(ids)', proposals'[i].status = "expired"
          PROVE  now' > proposals'[i].updatedAt + InitialPerTargetCooldown
      <3>1. i \in Newest(ids)
        BY <2>2, <2>4 DEF Newest
      <3>2. i \in ids /\ i \in DOMAIN proposals /\ proposals'[i] = proposals[i]
        BY <2>2, <3>1 DEF Newest
      <3>3. now > proposals[i].updatedAt + InitialPerTargetCooldown
        BY <2>1, <2>4, <3>1, <3>2 DEF FoundLapseOver
      <3>4. proposals[i].updatedAt \in Nat
        BY <3>2, StampsAreNat DEF TypeInv
      <3> QED
        BY <2>3, <3>2, <3>3, <3>4, DurationsAreNat
    <2> QED
      BY <2>4 DEF FoundLapseOver
  <1> QED
    BY <1>3, <1>4

LEMMA NextKeepsLapseCooldown ==
    ASSUME IInv, InsertsTakeTurns, LapseCooldownInv, [Next]_vars
    PROVE  LapseCooldownKept'
  <1> USE DEF IInv
  <1> DEFINE Delayed(i, j) ==
               \E k \in (i + 1)..j :
                  /\ SamePair(proposals[i], proposals[k])
                  /\ proposals[k].createdAt <= proposals[i].updatedAt
  <1>1. SUFFICES ASSUME NEW i \in DOMAIN proposals', NEW j \in DOMAIN proposals', i < j,
                        SamePair(proposals'[i], proposals'[j]), proposals'[i].status = "expired",
                        proposals'[j].createdAt
                          <= proposals'[i].updatedAt + InitialPerTargetCooldown
                 PROVE  Delayed(i, j)'
    BY DEF LapseCooldownKept
  <1>2. /\ DOMAIN proposals = 1..Len(proposals) /\ Len(proposals) \in Nat
        /\ DOMAIN proposals' = 1..Len(proposals') /\ Len(proposals') \in Nat
    BY LenProperties, NextKeepsTypeInv DEF TypeInv, TypeOK
  <1>3. \A k \in DOMAIN proposals : Kept(k)
    BY NextKeepsTypeInv DEF TablesGrow
  <1>4. ASSUME NEW m \in DOMAIN proposals, i \in DOMAIN proposals,
               Delayed(i, m), proposals'[i] = proposals[i], m <= j
        PROVE  Delayed(i, j)'
    <2>1. PICK k \in (i + 1)..m :
            /\ SamePair(proposals[i], proposals[k])
            /\ proposals[k].createdAt <= proposals[i].updatedAt
      BY <1>4
    <2>2. k \in DOMAIN proposals /\ k \in (i + 1)..j
      BY <1>2, <1>4, <2>1
    <2>3. SamePair(proposals'[i], proposals'[k])
          /\ proposals'[k].createdAt <= proposals'[i].updatedAt
      BY <1>3, <1>4, <2>1, <2>2 DEF Kept, SamePair
    <2> QED
      BY <2>2, <2>3
  <1>5. CASE j \in DOMAIN proposals /\ proposals'[i] = proposals[i]
    <2>1. i \in DOMAIN proposals
      BY <1>1, <1>2, <1>5
    <2>2. /\ SamePair(proposals[i], proposals[j]) /\ proposals[i].status = "expired"
          /\ proposals[j].createdAt <= proposals[i].updatedAt + InitialPerTargetCooldown
      BY <1>1, <1>3, <1>5, <2>1 DEF Kept, SamePair
    <2>3. Delayed(i, j)
      BY <1>1, <1>5, <2>1, <2>2 DEF LapseCooldownInv, LapseCooldownKept
    <2>4. j <= j
      BY <1>2
    <2> QED
      BY <1>4, <1>5, <2>1, <2>3, <2>4
  <1>6. ASSUME NEW w \in Processes, InsertProposal(w), j \notin DOMAIN proposals
        PROVE  Delayed(i, j)'
    <2> DEFINE n == Len(proposals) + 1
               c == job[w].key
               d == job[w].target
    <2>1. /\ DOMAIN proposals' = DOMAIN proposals \cup {n}
          /\ proposals'[n].proposer = c /\ proposals'[n].target = d /\ w \in Workers
          /\ pc[w] = "insert"
      BY <1>6, InsertedRow DEF InsertProposal
    <2>2. /\ proposals'[n].createdAt = now
          /\ \A m \in DOMAIN proposals : proposals'[m] = proposals[m]
      BY <1>6, InsertStamps
    <2>3. j = n /\ i \in DOMAIN proposals /\ proposals'[i] = proposals[i]
      <3>1. j = n
        BY <1>6, <2>1
      <3>2. i # n
        BY <1>1, <1>2, <3>1
      <3> QED
        BY <2>1, <2>2, <3>1, <3>2
    <2>4. i \in ProposalsTo(c, d)
      BY <1>1, <2>1, <2>3 DEF ProposalsTo, ProposalsBy, SamePair
    <2>5. PICK m \in Newest(ProposalsTo(c, d)) : i <= m
      BY <2>4, LastIsNewest DEF TypeInv, CooldownInv
    <2>6. m \in DOMAIN proposals /\ SamePair(proposals[i], proposals[m])
      BY <2>4, <2>5 DEF Newest, ProposalsTo, ProposalsBy, SamePair
    <2>7. /\ now \in Nat /\ proposals[m].createdAt \in Nat /\ proposals[m].createdAt <= now
          /\ proposals[i].updatedAt \in Nat
      BY <2>3, <2>6, StampsAreNat DEF TypeInv, TypeOK, WindowInv, RowInWindow
    <2>8. now <= proposals[i].updatedAt + InitialPerTargetCooldown
      BY <1>1, <2>2, <2>3
    <2>9. i # m
      <3>1. ASSUME i = m
            PROVE  now > proposals[i].updatedAt + InitialPerTargetCooldown
        BY <1>1, <2>1, <2>3, <2>5, <3>1 DEF LapseCooldownInv, FoundLapseOver
      <3> QED
        BY <2>7, <2>8, <3>1, DurationsAreNat
    <2>10. proposals[m].createdAt <= proposals[i].updatedAt + InitialPerTargetCooldown
      BY <2>7, <2>8, DurationsAreNat
    <2>11. i < m /\ m <= j
      BY <1>2, <2>3, <2>5, <2>6, <2>9
    <2>12. Delayed(i, m)
      BY <1>1, <2>3, <2>6, <2>10, <2>11 DEF LapseCooldownInv, LapseCooldownKept
    <2> QED
      BY <1>4, <2>3, <2>6, <2>11, <2>12
  <1>7. ASSUME NEW w \in Processes, SaveProposal(w), i = job[w].pid
        PROVE  Delayed(i, j)'
    <2>1. /\ DOMAIN proposals' = DOMAIN proposals /\ j \in DOMAIN proposals
          /\ proposals'[i].updatedAt = now
      BY <1>7, SaveProposalStep, SavedProposal
    <2>2. proposals'[j].createdAt <= proposals'[i].updatedAt
      BY <1>3, <2>1 DEF Kept, WindowInv, RowInWindow
    <2>3. j \in (i + 1)..j
      BY <1>1, <1>2
    <2> QED
      BY <1>1, <2>2, <2>3
  <1>8. ASSUME NEW w \in Processes, SaveProposal(w), i # job[w].pid
        PROVE  j \in DOMAIN proposals /\ proposals'[i] = proposals[i]
    BY <1>1, <1>8, SaveProposalStep
  <1>9. ASSUME NEW w \in Processes, InsertProposal(w), j \in DOMAIN proposals
        PROVE  proposals'[i] = proposals[i]
    BY <1>1, <1>2, <1>9, InsertStamps
  <1> QED
    BY <1>5, <1>6, <1>7, <1>8, <1>9, OnlyTheseWrite

(* As long as no sweep or answer saves a proposal of a pair whose next one  *)
(* is past its last check, an expired proposal is not made again before its *)
(* cooldown is over, except while no sweep had marked it yet.               *)
THEOREM LapsesAreRespected == Spec /\ []InsertsTakeTurns => []LapseCooldownKept
  <1>1. Init => LapseCooldownInv
    <2> SUFFICES ASSUME Init PROVE LapseCooldownInv
      OBVIOUS
    <2>1. DOMAIN proposals = {} /\ \A w \in Workers : pc[w] = "idle"
      BY EmptySeq DEF Init, Processes
    <2> QED
      BY <2>1 DEF LapseCooldownInv, LapseCooldownKept
  <1>2. IInv /\ InsertsTakeTurns /\ LapseCooldownInv /\ [Next]_vars => LapseCooldownInv'
    <2> SUFFICES ASSUME IInv, InsertsTakeTurns, LapseCooldownInv, [Next]_vars
                 PROVE  LapseCooldownInv'
      OBVIOUS
    <2>1. \A w \in Workers : pc'[w] = "insert" => FoundLapseOver(w)'
      BY LapseOverStays DEF IInv, CooldownInv
    <2> QED
      BY <2>1, NextKeepsLapseCooldown DEF LapseCooldownInv
  <1>3. LapseCooldownInv => LapseCooldownKept
    BY DEF LapseCooldownInv
  <1> QED
    BY <1>1, <1>2, <1>3, InvariantHolds, PTL DEF Spec

----------------------------------------------------------------------------
(* Turns: the proposals are kept like the book.                             *)

(* Every row of the table has its entry.                                    *)
LEMMA EntriesAreTable ==
    ASSUME NEW table \in Seq(ProposalRow)
    PROVE  LET entries == [i \in DOMAIN table |-> Entry(table[i])] IN
           entries \in Seq(Book!Entries) /\ Len(entries) = Len(table)
  <1>1. DOMAIN table = 1..Len(table) /\ Len(table) \in Nat
    BY LenProperties
  <1>2. ASSUME NEW i \in DOMAIN table PROVE Entry(table[i]) \in Book!Entries
    <2>1. table[i] \in ProposalRow
      BY <1>2, RowsAreRows
    <2> QED
      BY <2>1 DEF Entry, Book!Entries, Book!Outcomes, ProposalRow, ProposalStatus
  <1>3. [i \in DOMAIN table |-> Entry(table[i])] \in [1..Len(table) -> Book!Entries]
    BY <1>1, <1>2
  <1> QED
    BY <1>1, <1>3, TableOfRows

(* An insert offers: the proposer has not proposed within the cooldown.     *)
LEMMA InsertOffers ==
    ASSUME TypeInv, CooldownInv, [Next]_vars, NEW w \in Processes, InsertProposal(w)
    PROVE  Book!Offer(job[w].key, job[w].target)
  <1> DEFINE n == Len(proposals) + 1
             c == job[w].key
             e == [from |-> c, to |-> job[w].target, at |-> now, outcome |-> "open"]
  <1>1. /\ DOMAIN proposals' = DOMAIN proposals \cup {n} /\ n \in Nat
        /\ proposals'[n].proposer = c /\ proposals'[n].target = job[w].target
        /\ proposals'[n].createdAt = now /\ now' = now /\ proposals'[n].status = "pending"
        /\ \A i \in DOMAIN proposals : proposals'[i] = proposals[i]
        /\ w \in Workers /\ pc[w] = "insert"
    BY InsertedRow, InsertStamps DEF InsertProposal
  <1>2. /\ Entries \in Seq(Book!Entries) /\ DOMAIN Entries = DOMAIN proposals
        /\ Len(Entries) = Len(proposals)
        /\ \A i \in DOMAIN proposals : Entries[i] = Entry(proposals[i])
    BY EntriesAreTable DEF Entries, TypeInv, TypeOK
  <1>3. proposals' \in Seq(ProposalRow)
    BY NextKeepsTypeInv DEF TypeInv, TypeOK
  <1>4. Entries' \in Seq(Book!Entries) /\ DOMAIN Entries' = DOMAIN proposals'
    BY <1>3, EntriesAreTable DEF Entries
  <1>5. /\ \A i \in DOMAIN Entries : Entries'[i] = Entries[i]
        /\ Entries'[n] = e
    BY <1>1, <1>2 DEF Entries, Entry
  <1>6. e \in Book!Entries
    <2>1. c \in Characters /\ job[w].target \in Characters
      BY <1>1 DEF TypeInv, JobsOK, JobOK, ProposeJobOK, EligibilityLabels
    <2> QED
      BY <2>1 DEF Book!Entries, TypeInv, TypeOK
  <1> HIDE DEF e
  <1>7. Entries' = Append(Entries, e)
    BY <1>1, <1>2, <1>4, <1>5, <1>6, IsAppended
  <1>8. ASSUME NEW i \in DOMAIN Entries, Entries[i].from = c
        PROVE  now > Entries[i].at + GlobalCooldown
    <2>1. Rested(c)
      BY <1>1 DEF CooldownInv, CooldownPassed, Waits
    <2>2. i \in ProposalsBy(c) /\ Entries[i].at = proposals[i].createdAt
      BY <1>2, <1>8 DEF Entry, ProposalsBy
    <2> QED
      BY <2>1, <2>2 DEF Rested
  <1> QED
    BY <1>1, <1>7, <1>8 DEF Book!Offer, e

(* Saving an answer settles: the row is still open, and overdue if it is to *)
(* expire.                                                                  *)
LEMMA SaveSettles ==
    ASSUME TypeInv, WindowInv, OutcomeInv, DraftCurrent,
           NEW w \in Processes, SaveProposal(w)
    PROVE  Book!Settle(job[w].pid, Outcome[job[w].op])
  <1> DEFINE k == job[w].pid
             d == job[w].draft
             o == Outcome[job[w].op]
  <1>1. /\ pc[w] = "saveProposal" /\ now' = now
        /\ DOMAIN proposals' = DOMAIN proposals
        /\ \A i \in DOMAIN proposals \ {k} : proposals'[i] = proposals[i]
    BY SaveProposalStep DEF SaveProposal
  <1>2. /\ k \in DOMAIN proposals /\ d \in ProposalRow /\ d.status # "pending"
        /\ SamePair(proposals'[k], proposals[k]) /\ d.createdAt = proposals[k].createdAt
        /\ proposals'[k].createdAt = proposals[k].createdAt
        /\ proposals'[k].status = d.status
    BY SavedProposal
  <1>3. /\ d.status = o /\ proposals[k].status = "pending"
        /\ d.status = "expired" => Overdue(d)
    BY <1>1 DEF OutcomeInv, DraftCurrent, WindowInv, DraftInWindow
  <1>4. Entries[k].outcome = "open" /\ Entries[k].at = proposals[k].createdAt
    BY <1>2, <1>3 DEF Entries, Entry
  <1>5. o = "expired" => now > proposals[k].createdAt + ProposalExpiry
    BY <1>2, <1>3 DEF Overdue, ExpiresAt
  <1>6. Entries' = [Entries EXCEPT ![k].outcome = o]
    <2>1. Entry(proposals'[k]) = [Entry(proposals[k]) EXCEPT !.outcome = o]
      BY <1>2, <1>3 DEF Entry, SamePair
    <2> HIDE DEF k, d, o
    <2>2. \A i \in DOMAIN proposals :
            Entry(proposals'[i]) = IF i = k THEN [Entry(proposals[k]) EXCEPT !.outcome = o]
                                   ELSE Entry(proposals[i])
      BY <1>1, <2>1
    <2> QED
      BY <1>1, <1>2, <2>2 DEF Entries
  <1> QED
    BY <1>1, <1>4, <1>5, <1>6 DEF Book!Settle

(* As long as no two processes hold one proposal, the proposals behave like *)
(* the book: entries are only added, at a cooldown's distance per proposer, *)
(* and each is given at most one outcome, by an answer or, once it is       *)
(* overdue, by a sweep.                                                     *)
THEOREM ProposalsAreABook == Spec /\ []RowsTakeTurns => KeepsBook
  <1>1. Init => Book!Init
    <2> SUFFICES ASSUME Init PROVE Entries = << >>
      BY DEF Init, Book!Init
    <2>1. proposals = << >>
      BY DEF Init
    <2>2. DOMAIN proposals = {}
      BY <2>1
    <2> QED
      BY <2>2 DEF Entries
  <1>2. IInv /\ OutcomeInv /\ SerialInv /\ [Next]_vars => [Book!Next]_<<now, Entries>>
    <2> SUFFICES ASSUME IInv, OutcomeInv, SerialInv, [Next]_vars
                 PROVE  [Book!Next]_<<now, Entries>>
      OBVIOUS
    <2> USE DEF IInv
    <2>1. CASE Tick
      <3>1. now' = now + 1 /\ proposals' = proposals
        BY <2>1 DEF Tick, tables
      <3> QED
        BY <3>1 DEF Book!Next, Book!Pass, Entries
    <2>2. ASSUME NEW w \in Processes, InsertProposal(w) PROVE Book!Next
      <3>1. job[w].key \in Characters /\ job[w].target \in Characters
        BY <2>2 DEF InsertProposal, TypeInv, JobsOK, JobOK, ProposeJobOK, EligibilityLabels
      <3> QED
        BY <2>2, <3>1, InsertOffers DEF Book!Next
    <2>3. ASSUME NEW w \in Processes, SaveProposal(w) PROVE Book!Next
      <3>1. job[w].pid \in DOMAIN proposals /\ job[w].op \in Answers \cup {"expire"}
        BY <2>3 DEF SaveProposal, TypeInv, JobsOK, JobOK, AnswerJobOK
      <3>2. Outcome[job[w].op] \in Book!Outcomes
        BY <3>1, OutcomeValues DEF Answers, Book!Outcomes
      <3>3. DOMAIN Entries = DOMAIN proposals
        BY DEF Entries
      <3> QED
        BY <2>3, <3>1, <3>2, <3>3, SaveSettles DEF Book!Next, SerialInv
    <2>4. CASE ~Tick /\ ~ \E w \in Processes : InsertProposal(w) \/ SaveProposal(w)
      <3>1. now' = now /\ proposals' = proposals
        BY <2>4, ClockTicks, OnlyTheseWrite
      <3> QED
        BY <3>1 DEF Entries
    <2> QED
      BY <2>1, <2>2, <2>3, <2>4
  <1> QED
    BY <1>1, <1>2, InvariantHolds, OutcomeInvHolds, SerialInvariantHolds, PTL
    DEF Spec, KeepsBook, Book!Spec
=============================================================================
