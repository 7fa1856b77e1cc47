---------------------------- MODULE CeremonyProofs ----------------------------
(****************************************************************************)
(* Theorems about Ceremonies, for every set of characters, couples,         *)
(* handlers and sweepers, every limit and every bound.                      *)
(****************************************************************************)
EXTENDS CeremonyInvariant, TableLemmas, FiniteSetTheorems

(* The shapes of rows and jobs.                                             *)

LEMMA NewJobIsJob ==
    ASSUME NEW op \in Commands \cup {"none"}, NEW cid \in Nat,
           NEW guest \in Characters \cup {NoOne}
    PROVE  /\ NewJob(op, cid, guest) \in Job
           /\ NewJob(op, cid, guest).op = op
           /\ NewJob(op, cid, guest).cid = cid
           /\ NewJob(op, cid, guest).guest = guest
  <1>1. << >> \in Seq(Characters)
    OBVIOUS
  <1> QED
    BY <1>1 DEF NewJob, Job

LEMMA NoJobIsJob == NoJob \in Job /\ NoJob.op = "none"
  BY NewJobIsJob DEF NoJob

LEMMA ScheduleJobIsJob ==
    ASSUME NEW m \in Nat, NEW guests \in InviteeLists
    PROVE  /\ ScheduleJob(m, guests) \in Job
           /\ ScheduleJob(m, guests).op = "schedule"
           /\ ScheduleJob(m, guests).marriage = m
  <1>1. guests \in Seq(Characters)
    BY InviteesAreCharacters
  <1> QED
    BY <1>1 DEF ScheduleJob, Job

LEMMA NewCeremonyIsRow ==
    ASSUME NEW j \in Job
    PROVE  NewCeremony(j) \in CeremonyRow
  <1>1. j.guests \in Seq(Characters) /\ j.marriage \in Nat /\ j.couple \in SUBSET Characters
    BY DEF Job
  <1> QED
    BY <1>1 DEF NewCeremony, CeremonyRow, CeremonyStatus

(* A guest is taken off a list that has it.                                 *)
LEMMA ShorterList ==
    ASSUME NEW S, NEW s \in Seq(S), NEW k \in DOMAIN s
    PROVE  RemoveAt(s, k) \in Seq(S)
  <1>1. Len(s) \in Nat /\ k \in 1..Len(s)
    BY LenProperties
  <1>2. SubSeq(s, 1, k - 1) \in Seq(S) /\ SubSeq(s, k + 1, Len(s)) \in Seq(S)
    BY <1>1, SMT
  <1> QED
    BY <1>2, ConcatProperties DEF RemoveAt

LEMMA InviteesAfterAreCharacters ==
    ASSUME NEW j \in Job, NEW c \in CeremonyRow, GuestAllowed(j, c),
           j.op = "addInvitee" => j.guest \in Characters
    PROVE  InviteesAfter(j.op, j.guest, c.invitees) \in Seq(Characters)
  <1>1. c.invitees \in Seq(Characters)
    BY DEF CeremonyRow
  <1>2. CASE j.op = "addInvitee"
    BY <1>1, <1>2, AppendProperties DEF InviteesAfter
  <1>3. CASE j.op = "removeInvitee"
    <2> DEFINE k == CHOOSE k \in DOMAIN c.invitees : c.invitees[k] = j.guest
    <2>1. \E i \in DOMAIN c.invitees : c.invitees[i] = j.guest
      BY <1>3 DEF GuestAllowed, Range
    <2>2. k \in DOMAIN c.invitees
      BY <2>1
    <2>3. InviteesAfter(j.op, j.guest, c.invitees) = RemoveAt(c.invitees, k)
      BY <1>3 DEF InviteesAfter
    <2> HIDE DEF k
    <2> QED
      BY <1>1, <2>2, <2>3, ShorterList
  <1>4. CASE j.op \notin GuestOps
    BY <1>1, <1>4 DEF InviteesAfter, GuestOps
  <1> QED
    BY <1>2, <1>3, <1>4 DEF GuestOps

LEMMA ToIsStatus ==
    ASSUME NEW op \in (Commands \ GuestOps) \cup {"schedule"}
    PROVE  To[op] \in CeremonyStatus
  BY DEF Commands, GuestOps, To, CeremonyStatus

LEMMA StampsAfterAreStamps ==
    ASSUME NEW op \in Commands, NEW stamps \in SUBSET Stamps
    PROVE  StampsAfter(op, stamps) \in SUBSET Stamps
  <1>1. op \notin GuestOps \cup {"reschedule"} => Stamp[op] \in Stamps
    BY DEF Commands, GuestOps, Stamp, Stamps
  <1> QED
    BY <1>1, Zenon DEF StampsAfter

LEMMA TransformedRow ==
    ASSUME now \in Nat, NEW j \in Job, NEW c \in CeremonyRow, j.op \in Commands,
           j.op = "addInvitee" => j.guest \in Characters,
           MayTransform(j, c)
    PROVE  /\ Transformed(j, c) \in CeremonyRow
           /\ Loadable(Transformed(j, c))
           /\ Loadable(c)
           /\ Transformed(j, c).marriage = c.marriage
           /\ Transformed(j, c).couple = c.couple
  <1>1. InviteesAfter(j.op, j.guest, c.invitees) \in Seq(Characters)
    BY InviteesAfterAreCharacters DEF MayTransform
  <1>2. StampsAfter(j.op, c.stamps) \in SUBSET Stamps
    BY StampsAfterAreStamps DEF CeremonyRow
  <1>3. (IF j.op \in GuestOps THEN c.status ELSE To[j.op]) \in CeremonyStatus
    BY ToIsStatus DEF CeremonyRow
  <1>4. (IF j.op = "start" THEN now ELSE IF j.op = "reschedule" THEN 0 ELSE c.startedAt) \in Nat
    BY DEF CeremonyRow
  <1>5. c.marriage \in Nat /\ c.couple \in SUBSET Characters
    BY DEF CeremonyRow
  <1>6. Transformed(j, c) \in CeremonyRow
    BY <1>1, <1>2, <1>3, <1>4, <1>5 DEF Transformed, CeremonyRow
  <1> QED
    BY <1>6 DEF MayTransform, Transformed

----------------------------------------------------------------------------
(* What one step of a process establishes.                                  *)

LEMMA TableUntouched ==
    ASSUME UNCHANGED ceremonies
    PROVE  TableKept
  BY DEF TableKept, SameCouple

(* What the register lets happen keeps couples couples.                     *)
LEMMA CouplesKept ==
    ASSUME MarriagesKept, NEW m, NEW couple, OfCouple(m, couple)
    PROVE  OfCouple(m, couple)'
  BY DEF MarriagesKept, OfCouple

LEMMA MarriagesUntouched ==
    ASSUME UNCHANGED marriages
    PROVE  MarriagesKept
  BY DEF MarriagesKept

LEMMA WeddingsKept ==
    ASSUME WeddingsOfCouples, MarriagesKept, UNCHANGED ceremonies
    PROVE  WeddingsOfCouples'
  <1>1. \A i \in DOMAIN ceremonies :
          OfCouple(ceremonies[i].marriage, ceremonies[i].couple)'
    BY CouplesKept DEF WeddingsOfCouples
  <1> QED
    BY <1>1 DEF WeddingsOfCouples

(* The other processes see their rows stay.                                 *)
LEMMA OthersKept ==
    ASSUME JobsOK, NEW w, OnlyMoves(w), TableKept, MarriagesKept, NEW v \in Processes \ {w}
    PROVE  JobOK(v)'
  <1>1. JobOK(v) /\ pc'[v] = pc[v] /\ job'[v] = job[v]
    BY DEF JobsOK, OnlyMoves
  <1>2. job[v].cid \in DOMAIN ceremonies =>
          /\ job[v].cid \in DOMAIN ceremonies'
          /\ Loadable(ceremonies[job[v].cid]) <=> Loadable(ceremonies'[job[v].cid])
          /\ SameCouple(ceremonies[job[v].cid], ceremonies'[job[v].cid])
    BY DEF TableKept
  <1>3. ScheduleJobOK(v)'
    <2>1. DOMAIN marriages \subseteq DOMAIN marriages'
      BY DEF MarriagesKept
    <2>2. OfCouple(job[v].marriage, job[v].couple) => OfCouple(job[v].marriage, job[v].couple)'
      BY <1>1, CouplesKept DEF OfCouple
    <2> QED
      BY <1>1, <2>1, <2>2 DEF JobOK, ScheduleJobOK
  <1>4. CommandJobOK(v)'
    BY <1>1, <1>2 DEF JobOK, CommandJobOK, SameCouple
  <1> QED
    BY <1>3, <1>4 DEF JobOK

LEMMA AnnouncedKept ==
    ASSUME AnnouncedIsLoadable, TableKept, UNCHANGED announced
    PROVE  AnnouncedIsLoadable'
  BY DEF AnnouncedIsLoadable, TableKept

LEMMA IdleIsOK ==
    ASSUME NEW w, pc'[w] = "idle"
    PROVE  JobOK(w)'
  BY DEF JobOK, ScheduleJobOK, CommandJobOK

LEMMA GotoStep ==
    ASSUME TypeOK, NEW w \in Processes, NEW label \in Labels, Goto(w, label), NEW j \in Job,
           job' = [job EXCEPT ![w] = j]
    PROVE  /\ pc' \in [Processes -> Labels] /\ job' \in [Processes -> Job]
           /\ OnlyMoves(w) /\ pc'[w] = label /\ job'[w] = j
  BY DEF TypeOK, Goto, OnlyMoves

LEMMA FinishStep ==
    ASSUME TypeOK, NEW w \in Processes, Finish(w)
    PROVE  /\ pc' \in [Processes -> Labels] /\ job' \in [Processes -> Job]
           /\ OnlyMoves(w) /\ JobOK(w)'
  BY NoJobIsJob, IdleIsOK DEF TypeOK, Goto, Finish, OnlyMoves, Labels

StepOK(w) ==
    /\ TypeOK' /\ TableKept /\ MarriagesKept /\ OnlyMoves(w)
    /\ JobOK(w)' /\ TodosOK' /\ AnnouncedIsLoadable' /\ WeddingsOfCouples'

LEMMA StepKeepsIInv ==
    ASSUME IInv, NEW w \in Processes, StepOK(w)
    PROVE  IInv' /\ TableKept
  <1>1. ASSUME NEW v \in Processes PROVE JobOK(v)'
    BY OthersKept DEF IInv, StepOK
  <1> QED
    BY <1>1 DEF IInv, StepOK, JobsOK

(* A step that touches neither the table nor the topic.                     *)
LEMMA QuietStep ==
    ASSUME IInv, NEW w \in Processes, TypeOK', OnlyMoves(w), JobOK(w)',
           UNCHANGED <<marriages, ceremonies, announced>>,
           \A s \in Sweepers : todo'[s] \subseteq DOMAIN ceremonies
    PROVE  StepOK(w)
  BY TableUntouched, MarriagesUntouched, AnnouncedKept, WeddingsKept DEF IInv, StepOK, TodosOK

LEMMA EnterStep ==
    ASSUME IInv, NEW w \in Processes, NEW label \in Labels, NEW j \in Job,
           Enter(w, label, j), (pc'[w] = label /\ job'[w] = j) => JobOK(w)'
    PROVE  StepOK(w)
  <1>1. /\ pc' \in [Processes -> Labels] /\ job' \in [Processes -> Job]
        /\ OnlyMoves(w) /\ pc'[w] = label /\ job'[w] = j
    BY GotoStep DEF Enter, IInv
  <1>2. UNCHANGED <<now, marriages, ceremonies, announced, todo, faults>>
    BY DEF Enter
  <1>3. TypeOK'
    BY <1>1, <1>2 DEF IInv, TypeOK
  <1> QED
    BY <1>1, <1>2, <1>3, QuietStep DEF IInv, TodosOK

----------------------------------------------------------------------------
(* One step, action by action.                                              *)

LEMMA BeginStep ==
    ASSUME IInv, NEW w \in Workers, Begin(w)
    PROVE  IInv' /\ TableKept
  <1>1. w \in Processes
    BY DEF Processes
  <1>2. ASSUME BeginSchedule(w) PROVE StepOK(w)
    <2>1. PICK m \in DOMAIN marriages, guests \in InviteeLists :
            Enter(w, "loadMarriage", ScheduleJob(m, guests))
      BY <1>2 DEF BeginSchedule
    <2> DEFINE j == ScheduleJob(m, guests)
    <2>2. j \in Job /\ j.op = "schedule" /\ j.marriage = m
      <3>1. m \in Nat
        BY RowsAreRows DEF IInv, TypeOK
      <3> QED
        BY <3>1, ScheduleJobIsJob
    <2> HIDE DEF j
    <2>6. UNCHANGED marriages
      BY <2>1 DEF Enter
    <2>3. (pc'[w] = "loadMarriage" /\ job'[w] = j) => JobOK(w)'
      BY <2>2, <2>6 DEF JobOK, ScheduleJobOK, CommandJobOK
    <2>4. "loadMarriage" \in Labels
      BY DEF Labels
    <2>5. Enter(w, "loadMarriage", j)
      BY <2>1 DEF j
    <2> QED
      BY <1>1, <2>2, <2>3, <2>4, <2>5, EnterStep
  <1>3. ASSUME NEW op \in Commands, NEW i \in DOMAIN ceremonies,
               NEW guest \in Characters \cup {NoOne},
               op = "addInvitee" => guest \in Characters,
               Enter(w, "loadCeremony", NewJob(op, i, guest))
        PROVE  StepOK(w)
    <2> DEFINE j == NewJob(op, i, guest)
    <2>1. i \in Nat
      BY RowsAreRows DEF IInv, TypeOK
    <2>2. j \in Job /\ j.op = op /\ j.cid = i /\ j.guest = guest
      BY <2>1, NewJobIsJob
    <2>3. Enter(w, "loadCeremony", j)
      BY <1>3
    <2> HIDE DEF j
    <2>4. UNCHANGED ceremonies
      BY <1>3 DEF Enter
    <2>5. (pc'[w] = "loadCeremony" /\ job'[w] = j) => JobOK(w)'
      BY <1>3, <2>2, <2>4 DEF JobOK, ScheduleJobOK, CommandJobOK
    <2>6. "loadCeremony" \in Labels
      BY DEF Labels
    <2> QED
      BY <1>1, <2>2, <2>3, <2>5, <2>6, EnterStep
  <1>4. ASSUME BeginCommand(w) PROVE StepOK(w)
    <2>1. PICK op \in Commands, i \in DOMAIN ceremonies :
            \E guest \in IF op \in GuestOps THEN Characters ELSE {NoOne} :
                Enter(w, "loadCeremony", NewJob(op, i, guest))
      BY <1>4 DEF BeginCommand
    <2>2. PICK guest \in IF op \in GuestOps THEN Characters ELSE {NoOne} :
            Enter(w, "loadCeremony", NewJob(op, i, guest))
      BY <2>1
    <2>3. /\ guest \in Characters \cup {NoOne}
          /\ op = "addInvitee" => guest \in Characters
      BY <2>2 DEF GuestOps
    <2> QED
      BY <1>3, <2>2, <2>3
  <1>5. ASSUME BeginAdvance(w) PROVE StepOK(w)
    <2>1. PICK nextState \in DOMAIN AdvanceOp, i \in DOMAIN ceremonies :
            Enter(w, "loadCeremony", NewJob(AdvanceOp[nextState], i, NoOne))
      BY <1>5 DEF BeginAdvance
    <2>2. AdvanceOp[nextState] \in Commands /\ AdvanceOp[nextState] # "addInvitee"
      BY <2>1 DEF AdvanceOp, Commands
    <2> QED
      BY <1>3, <2>1, <2>2
  <1> QED
    BY <1>1, <1>2, <1>4, <1>5, StepKeepsIInv DEF Begin

LEMMA LoadMarriageStep ==
    ASSUME IInv, NEW w \in Processes, LoadMarriage(w)
    PROVE  StepOK(w)
  <1> DEFINE m == marriages[job[w].marriage]
             j == [job[w] EXCEPT !.couple = Register!Partners(m)]
  <1>1. UNCHANGED <<now, marriages, ceremonies, announced, todo, faults>>
    BY DEF LoadMarriage
  <1>2. job[w].op = "schedule" /\ job[w].marriage \in DOMAIN marriages /\ m \in Register!Row
    <2>1. job[w].op = "schedule" /\ job[w].marriage \in DOMAIN marriages
      BY DEF LoadMarriage, IInv, JobsOK, JobOK, ScheduleJobOK
    <2> QED
      BY <2>1, RowsAreRows DEF IInv, TypeOK
  <1>3. /\ pc' \in [Processes -> Labels] /\ job' \in [Processes -> Job]
        /\ OnlyMoves(w) /\ JobOK(w)'
    <2>1. CASE Finish(w)
      BY <2>1, FinishStep DEF IInv
    <2>2. CASE /\ m.status = "engaged" /\ Goto(w, "insert")
               /\ job' = [job EXCEPT ![w].couple = Register!Partners(m)]
      <3>1. j \in Job /\ j.op = job[w].op /\ j.marriage = job[w].marriage /\ j.couple = Register!Partners(m)
        <4>1. job[w] \in Job /\ Register!Partners(m) \in SUBSET Characters
          BY <1>2 DEF IInv, TypeOK, Register!Row, Register!Partners
        <4> QED
          BY <4>1 DEF Job
      <3>2. job' = [job EXCEPT ![w] = j] /\ "insert" \in Labels
        BY <2>2 DEF Labels
      <3> HIDE DEF j
      <3>3. /\ pc' \in [Processes -> Labels] /\ job' \in [Processes -> Job]
            /\ OnlyMoves(w) /\ pc'[w] = "insert" /\ job'[w] = j
        BY <2>2, <3>1, <3>2, GotoStep DEF IInv
      <3>4. /\ job'[w].op = "schedule"
            /\ job'[w].marriage \in DOMAIN marriages
            /\ job'[w].couple = Register!Partners(marriages[job'[w].marriage])
            /\ marriages[job'[w].marriage].status = "engaged"
        BY <1>2, <2>2, <3>1, <3>3
      <3>5. ScheduleJobOK(w)'
        BY <1>1, <3>4 DEF ScheduleJobOK, OfCouple
      <3> QED
        BY <3>3, <3>5 DEF JobOK, CommandJobOK
    <2> QED
      BY <2>1, <2>2 DEF LoadMarriage
  <1>4. TypeOK'
    BY <1>1, <1>3 DEF IInv, TypeOK
  <1> QED
    BY <1>1, <1>3, <1>4, QuietStep DEF IInv, TodosOK

(* An insert adds a row at the end and touches no other.                    *)
LEMMA InsertCeremonyStep ==
    ASSUME IInv, NEW w \in Processes, InsertCeremony(w)
    PROVE  StepOK(w)
  <1> DEFINE c == NewCeremony(job[w])
             n == Len(ceremonies) + 1
             j == [job[w] EXCEPT !.cid = n]
  <1>1. /\ ceremonies' = Append(ceremonies, c)
        /\ UNCHANGED <<now, marriages, announced, todo, faults>>
    BY DEF InsertCeremony
  <1>2. /\ job[w] \in Job /\ job[w].op = "schedule"
        /\ OfCouple(c.marriage, c.couple)
    BY DEF InsertCeremony, IInv, TypeOK, JobsOK, JobOK, ScheduleJobOK, NewCeremony
  <1>3. c \in CeremonyRow
    BY <1>2, NewCeremonyIsRow
  <1>4. ceremonies \in Seq(CeremonyRow)
    BY DEF IInv, TypeOK
  <1> HIDE DEF c
  <1>5. /\ ceremonies' \in Seq(CeremonyRow)
        /\ DOMAIN ceremonies \subseteq DOMAIN ceremonies'
        /\ \A i \in DOMAIN ceremonies : ceremonies'[i] = ceremonies[i]
        /\ n \in DOMAIN ceremonies' /\ ceremonies'[n] = c
        /\ n \in Nat
        /\ \A i \in DOMAIN ceremonies' : i \in DOMAIN ceremonies \/ i = n
    BY <1>1, <1>3, <1>4, AppendedRow
  <1>6. /\ pc' \in [Processes -> Labels] /\ job' \in [Processes -> Job]
        /\ OnlyMoves(w) /\ JobOK(w)'
    <2>1. CASE Finish(w)
      BY <2>1, FinishStep DEF IInv
    <2>2. CASE Loadable(c) /\ job' = [job EXCEPT ![w].cid = n] /\ Goto(w, "emit")
      <3>1. j \in Job /\ j.cid = n /\ j.op = "schedule"
        BY <1>2, <1>5 DEF Job
      <3>2. job' = [job EXCEPT ![w] = j]
        BY <2>2
      <3>3. "emit" \in Labels
        BY DEF Labels
      <3> HIDE DEF j, n
      <3>4. /\ pc' \in [Processes -> Labels] /\ job' \in [Processes -> Job]
            /\ OnlyMoves(w) /\ pc'[w] = "emit" /\ job'[w] = j
        BY <2>2, <3>1, <3>2, <3>3, GotoStep DEF IInv
      <3>5. CommandJobOK(w)'
        BY <1>5, <2>2, <3>1, <3>4 DEF CommandJobOK
      <3> QED
        BY <3>4, <3>5 DEF JobOK, ScheduleJobOK
    <2> QED
      BY <2>1, <2>2 DEF InsertCeremony, c
  <1>7. TypeOK'
    BY <1>1, <1>5, <1>6 DEF IInv, TypeOK
  <1>8. TableKept /\ MarriagesKept
    BY <1>1, <1>5, MarriagesUntouched DEF TableKept, SameCouple
  <1>9. TodosOK' /\ AnnouncedIsLoadable'
    BY <1>1, <1>8, AnnouncedKept DEF IInv, TodosOK, TableKept
  <1>10. WeddingsOfCouples'
    BY <1>1, <1>2, <1>5 DEF IInv, WeddingsOfCouples, OfCouple
  <1> QED
    BY <1>6, <1>7, <1>8, <1>9, <1>10 DEF StepOK

LEMMA LoadCeremonyStep ==
    ASSUME IInv, NEW w \in Processes, LoadCeremony(w)
    PROVE  StepOK(w)
  <1> DEFINE c == ceremonies[job[w].cid]
             d == Transformed(job[w], c)
             j == [job[w] EXCEPT !.draft = d]
  <1>1. UNCHANGED <<now, marriages, ceremonies, announced, todo, faults>>
    BY DEF LoadCeremony
  <1>2. /\ job[w] \in Job /\ job[w].op \in Commands /\ job[w].cid \in DOMAIN ceremonies
        /\ job[w].op = "addInvitee" => job[w].guest \in Characters
    BY DEF LoadCeremony, IInv, TypeOK, JobsOK, JobOK, CommandJobOK
  <1>3. c \in CeremonyRow
    BY <1>2, RowsAreRows DEF IInv, TypeOK
  <1>4. /\ pc' \in [Processes -> Labels] /\ job' \in [Processes -> Job]
        /\ OnlyMoves(w) /\ JobOK(w)'
    <2>1. CASE Finish(w)
      BY <2>1, FinishStep DEF IInv
    <2>2. CASE /\ MayTransform(job[w], c)
               /\ job' = [job EXCEPT ![w].draft = d]
               /\ Goto(w, "saveCeremony")
      <3>1. d \in CeremonyRow /\ Loadable(d) /\ Loadable(c) /\ SameCouple(d, c)
        BY <1>2, <1>3, <2>2, TransformedRow DEF IInv, TypeOK, SameCouple
      <3> HIDE DEF d
      <3>2. j \in Job /\ j.cid = job[w].cid /\ j.op = job[w].op /\ j.draft = d
        BY <1>2, <3>1 DEF Job
      <3>3. job' = [job EXCEPT ![w] = j]
        BY <2>2
      <3>4. "saveCeremony" \in Labels
        BY DEF Labels
      <3> HIDE DEF j
      <3>5. /\ pc' \in [Processes -> Labels] /\ job' \in [Processes -> Job]
            /\ OnlyMoves(w) /\ pc'[w] = "saveCeremony" /\ job'[w] = j
        BY <2>2, <3>2, <3>3, <3>4, GotoStep DEF IInv
      <3>6. CommandJobOK(w)'
        BY <1>1, <1>2, <3>1, <3>2, <3>5 DEF CommandJobOK
      <3> QED
        BY <3>5, <3>6 DEF JobOK, ScheduleJobOK
    <2> QED
      BY <2>1, <2>2 DEF LoadCeremony
  <1>5. TypeOK'
    BY <1>1, <1>4 DEF IInv, TypeOK
  <1> QED
    BY <1>1, <1>4, <1>5, QuietStep DEF IInv, TodosOK

(* A save replaces one loadable row by another.                             *)
LEMMA SaveCeremonyStep ==
    ASSUME IInv, NEW w \in Processes, SaveCeremony(w)
    PROVE  StepOK(w)
  <1> DEFINE k == job[w].cid
             d == job[w].draft
  <1>1. /\ ceremonies' = [ceremonies EXCEPT ![k] = d]
        /\ Goto(w, "emit")
        /\ UNCHANGED <<now, marriages, announced, job, todo, faults>>
    BY DEF SaveCeremony
  <1>2. /\ job[w].op \in Commands /\ k \in DOMAIN ceremonies
        /\ Loadable(ceremonies[k]) /\ d \in CeremonyRow /\ Loadable(d)
        /\ SameCouple(d, ceremonies[k])
    BY DEF SaveCeremony, IInv, JobsOK, JobOK, CommandJobOK
  <1> HIDE DEF d, k
  <1>3. /\ ceremonies' \in Seq(CeremonyRow)
        /\ DOMAIN ceremonies' = DOMAIN ceremonies
        /\ \A i \in DOMAIN ceremonies : ceremonies'[i] = IF i = k THEN d ELSE ceremonies[i]
    BY <1>1, <1>2, UpdatedRow DEF IInv, TypeOK
  <1>4. pc' \in [Processes -> Labels] /\ OnlyMoves(w) /\ pc'[w] = "emit"
    BY <1>1 DEF IInv, TypeOK, Goto, OnlyMoves, Labels
  <1>5. JobOK(w)'
    <2>1. job[w].op # "none"
      BY <1>2 DEF Commands, GuestOps
    <2>2. job'[w].cid = k /\ job'[w].op = job[w].op
      BY <1>1 DEF k
    <2> QED
      BY <1>2, <1>3, <1>4, <2>1, <2>2 DEF JobOK, ScheduleJobOK, CommandJobOK
  <1>6. TypeOK'
    BY <1>1, <1>3, <1>4 DEF IInv, TypeOK
  <1>7. TableKept /\ MarriagesKept
    BY <1>1, <1>2, <1>3, MarriagesUntouched DEF TableKept, SameCouple
  <1>8. TodosOK' /\ AnnouncedIsLoadable'
    BY <1>1, <1>7, AnnouncedKept DEF IInv, TodosOK, TableKept
  <1>9. WeddingsOfCouples'
    BY <1>1, <1>2, <1>3 DEF IInv, WeddingsOfCouples, OfCouple, SameCouple
  <1> QED
    BY <1>4, <1>5, <1>6, <1>7, <1>8, <1>9 DEF StepOK

LEMMA EmitStep ==
    ASSUME IInv, NEW w \in Processes, Emit(w)
    PROVE  StepOK(w)
  <1>1. Finish(w) /\ UNCHANGED <<now, marriages, ceremonies, todo, faults>>
    BY DEF Emit
  <1>2. /\ pc' \in [Processes -> Labels] /\ job' \in [Processes -> Job]
        /\ OnlyMoves(w) /\ JobOK(w)'
    BY <1>1, FinishStep DEF IInv
  <1>3. /\ job[w].op \in Commands \cup {"schedule"}
        /\ job[w].cid \in DOMAIN ceremonies /\ Loadable(ceremonies[job[w].cid])
    <2>1. pc[w] = "emit" /\ JobOK(w) /\ job[w] \in Job
      BY DEF Emit, IInv, TypeOK, JobsOK
    <2> QED
      BY <2>1 DEF JobOK, CommandJobOK, Job
  <1> DEFINE k == job[w].cid
             s == To[job[w].op]
  <1>4. /\ announced' \in [1..MaxCeremonies -> CeremonyStatus \cup {"unannounced"}]
        /\ \A i \in 1..MaxCeremonies : announced'[i] = announced[i] \/ i = k
    <2>1. CASE job[w].op \in GuestOps
      BY <2>1 DEF Emit, IInv, TypeOK
    <2>2. CASE job[w].op \notin GuestOps
      <3>1. s \in CeremonyStatus
        BY <1>3, <2>2, ToIsStatus
      <3>2. announced' = [announced EXCEPT ![k] = s]
        BY <2>2 DEF Emit
      <3> HIDE DEF s, k
      <3> QED
        BY <3>1, <3>2 DEF IInv, TypeOK
    <2> QED
      BY <2>1, <2>2
  <1>5. TypeOK'
    BY <1>1, <1>2, <1>4 DEF IInv, TypeOK
  <1>6. AnnouncedIsLoadable'
    BY <1>1, <1>3, <1>4 DEF IInv, AnnouncedIsLoadable
  <1> QED
    BY <1>1, <1>2, <1>5, <1>6, TableUntouched, MarriagesUntouched, WeddingsKept
    DEF IInv, StepOK, TodosOK

LEMMA StatementStep ==
    ASSUME IInv, NEW w \in Processes, Statement(w)
    PROVE  IInv' /\ TableKept
  BY LoadMarriageStep, InsertCeremonyStep, LoadCeremonyStep, SaveCeremonyStep, EmitStep,
     StepKeepsIInv DEF Statement

LEMMA SweepStepStep ==
    ASSUME IInv, NEW s \in Sweepers, SweepStep(s)
    PROVE  IInv' /\ TableKept
  <1>1. s \in Processes
    BY DEF Processes
  <1>2. ASSUME SweepQuery(s) PROVE StepOK(s)
    <2>1. /\ todo' = [todo EXCEPT ![s] = TimeoutCeremonies]
          /\ UNCHANGED <<now, marriages, ceremonies, announced, pc, job, faults>>
      BY <1>2 DEF SweepQuery
    <2>2. TimeoutCeremonies \subseteq DOMAIN ceremonies
      BY DEF TimeoutCeremonies
    <2>3. DOMAIN ceremonies \subseteq Nat
      BY RowsAreRows DEF IInv, TypeOK
    <2>4. TypeOK' /\ \A v \in Sweepers : todo'[v] \subseteq DOMAIN ceremonies
      BY <2>1, <2>2, <2>3 DEF IInv, TypeOK, TodosOK
    <2>5. JobOK(s)' /\ OnlyMoves(s)
      BY <1>1, <2>1 DEF IInv, JobsOK, JobOK, ScheduleJobOK, CommandJobOK, OfCouple, OnlyMoves
    <2> QED
      BY <1>1, <2>1, <2>4, <2>5, QuietStep
  <1>3. ASSUME SweepNext(s) PROVE StepOK(s)
    <2>1. PICK i \in todo[s] :
            /\ todo' = [todo EXCEPT ![s] = @ \ {i}]
            /\ job' = [job EXCEPT ![s] = NewJob("postpone", i, NoOne)]
            /\ Goto(s, "loadCeremony")
            /\ UNCHANGED <<now, marriages, ceremonies, announced, faults>>
      BY <1>3 DEF SweepNext
    <2> DEFINE j == NewJob("postpone", i, NoOne)
    <2>2. i \in DOMAIN ceremonies /\ i \in Nat
      BY RowsAreRows DEF IInv, TypeOK, TodosOK
    <2>3. "postpone" \in Commands /\ "loadCeremony" \in Labels
      BY DEF Commands, Labels
    <2>4. j \in Job /\ j.op = "postpone" /\ j.cid = i
      BY <2>2, <2>3, NewJobIsJob
    <2>5. job' = [job EXCEPT ![s] = j]
      BY <2>1
    <2> HIDE DEF j
    <2>6. /\ pc' \in [Processes -> Labels] /\ job' \in [Processes -> Job]
          /\ OnlyMoves(s) /\ pc'[s] = "loadCeremony" /\ job'[s] = j
      BY <1>1, <2>1, <2>3, <2>4, <2>5, GotoStep DEF IInv
    <2>7. JobOK(s)'
      BY <2>1, <2>2, <2>3, <2>4, <2>6 DEF JobOK, ScheduleJobOK, CommandJobOK
    <2>8. TypeOK' /\ \A v \in Sweepers : todo'[v] \subseteq DOMAIN ceremonies
      BY <2>1, <2>6 DEF IInv, TypeOK, TodosOK
    <2> QED
      BY <1>1, <2>1, <2>6, <2>7, <2>8, QuietStep
  <1> QED
    BY <1>1, <1>2, <1>3, StepKeepsIInv, StatementStep DEF SweepStep

LEMMA AbortStep ==
    ASSUME IInv, NEW w \in Processes, Abort(w) \/ (w \in Sweepers /\ CrashSweep(w))
    PROVE  IInv' /\ TableKept
  <1>1. Finish(w) /\ UNCHANGED <<now, marriages, ceremonies, announced>>
    BY DEF Abort, CrashSweep
  <1>2. faults' = faults + 1 /\ faults < MaxFaults
    BY DEF Abort, CrashSweep
  <1>3. \/ UNCHANGED todo
        \/ w \in Sweepers /\ todo' = [todo EXCEPT ![w] = {}]
    BY DEF Abort, CrashSweep
  <1>4. /\ pc' \in [Processes -> Labels] /\ job' \in [Processes -> Job]
        /\ OnlyMoves(w) /\ JobOK(w)'
    BY <1>1, FinishStep DEF IInv
  <1>5. faults' \in 0..MaxFaults
    BY <1>2, BoundsAreNat DEF IInv, TypeOK
  <1>6. /\ todo' \in [Sweepers -> SUBSET Nat]
        /\ \A s \in Sweepers : todo'[s] \subseteq DOMAIN ceremonies
    BY <1>3 DEF IInv, TypeOK, TodosOK
  <1>7. TypeOK'
    BY <1>1, <1>4, <1>5, <1>6 DEF IInv, TypeOK
  <1> QED
    BY <1>1, <1>4, <1>6, <1>7, QuietStep, StepKeepsIInv

LEMMA TickStep ==
    ASSUME IInv, Tick
    PROVE  IInv' /\ TableKept
  <1>1. now' = now + 1 /\ UNCHANGED <<marriages, ceremonies, announced, pc, job, todo, faults>>
    BY DEF Tick
  <1>2. TypeOK'
    BY <1>1 DEF IInv, TypeOK
  <1>3. TableKept /\ WeddingsOfCouples' /\ AnnouncedIsLoadable'
    BY <1>1, TableUntouched, MarriagesUntouched, WeddingsKept, AnnouncedKept DEF IInv
  <1> QED
    BY <1>1, <1>2, <1>3
    DEF IInv, JobsOK, JobOK, ScheduleJobOK, CommandJobOK, TodosOK, OfCouple

(* What the register lets happen is what Ceremonies can bear.               *)
LEMMA MarriagesMoveStep ==
    ASSUME IInv, MarriagesMove
    PROVE  IInv' /\ TableKept
  <1>1. Register!Next /\ UNCHANGED <<now, ceremonies, announced, pc, job, todo, faults>>
    BY DEF MarriagesMove
  <1>2. marriages \in Seq(Register!Row)
    BY DEF IInv, TypeOK
  <1>3. marriages' \in Seq(Register!Row) /\ MarriagesKept
    <2>1. CASE Register!Propose
      <3>1. PICK c \in Couples :
              marriages' = Append(marriages,
                  [partner1 |-> c[1], partner2 |-> c[2], status |-> "proposed"])
        BY <2>1 DEF Register!Propose
      <3> DEFINE r == [partner1 |-> c[1], partner2 |-> c[2], status |-> "proposed"]
      <3>2. r \in Register!Row
        BY CouplesAreCharacters DEF Register!Row
      <3> HIDE DEF r
      <3>3. marriages' = Append(marriages, r)
        BY <3>1 DEF r
      <3>4. /\ marriages' \in Seq(Register!Row)
            /\ DOMAIN marriages \subseteq DOMAIN marriages'
            /\ \A m \in DOMAIN marriages : marriages'[m] = marriages[m]
        BY <1>2, <3>2, <3>3, AppendedRow
      <3> QED
        BY <3>4 DEF MarriagesKept
    <2>2. ASSUME NEW m \in DOMAIN marriages, NEW from \in {"proposed", "engaged"},
                 NEW to \in {"engaged", "divorced"}, Register!Move(m, from, to)
          PROVE  marriages' \in Seq(Register!Row) /\ MarriagesKept
      <3> DEFINE r == [marriages[m] EXCEPT !.status = to]
      <3>1. marriages[m] \in Register!Row
        BY <1>2, RowsAreRows
      <3>2. /\ r \in Register!Row /\ r.status = to
            /\ Register!Partners(r) = Register!Partners(marriages[m])
        BY <3>1 DEF Register!Row, Register!Partners
      <3>3. marriages' = [marriages EXCEPT ![m] = r]
        BY <2>2 DEF Register!Move
      <3> HIDE DEF r
      <3>4. /\ marriages' \in Seq(Register!Row)
            /\ DOMAIN marriages' = DOMAIN marriages
            /\ \A k \in DOMAIN marriages : marriages'[k] = IF k = m THEN r ELSE marriages[k]
        BY <1>2, <3>2, <3>3, UpdatedRow
      <3> QED
        BY <3>2, <3>4 DEF MarriagesKept
    <2> QED
      BY <1>1, <2>1, <2>2 DEF Register!Next, Register!Engage, Register!Divorce
  <1>4. TypeOK'
    BY <1>1, <1>3 DEF IInv, TypeOK
  <1>5. TableKept /\ WeddingsOfCouples' /\ AnnouncedIsLoadable'
    BY <1>1, <1>3, TableUntouched, WeddingsKept, AnnouncedKept DEF IInv
  <1>6. JobsOK'
    <2>1. SUFFICES ASSUME NEW v \in Processes PROVE JobOK(v)'
      BY DEF JobsOK
    <2>2. JobOK(v)
      BY DEF IInv, JobsOK
    <2>3. DOMAIN marriages \subseteq DOMAIN marriages'
      BY <1>3 DEF MarriagesKept
    <2>4. OfCouple(job[v].marriage, job[v].couple) => OfCouple(job[v].marriage, job[v].couple)'
      BY <1>1, <1>3, CouplesKept DEF OfCouple
    <2> QED
      BY <1>1, <2>2, <2>3, <2>4 DEF JobOK, ScheduleJobOK, CommandJobOK
  <1> QED
    BY <1>1, <1>4, <1>5, <1>6 DEF IInv, TodosOK

LEMMA NextStep ==
    ASSUME IInv, [Next]_vars
    PROVE  IInv' /\ TableKept
  <1>1. CASE Next
    BY <1>1, BeginStep, StatementStep, SweepStepStep, AbortStep, TickStep,
       MarriagesMoveStep DEF Next, Work, Processes
  <1>2. CASE UNCHANGED vars
    <2>1. UNCHANGED <<now, marriages, ceremonies, announced, pc, job, todo, faults>>
      BY <1>2 DEF vars
    <2>2. TableKept /\ WeddingsOfCouples' /\ AnnouncedIsLoadable'
      BY <2>1, TableUntouched, MarriagesUntouched, WeddingsKept, AnnouncedKept DEF IInv
    <2> QED
      BY <2>1, <2>2
      DEF IInv, TypeOK, JobsOK, JobOK, ScheduleJobOK, CommandJobOK, TodosOK, OfCouple
  <1> QED
    BY <1>1, <1>2

LEMMA InitOK == Init => IInv
  <1> SUFFICES ASSUME Init PROVE IInv
    OBVIOUS
  <1>1. TypeOK
    <2>1. ceremonies \in Seq(CeremonyRow) /\ marriages \in Seq(Register!Row)
      BY EmptySeq DEF Init, Register!Init
    <2>2. faults \in 0..MaxFaults
      BY BoundsAreNat DEF Init
    <2> QED
      BY <2>1, <2>2, NoJobIsJob DEF Init, TypeOK, Labels
  <1>2. JobsOK /\ TodosOK
    BY DEF Init, JobsOK, JobOK, ScheduleJobOK, CommandJobOK, TodosOK
  <1>3. AnnouncedIsLoadable /\ WeddingsOfCouples
    <2>1. DOMAIN ceremonies = {}
      BY EmptySeq DEF Init
    <2> QED
      BY <2>1 DEF Init, AnnouncedIsLoadable, WeddingsOfCouples
  <1> QED
    BY <1>1, <1>2, <1>3 DEF IInv

(* Tables, topic and the memory of every process satisfy the inductive      *)
(* invariant, whoever writes the marriages meanwhile.                       *)
THEOREM InvariantHolds == Spec => []IInv
  <1>1. IInv /\ [Next]_vars => IInv'
    BY NextStep
  <1> QED
    BY InitOK, <1>1, PTL DEF Spec

----------------------------------------------------------------------------
(* The theorems.                                                            *)

(* Tables, topic and the memory of every process stay well-formed, however  *)
(* many handlers and sweepers interleave their statements and fail.         *)
THEOREM TypeCorrect == Spec => []TypeOK
  <1>1. IInv => TypeOK
    BY DEF IInv
  <1> QED
    BY <1>1, InvariantHolds, PTL

(* Handlers that overwrite each other's rows never leave one that Build     *)
(* would refuse, and a row it has refused once is never repaired.           *)
THEOREM RefusedRowsStayOut == Spec => LoadableForGood
  <1>1. IInv /\ [Next]_vars =>
            [\A i \in DOMAIN ceremonies :
                Loadable(ceremonies[i]) <=> Loadable(ceremonies'[i])]_ceremonies
    BY NextStep DEF TableKept
  <1> QED
    BY <1>1, InvariantHolds, PTL DEF Spec, LoadableForGood

(* Whoever follows the event topic hears of no ceremony that the service    *)
(* itself cannot load.                                                      *)
THEOREM AnnouncedRowsLoad == Spec => []AnnouncedIsLoadable
  <1>1. IInv => AnnouncedIsLoadable
    BY DEF IInv
  <1> QED
    BY <1>1, InvariantHolds, PTL

(* Every ceremony is that of a couple which got engaged, and names its two  *)
(* partners, although the marriage may end between the statement that reads *)
(* it and the one that inserts the ceremony.                                *)
THEOREM CouplesMarry == Spec => []WeddingsOfCouples
  <1>1. IInv => WeddingsOfCouples
    BY DEF IInv
  <1> QED
    BY <1>1, InvariantHolds, PTL
----------------------------------------------------------------------------
(* One process at a time.                                                   *)

Starts(w) ==
    /\ UNCHANGED <<ceremonies, announced, faults>>
    /\ pc[w] = "idle" /\ pc'[w] \in {"loadMarriage", "loadCeremony"}
    /\ pc'[w] = "loadMarriage" =>
          Len(ceremonies) + Cardinality(InFlight("schedule")) < MaxCeremonies

Stops(w) ==
    UNCHANGED <<ceremonies, announced>> /\ pc'[w] = "idle" /\ faults' = faults + 1

(* What there is to a step, as far as ceremonies and topic go.              *)
LEMMA KindsOfSteps ==
    ASSUME TypeOK, [Next]_vars
    PROVE  \/ UNCHANGED <<ceremonies, announced, pc, job, faults>>
           \/ \E w \in Processes : Starts(w) \/ Statement(w) \/ Stops(w)
  <1>1. pc \in [Processes -> Labels] /\ Workers \subseteq Processes /\ Sweepers \subseteq Processes
    BY DEF TypeOK, Processes
  <1>2. ASSUME NEW w \in Workers, Begin(w) PROVE Starts(w)
    BY <1>1, <1>2 DEF Begin, BeginSchedule, BeginCommand, BeginAdvance, Enter, Goto, Starts
  <1>3. ASSUME NEW w \in Processes, Abort(w) \/ (w \in Sweepers /\ CrashSweep(w)) PROVE Stops(w)
    BY <1>1, <1>3 DEF Abort, CrashSweep, Finish, Goto, Stops
  <1>4. ASSUME NEW s \in Sweepers, SweepNext(s) PROVE Starts(s)
    BY <1>1, <1>4 DEF SweepNext, Goto, Starts
  <1>5. ASSUME NEW s \in Sweepers, SweepQuery(s)
        PROVE  UNCHANGED <<ceremonies, announced, pc, job, faults>>
    BY <1>5 DEF SweepQuery
  <1>6. Tick \/ MarriagesMove \/ UNCHANGED vars =>
            UNCHANGED <<ceremonies, announced, pc, job, faults>>
    BY DEF Tick, MarriagesMove, vars
  <1> QED
    BY <1>1, <1>2, <1>3, <1>4, <1>5, <1>6 DEF Next, Work, SweepStep

(* What the statements do, one by one.                                      *)
LEMMA LoadsRead ==
    ASSUME TypeOK, NEW w \in Processes, LoadMarriage(w) \/ LoadCeremony(w)
    PROVE  /\ UNCHANGED <<ceremonies, announced, faults>>
           /\ pc[w] \in {"loadMarriage", "loadCeremony"}
           /\ pc'[w] = "insert" => pc[w] = "loadMarriage"
           /\ pc'[w] \in {"idle", "insert", "saveCeremony"}
  BY DEF TypeOK, LoadMarriage, LoadCeremony, Finish, Goto

LEMMA LoadedDraft ==
    ASSUME TypeOK, NEW w \in Processes, LoadCeremony(w), pc'[w] = "saveCeremony"
    PROVE  LET c == ceremonies[job[w].cid] IN
           /\ job'[w].cid = job[w].cid /\ job'[w].op = job[w].op
           /\ c.status \in From[job[w].op]
           /\ job'[w].draft.status = StatusAfter(job[w].op, c.status)
  <1> DEFINE d == Transformed(job[w], ceremonies[job[w].cid])
  <1>1. /\ MayTransform(job[w], ceremonies[job[w].cid])
        /\ job' = [job EXCEPT ![w].draft = d]
    BY DEF TypeOK, LoadCeremony, Finish, Goto
  <1>2. job[w] \in Job /\ job \in [Processes -> Job]
    BY DEF TypeOK
  <1>3. d.status = StatusAfter(job[w].op, ceremonies[job[w].cid].status)
    BY DEF Transformed, StatusAfter
  <1> HIDE DEF d
  <1>4. /\ job'[w].cid = job[w].cid /\ job'[w].op = job[w].op
        /\ job'[w].draft = d
    BY <1>1, <1>2 DEF Job
  <1> QED
    BY <1>1, <1>3, <1>4 DEF MayTransform

LEMMA InsertAdds ==
    ASSUME IInv, NEW w \in Processes, InsertCeremony(w)
    PROVE  LET n == Len(ceremonies) + 1 IN
           /\ n \in Nat /\ DOMAIN ceremonies = 1..(n - 1)
           /\ Len(ceremonies') = n /\ DOMAIN ceremonies' = 1..n
           /\ \A i \in DOMAIN ceremonies : ceremonies'[i] = ceremonies[i]
           /\ ceremonies'[n].status = "scheduled"
           /\ UNCHANGED <<announced, faults>> /\ pc[w] = "insert"
           /\ pc'[w] \in {"idle", "emit"}
           /\ pc'[w] = "emit" => job'[w].cid = n /\ job'[w].op = "schedule"
           /\ Loadable(ceremonies'[n]) => pc'[w] = "emit"
  <1> DEFINE c == NewCeremony(job[w])
             n == Len(ceremonies) + 1
  <1>1. /\ pc[w] = "insert" /\ ceremonies' = Append(ceremonies, c)
        /\ UNCHANGED <<announced, faults>>
    BY DEF InsertCeremony
  <1>2. job[w] \in Job /\ job[w].op = "schedule"
    BY <1>1 DEF IInv, TypeOK, JobsOK, JobOK, ScheduleJobOK
  <1>3. c \in CeremonyRow /\ c.status = "scheduled"
    BY <1>2, NewCeremonyIsRow DEF NewCeremony
  <1>4. /\ pc'[w] = IF Loadable(c) THEN "emit" ELSE "idle"
        /\ pc'[w] = "emit" => job' = [job EXCEPT ![w].cid = n]
    BY DEF InsertCeremony, IInv, TypeOK, Finish, Goto
  <1>5. pc'[w] = "emit" => job'[w].cid = n /\ job'[w].op = "schedule"
    BY <1>2, <1>4 DEF IInv, TypeOK, Job
  <1> HIDE DEF c
  <1>6. /\ DOMAIN ceremonies' = 1..n /\ n \in Nat /\ DOMAIN ceremonies = 1..(n - 1)
        /\ \A i \in DOMAIN ceremonies : ceremonies'[i] = ceremonies[i]
        /\ ceremonies'[n] = c /\ ceremonies' \in Seq(CeremonyRow)
    BY <1>1, <1>3, AppendedRow DEF IInv, TypeOK
  <1>7. Len(ceremonies') = n
    BY <1>6, LenProperties
  <1> QED
    BY <1>1, <1>3, <1>4, <1>5, <1>6, <1>7

LEMMA SaveReplaces ==
    ASSUME IInv, NEW w \in Processes, SaveCeremony(w)
    PROVE  LET k == job[w].cid IN
           /\ k \in DOMAIN ceremonies /\ Loadable(ceremonies[k]) /\ job[w].op \in Commands
           /\ Len(ceremonies') = Len(ceremonies) /\ DOMAIN ceremonies' = DOMAIN ceremonies
           /\ \A i \in DOMAIN ceremonies :
                ceremonies'[i] = IF i = k THEN job[w].draft ELSE ceremonies[i]
           /\ UNCHANGED <<announced, faults, job>> /\ pc[w] = "saveCeremony" /\ pc'[w] = "emit"
  <1> DEFINE k == job[w].cid
             d == job[w].draft
  <1>1. /\ pc[w] = "saveCeremony" /\ ceremonies' = [ceremonies EXCEPT ![k] = d]
        /\ UNCHANGED <<announced, faults, job>> /\ pc'[w] = "emit"
    BY DEF SaveCeremony, IInv, TypeOK, Goto
  <1>2. /\ job[w].op \in Commands /\ k \in DOMAIN ceremonies
        /\ Loadable(ceremonies[k]) /\ d \in CeremonyRow
    BY <1>1 DEF IInv, JobsOK, JobOK, CommandJobOK
  <1> HIDE DEF d, k
  <1>3. /\ ceremonies' \in Seq(CeremonyRow)
        /\ DOMAIN ceremonies' = DOMAIN ceremonies
        /\ \A i \in DOMAIN ceremonies : ceremonies'[i] = IF i = k THEN d ELSE ceremonies[i]
    BY <1>1, <1>2, UpdatedRow DEF IInv, TypeOK
  <1>4. Len(ceremonies') = Len(ceremonies)
    BY <1>3, LenProperties DEF IInv, TypeOK
  <1> QED
    BY <1>1, <1>2, <1>3, <1>4 DEF d, k

LEMMA EmitAnnounces ==
    ASSUME IInv, RoomInv, NEW w \in Processes, Emit(w)
    PROVE  /\ UNCHANGED <<ceremonies, faults>> /\ pc[w] = "emit" /\ pc'[w] = "idle"
           /\ \A i \in DOMAIN ceremonies :
                announced'[i] = IF Announces(w, i) THEN To[job[w].op] ELSE announced[i]
  <1>1. /\ UNCHANGED <<ceremonies, faults>> /\ pc[w] = "emit" /\ pc'[w] = "idle"
        /\ announced' = IF job[w].op \in GuestOps THEN announced
                        ELSE [announced EXCEPT ![job[w].cid] = To[job[w].op]]
    BY DEF Emit, Finish, Goto, IInv, TypeOK
  <1>2. DOMAIN ceremonies = 1..Len(ceremonies) /\ Len(ceremonies) \in Nat
    BY LenProperties DEF IInv, TypeOK
  <1>3. DOMAIN ceremonies \subseteq 1..MaxCeremonies
    BY <1>2, BoundsAreNat DEF RoomInv
  <1>4. announced \in [1..MaxCeremonies -> CeremonyStatus \cup {"unannounced"}]
    BY DEF IInv, TypeOK
  <1> QED
    BY <1>1, <1>3, <1>4 DEF Announces
(* A command starts from the status that it has loaded.                     *)
LEMMA NextKeepsDraftFromRow ==
    ASSUME OneProcess, IInv, DraftFromRow, RoomInv, [Next]_vars
    PROVE  DraftFromRow'
  <1>1. SUFFICES ASSUME NEW w \in Processes, pc'[w] = "saveCeremony"
                 PROVE  LET op == job'[w].op status == ceremonies'[job'[w].cid].status IN
                        /\ status \in From[op]
                        /\ job'[w].draft.status = StatusAfter(op, status)
    BY DEF DraftFromRow, StatusAfter
  <1>2. CASE UNCHANGED <<ceremonies, announced, pc, job, faults>>
    BY <1>1, <1>2 DEF DraftFromRow
  <1>3. CASE LoadCeremony(w)
    BY <1>1, <1>3, LoadsRead, LoadedDraft DEF IInv
  <1>4. ~LoadMarriage(w)
    BY <1>1 DEF LoadMarriage, Finish, Goto, IInv, TypeOK
  <1>5. ~InsertCeremony(w) /\ ~SaveCeremony(w) /\ ~Emit(w)
    BY <1>1, InsertAdds, SaveReplaces, EmitAnnounces
  <1>6. ~Starts(w) /\ ~Stops(w)
    BY <1>1 DEF Starts, Stops
  <1> QED
    BY <1>2, <1>3, <1>4, <1>5, <1>6, KindsOfSteps DEF OneProcess, Statement, IInv

LEMMA CountsAreNat ==
    ASSUME OneProcess, NEW op
    PROVE  Cardinality(InFlight(op)) \in Nat
  <1>1. CASE InFlight(op) = {}
    BY <1>1, FS_EmptySet
  <1>2. CASE InFlight(op) # {}
    <2>1. PICK w \in InFlight(op) : TRUE
      BY <1>2
    <2>2. InFlight(op) = {w}
      BY <2>1 DEF InFlight, OneProcess, Processes
    <2> QED
      BY <2>2, FS_Singleton
  <1> QED
    BY <1>1, <1>2

LEMMA NextKeepsRoomInv ==
    ASSUME OneProcess, IInv, RoomInv, [Next]_vars
    PROVE  RoomInv'
  <1>1. Len(ceremonies) \in Nat /\ Len(ceremonies) <= MaxCeremonies /\ MaxCeremonies \in Nat
    BY LenProperties, BoundsAreNat DEF IInv, TypeOK, RoomInv
  <1>2. CASE UNCHANGED <<ceremonies, announced, pc, job, faults>>
    BY <1>2 DEF RoomInv
  <1>3. ASSUME NEW w \in Processes, Starts(w) \/ Statement(w) \/ Stops(w),
               pc[w] = "insert" => Len(ceremonies) < MaxCeremonies
        PROVE  /\ Len(ceremonies') <= MaxCeremonies
               /\ pc'[w] \in {"loadMarriage", "insert"} => Len(ceremonies') < MaxCeremonies
    <2>1. CASE Starts(w)
      BY <1>1, <2>1, CountsAreNat DEF Starts
    <2>2. CASE Stops(w)
      BY <1>1, <2>2 DEF Stops
    <2>3. CASE LoadMarriage(w) \/ LoadCeremony(w)
      BY <1>1, <2>3, LoadsRead DEF RoomInv, IInv
    <2>4. CASE InsertCeremony(w)
      BY <1>1, <1>3, <2>4, InsertAdds
    <2>5. CASE SaveCeremony(w)
      BY <1>1, <2>5, SaveReplaces
    <2>6. CASE Emit(w)
      BY <1>1, <2>6, EmitAnnounces
    <2> QED
      BY <1>3, <2>1, <2>2, <2>3, <2>4, <2>5, <2>6 DEF Statement
  <1> QED
    BY <1>2, <1>3, KindsOfSteps DEF OneProcess, RoomInv, IInv

(* The only ceremony the topic is behind on is announced next.              *)
LEMMA NextKeepsTopicInv ==
    ASSUME OneProcess, IInv, SerialInv, [Next]_vars
    PROVE  TopicInv'
  <1>1. /\ \A v \in Processes : \A i \in DOMAIN ceremonies :
              Announces(v, i) => ceremonies[i].status = To[job[v].op]
        /\ faults = 0 => \A i \in DOMAIN ceremonies : Loadable(ceremonies[i]) =>
              announced[i] = ceremonies[i].status \/ \E v \in Processes : Announces(v, i)
    BY DEF SerialInv, TopicInv
  <1>2. faults \in Nat
    BY BoundsAreNat DEF IInv, TypeOK
  <1>3. CASE UNCHANGED <<ceremonies, announced, pc, job, faults>>
    BY <1>1, <1>3 DEF TopicInv, Announces
  <1>4. ASSUME NEW w \in Processes, Starts(w) \/ Statement(w) \/ Stops(w), NEW i \in DOMAIN ceremonies'
        PROVE  /\ Announces(w, i)' => ceremonies'[i].status = To[job'[w].op]
               /\ faults' = 0 /\ Loadable(ceremonies'[i]) =>
                     announced'[i] = ceremonies'[i].status \/ Announces(w, i)'
    <2>1. \A v \in Processes : v = w
      BY DEF OneProcess
    <2>2. CASE Starts(w)
      BY <1>1, <2>1, <2>2 DEF Starts, Announces
    <2>3. CASE Stops(w)
      BY <1>2, <2>3 DEF Stops, Announces
    <2>4. CASE LoadMarriage(w) \/ LoadCeremony(w)
      BY <1>1, <2>1, <2>4, LoadsRead DEF Announces, IInv
    <2>5. CASE InsertCeremony(w)
      BY <1>1, <2>1, <2>5, InsertAdds DEF Announces, GuestOps, To
    <2>6. CASE SaveCeremony(w)
      <3> DEFINE k == job[w].cid
      <3>1. /\ k \in DOMAIN ceremonies /\ Loadable(ceremonies[k]) /\ DOMAIN ceremonies' = DOMAIN ceremonies
            /\ \A n \in DOMAIN ceremonies :
                 ceremonies'[n] = IF n = k THEN job[w].draft ELSE ceremonies[n]
            /\ UNCHANGED <<announced, faults, job>> /\ pc[w] = "saveCeremony" /\ pc'[w] = "emit"
        BY <2>6, SaveReplaces
      <3>2. job[w].draft.status = StatusAfter(job[w].op, ceremonies[k].status)
        BY <3>1 DEF SerialInv, DraftFromRow
      <3> QED
        BY <1>1, <1>4, <2>1, <3>1, <3>2 DEF Announces, StatusAfter
    <2>7. CASE Emit(w)
      BY <1>1, <1>4, <2>1, <2>7, EmitAnnounces DEF Announces, SerialInv
    <2> QED
      BY <1>4, <2>2, <2>3, <2>4, <2>5, <2>6, <2>7 DEF Statement
  <1>5. ASSUME NEW w \in Processes, Starts(w) \/ Statement(w) \/ Stops(w)
        PROVE  TopicInv'
    BY <1>4, <1>5 DEF OneProcess, TopicInv
  <1> QED
    BY <1>3, <1>5, KindsOfSteps DEF IInv

(* The inductive invariant for one process.                                 *)
THEOREM SerialInvariantHolds == ASSUME OneProcess PROVE Spec => []SerialInv
  <1>1. Init => SerialInv
    <2> SUFFICES ASSUME Init PROVE SerialInv
      OBVIOUS
    <2>1. /\ DOMAIN ceremonies = {} /\ Len(ceremonies) = 0
          /\ \A w \in Processes : pc[w] = "idle"
      BY EmptySeq DEF Init
    <2> QED
      BY <2>1, BoundsAreNat DEF SerialInv, DraftFromRow, RoomInv, TopicInv
  <1>2. IInv /\ SerialInv /\ [Next]_vars => SerialInv'
    BY NextKeepsDraftFromRow, NextKeepsRoomInv, NextKeepsTopicInv DEF SerialInv
  <1> QED
    BY <1>1, <1>2, InvariantHolds, PTL DEF Spec

(* One at a time, and as long as nothing fails, whoever follows the topic   *)
(* knows the status of every ceremony that can be loaded.                   *)
THEOREM TopicIsCurrent == ASSUME OneProcess PROVE Spec => []AnnouncedIsCurrent
  <1>1. SerialInv => AnnouncedIsCurrent
    BY DEF SerialInv, TopicInv, Announces, AnnouncedIsCurrent
  <1> QED
    BY <1>1, SerialInvariantHolds, PTL

(* The guards of the operations add up to the transitions of state.go.      *)
LEMMA GuardsAreTransitions ==
    ASSUME NEW op \in Commands, NEW s \in From[op], StatusAfter(op, s) # s
    PROVE  CanTransitionTo(s, StatusAfter(op, s))
  <1>1. op \notin GuestOps /\ StatusAfter(op, s) = To[op]
    BY DEF StatusAfter
  <1>2. op \in {"start", "complete", "cancel", "postpone", "reschedule"}
    BY <1>1 DEF Commands
  <1> QED
    BY <1>1, <1>2 DEF From, To, CanTransitionTo

(* One at a time, a ceremony goes from one status to another only as        *)
(* state.go says, although no handler consults it.                          *)
THEOREM StatusesFollowStateMachine == ASSUME OneProcess PROVE Spec => CeremonyTransitions
  <1>1. IInv /\ SerialInv /\ [Next]_vars =>
            [\A i \in DOMAIN ceremonies :
                LET s == ceremonies[i].status t == ceremonies'[i].status IN
                s # t => CanTransitionTo(s, t)]_ceremonies
    <2> SUFFICES ASSUME IInv, SerialInv, [Next]_vars, NEW i \in DOMAIN ceremonies,
                        ceremonies[i].status # ceremonies'[i].status
                 PROVE  CanTransitionTo(ceremonies[i].status, ceremonies'[i].status)
      OBVIOUS
    <2>1. PICK w \in Processes : SaveCeremony(w)
      BY KindsOfSteps, LoadsRead, InsertAdds, EmitAnnounces
      DEF IInv, SerialInv, Statement, Starts, Stops
    <2>2. i = job[w].cid /\ ceremonies'[i] = job[w].draft /\ job[w].op \in Commands /\ pc[w] = "saveCeremony"
      BY <2>1, SaveReplaces
    <2>3. /\ ceremonies[i].status \in From[job[w].op]
          /\ ceremonies'[i].status = StatusAfter(job[w].op, ceremonies[i].status)
      BY <2>2 DEF SerialInv, DraftFromRow
    <2> QED
      BY <2>2, <2>3, GuardsAreTransitions
  <1> QED
    BY <1>1, InvariantHolds, SerialInvariantHolds, PTL DEF Spec, CeremonyTransitions
=============================================================================
