--------------------------- MODULE TransactionProofs ---------------------------
(****************************************************************************)
(* Theorems about TransactionalAcceptance.                                  *)
(****************************************************************************)
EXTENDS TransactionProperties, TLAPS

(* A row is held by whom it was held, but for the call that releases.       *)
LEMMA ReleasedRows ==
    ASSUME TypeOK, NEW a \in Acceptors, locked' = Released(a)
    PROVE  /\ locked' \in [Proposals -> Acceptors \cup {NoOne}]
           /\ \A b \in Acceptors, p \in Proposals :
                locked'[p] = b <=> b # a /\ locked[p] = b
  BY NoOneIsNoAcceptor DEF TypeOK, Released

LEMMA MoveStep ==
    ASSUME TypeOK, NEW w \in Processes, NEW from, NEW to \in Labels, Moves(w, from, to)
    PROVE  /\ pc[w] = from
           /\ pc' \in [Processes -> Labels] /\ pc'[w] = to
           /\ \A v \in Processes : v # w => pc'[v] = pc[v]
  BY DEF TypeOK, Moves

(* A process that writes only rows of its own disturbs nobody else.         *)
Apart(w) ==
    /\ \A v \in Processes \ {w} : pc'[v] = pc[v] /\ job'[v] = job[v]
    /\ \A v \in Processes \ {w} : v \in published' <=> v \in published
    /\ \A m \in MarriageRow : m.by # w => (m \in marriages' <=> m \in marriages)

LEMMA OthersKept ==
    ASSUME IInv, TypeOK', NEW w \in Processes, Apart(w)
    PROVE  /\ \A a \in Acceptors \ {w} : CallOK(a)'
           /\ \A r \in Rivals \ {w} : RivalOK(r)'
           /\ \A m \in MadeInTransactions' : m.by # w => pc'[m.by] = "committed"
  <1>1. marriages \subseteq MarriageRow /\ marriages' \subseteq MarriageRow
    BY DEF IInv, TypeOK
  <1>2. ASSUME NEW v \in Processes \ {w}
        PROVE  Engaged(v) => Engaged(v)'
    BY <1>1, <1>2 DEF Apart, Engaged
  <1>3. \A a \in Acceptors \ {w} : CallOK(a)'
    BY <1>2 DEF IInv, CallOK, Apart, Processes
  <1>4. \A r \in Rivals \ {w} : RivalOK(r)'
    BY <1>1, <1>2 DEF IInv, RivalOK, Apart, Processes
  <1>5. \A m \in MadeInTransactions' : m.by # w => pc'[m.by] = "committed"
    BY <1>1 DEF IInv, MadeInTransactions, Apart, Processes
  <1> QED
    BY <1>3, <1>4, <1>5

(* What an acceptor does is no rival's doing.                               *)
LEMMA SettlersKept ==
    ASSUME NEW a \in Acceptors, Apart(a)
    PROVE  Settlers' = Settlers
  BY RivalsAreNotAcceptors DEF Settlers, Apart, Processes

Hidden == UNCHANGED <<proposals, MadeInTransactions, Settlers>>

LEMMA RollbackStep ==
    ASSUME IInv, NEW a \in Acceptors, NEW from \in Labels \ {"committed"},
           NEW to \in {"refused", "rolledBack", "lost"},
           Rollback(a, from, to),
           \/ published' = published /\ (a \in published => to = "lost")
           \/ to = "lost" /\ published' \in {published, published \cup {a}}
    PROVE  IInv' /\ Hidden
  <1>1. /\ pc[a] = from /\ pc' = [pc EXCEPT ![a] = to] /\ locked' = Released(a)
        /\ UNCHANGED <<proposals, lapsed, marriages, job>>
    BY DEF Rollback, Moves
  <1>2. TypeOK /\ a \in Processes
    BY DEF IInv, Processes
  <1>3. /\ pc' \in [Processes -> Labels] /\ pc'[a] = to
        /\ \A w \in Processes : w # a => pc'[w] = pc[w]
    BY <1>1, <1>2 DEF TypeOK, Labels, Ended, Processes
  <1>4. TypeOK'
    BY <1>1, <1>2, <1>3, ReleasedRows DEF TypeOK, Holding, Processes
  <1>5. Apart(a)
    <2>1. \A v \in Processes \ {a} : v \in published' <=> v \in published
      OBVIOUS
    <2> QED
      BY <1>1, <1>3, <2>1 DEF Apart
  <1>6. CallOK(a)'
    <2>1. job'[a] = job[a] /\ pc'[a] = to /\ (a \in published' => to = "lost")
      BY <1>1, <1>3
    <2>2. job[a].outcome = "accepted"
      BY DEF IInv, CallOK
    <2> QED
      BY <2>1, <2>2 DEF CallOK
  <1>7. UNCHANGED MadeInTransactions /\ \A m \in MadeInTransactions : m.by # a
    BY <1>1 DEF IInv, MadeInTransactions
  <1>8. Hidden
    BY <1>1, <1>5, <1>7, SettlersKept DEF Hidden
  <1> QED
    BY <1>2, <1>4, <1>5, <1>6, <1>7, <1>8, OthersKept, RivalsAreNotAcceptors DEF IInv

(* A row is written, or a label left, inside the transaction.               *)
LEMMA InsideStep ==
    ASSUME IInv, NEW a \in Acceptors,
           Begin(a) \/ (Load(a) /\ CanRespond(job[a].of)) \/ SaveProposal(a)
             \/ CreateMarriage(a) \/ SaveMarriage(a) \/ Publish(a)
    PROVE  IInv' /\ Hidden
  <1>1. TypeOK /\ a \in Processes /\ job[a] \in Job /\ CallOK(a)
    BY DEF IInv, TypeOK, Processes
  <1>2. UNCHANGED <<proposals, lapsed, marriages>>
    BY DEF Begin, Load, SaveProposal, CreateMarriage, SaveMarriage, Publish
  <1>3. SUFFICES TypeOK' /\ Apart(a) /\ CallOK(a)' /\ pc[a] # "committed"
    <2>1. UNCHANGED MadeInTransactions /\ (pc[a] # "committed" => \A m \in MadeInTransactions : m.by # a)
      BY <1>2 DEF IInv, MadeInTransactions
    <2> QED
      BY <1>1, <1>2, <2>1, OthersKept, SettlersKept, RivalsAreNotAcceptors DEF IInv, Hidden
  <1>4. CASE Begin(a) \/ (Load(a) /\ CanRespond(job[a].of))
    <2>1. /\ pc[a] \notin Holding \cup Ended /\ pc'[a] \notin Holding \cup Ended
          /\ pc' \in [Processes -> Labels]
          /\ \A v \in Processes : v # a => pc'[v] = pc[v]
          /\ UNCHANGED <<published, locked, job>>
      BY <1>1, <1>4, MoveStep DEF Begin, Load, Holding, Ended, Labels
    <2>2. TypeOK'
      BY <1>1, <1>2, <2>1 DEF TypeOK, Processes
    <2>3. Apart(a) /\ CallOK(a)' /\ pc[a] # "committed"
      BY <1>1, <1>2, <2>1 DEF Apart, CallOK, Holding, Ended
    <2> QED
      BY <2>2, <2>3
  <1>5. CASE SaveProposal(a)
    <2>1. /\ pc[a] = "saveProposal" /\ pc'[a] = "createMarriage"
          /\ pc' \in [Processes -> Labels]
          /\ \A v \in Processes : v # a => pc'[v] = pc[v]
          /\ locked[job[a].of] = NoOne /\ locked' = [locked EXCEPT ![job[a].of] = a]
          /\ UNCHANGED <<published, job>>
      BY <1>1, <1>5, MoveStep DEF SaveProposal, Labels
    <2>2. job[a].of \in Proposals
      BY <1>1 DEF Job
    <2>3. TypeOK'
      BY <1>1, <1>2, <2>1, <2>2, NoOneIsNoAcceptor DEF TypeOK, Holding, Processes
    <2>4. Apart(a) /\ CallOK(a)'
      BY <1>1, <1>2, <2>1 DEF Apart, CallOK
    <2> QED
      BY <2>1, <2>3, <2>4
  <1>6. CASE CreateMarriage(a) \/ SaveMarriage(a)
    <2>1. /\ \/ pc[a] = "createMarriage" /\ pc'[a] = "saveMarriage"
             \/ pc[a] = "saveMarriage" /\ pc'[a] = "publish"
          /\ pc' \in [Processes -> Labels]
          /\ \A v \in Processes : v # a => pc'[v] = pc[v]
          /\ UNCHANGED <<published, locked>>
      BY <1>1, <1>6, MoveStep DEF CreateMarriage, SaveMarriage, Labels
    <2>2. PICK s \in {"proposed", "engaged"} :
            /\ job' = [job EXCEPT ![a].marriage = s]
            /\ pc'[a] = "publish" => s = "engaged"
      BY <1>6, <2>1 DEF CreateMarriage, SaveMarriage, Moves
    <2>3. /\ job'[a] = [job[a] EXCEPT !.marriage = s]
          /\ \A v \in Processes : v # a => job'[v] = job[v]
          /\ DOMAIN job' = Processes /\ job' = [v \in Processes |-> job'[v]]
      BY <1>1, <2>2 DEF TypeOK
    <2>4. /\ job'[a] \in Job /\ job'[a].of = job[a].of
          /\ job'[a].outcome = job[a].outcome /\ job'[a].marriage = s
      BY <1>1, <2>2, <2>3 DEF Job
    <2>5. job' \in [Processes -> Job]
      BY <1>1, <2>3, <2>4 DEF TypeOK
    <2>6. TypeOK'
      <3>1. \A b \in Acceptors, p \in Proposals :
              locked'[p] = b <=> pc'[b] \in Holding /\ job'[b].of = p
        <4>1. \A v \in Processes : job'[v].of = job[v].of
          BY <2>3, <2>4
        <4>2. \A v \in Processes : pc'[v] \in Holding <=> pc[v] \in Holding
          BY <2>1 DEF Holding
        <4> QED
          BY <1>1, <2>1, <4>1, <4>2 DEF TypeOK, Processes
      <3> QED
        BY <1>1, <1>2, <2>1, <2>5, <3>1 DEF TypeOK
    <2>7. Apart(a) /\ CallOK(a)'
      BY <1>1, <1>2, <2>1, <2>2, <2>3, <2>4 DEF Apart, CallOK
    <2> QED
      BY <2>1, <2>6, <2>7
  <1>7. CASE Publish(a)
    <2>1. /\ pc[a] = "publish" /\ pc'[a] = "commit"
          /\ pc' \in [Processes -> Labels]
          /\ \A v \in Processes : v # a => pc'[v] = pc[v]
          /\ published' = published \cup {a} /\ UNCHANGED <<locked, job>>
      BY <1>1, <1>7, MoveStep DEF Publish, Labels
    <2>2. TypeOK'
      BY <1>1, <1>2, <2>1 DEF TypeOK, Holding, Processes
    <2>3. Apart(a) /\ CallOK(a)'
      BY <1>1, <1>2, <2>1 DEF Apart, CallOK
    <2> QED
      BY <2>1, <2>2, <2>3
  <1> QED
    BY <1>4, <1>5, <1>6, <1>7

LEMMA CommitStep ==
    ASSUME IInv, NEW a \in Acceptors, Commit(a)
    PROVE  IInv' /\ Atomic!Accept(a, job[a].of)
  <1>1. TypeOK /\ a \in Processes /\ job[a] \in Job /\ job[a].of \in Proposals
    BY DEF IInv, TypeOK, Processes, Job
  <1> DEFINE p == job[a].of
             m == [by |-> a, of |-> p, status |-> "engaged"]
  <1>2. /\ pc[a] = "commit" /\ pc'[a] = "committed"
        /\ pc' \in [Processes -> Labels]
        /\ \A v \in Processes : v # a => pc'[v] = pc[v]
        /\ proposals' = [proposals EXCEPT ![p] = "accepted"]
        /\ locked' = Released(a) /\ UNCHANGED <<lapsed, published, job>>
    BY <1>1, MoveStep DEF Commit, Labels, Ended
  <1>3. marriages' = marriages \cup {m} /\ m \in MarriageRow
    BY <1>1, <1>2 DEF Commit, IInv, CallOK, MarriageRow
  <1>4. TypeOK'
    BY <1>1, <1>2, <1>3, ReleasedRows
    DEF TypeOK, Holding, Processes, ProposalStatus, Outcomes
  <1>5. m.by = a /\ m.of = p /\ m.status = "engaged"
    OBVIOUS
  <1> HIDE DEF m
  <1>6. Apart(a)
    BY <1>2, <1>3, <1>5 DEF Apart
  <1>7. CallOK(a)'
    BY <1>1, <1>2, <1>3, <1>5 DEF IInv, CallOK, Engaged
  <1>8. MadeInTransactions' = MadeInTransactions \cup {m}
    BY <1>3, <1>5 DEF MadeInTransactions
  <1>9. IInv'
    BY <1>1, <1>2, <1>4, <1>6, <1>7, OthersKept, RivalsAreNotAcceptors DEF IInv
  <1>10. \A x \in MadeInTransactions : x.by # a
    BY <1>2 DEF IInv
  <1> QED
    BY <1>2, <1>6, <1>8, <1>9, <1>10, SettlersKept DEF Atomic!Accept, Atomic!Engagement, m

(* Nothing of a transaction but its commit shows in the tables.             *)
LEMMA AcceptStep ==
    ASSUME IInv, NEW a \in Acceptors, Begin(a) \/ Accept(a)
    PROVE  IInv' /\ (Hidden \/ Atomic!Accept(a, job[a].of))
  <1>1. CASE Load(a) /\ ~CanRespond(job[a].of)
    <2>1. Rollback(a, "load", "refused") /\ published' = published /\ pc[a] = "load"
      BY <1>1 DEF Load, Rollback, Moves
    <2>2. a \notin published
      BY <2>1 DEF IInv, CallOK
    <2> QED
      BY <2>1, <2>2, RollbackStep DEF Labels, Ended
  <1>2. CASE Fail(a)
    <2>1. PICK here \in {"load", "saveProposal", "createMarriage", "saveMarriage"} :
             Rollback(a, here, "rolledBack") /\ published' = published
      BY <1>2 DEF Fail
    <2>2. a \notin published
      BY <2>1 DEF IInv, CallOK, Rollback, Moves
    <2> QED
      BY <2>1, <2>2, RollbackStep DEF Labels, Ended
  <1>3. CASE PublishFails(a)
    BY <1>3, RollbackStep DEF PublishFails, Labels, Ended
  <1>4. CASE CommitFails(a)
    BY <1>4, RollbackStep DEF CommitFails, Labels, Ended
  <1> QED
    BY <1>1, <1>2, <1>3, <1>4, InsideStep, CommitStep DEF Accept, GoOn

(* What a plain call leaves alone when it moves: the locks, its job, the    *)
(* rows and events of others.                                               *)
LEMMA RivalMoves ==
    ASSUME TypeOK, NEW r \in Rivals, BeginSettle(r) \/ Settle(r)
    PROVE  /\ pc' \in [Processes -> Labels]
           /\ \A v \in Processes : v # r => pc'[v] = pc[v]
           /\ published' \subseteq published \cup {r} /\ published \subseteq published'
           /\ UNCHANGED <<lapsed, locked, job>>
  <1>1. r \in Processes
    BY DEF Processes
  <1>2. CASE BeginSettle(r) \/ LoadRival(r) \/ SaveRival(r)
    BY <1>1, <1>2, MoveStep DEF BeginSettle, LoadRival, SaveRival, Labels, Ended
  <1>3. CASE CreateMarriageRival(r) \/ SaveMarriageRival(r) \/ PublishRival(r)
    BY <1>1, <1>3, MoveStep
    DEF CreateMarriageRival, SaveMarriageRival, PublishRival, Labels, Ended
  <1>4. CASE FailRival(r)
    <2>1. PICK from \in Labels, to \in {"failed", "torn"} : Moves(r, from, to)
      BY <1>4 DEF FailRival, Labels
    <2>2. /\ pc' \in [Processes -> Labels]
          /\ \A v \in Processes : v # r => pc'[v] = pc[v]
      BY <1>1, <2>1, MoveStep DEF Labels, Ended
    <2> QED
      BY <1>4, <2>2 DEF FailRival
  <1> QED
    BY <1>2, <1>3, <1>4 DEF Settle, GoOnRival

(* A plain acceptance writes marriages of its own, and the one it creates   *)
(* becomes the one it announces.                                            *)
LEMMA RivalMarries ==
    ASSUME IInv, NEW r \in Rivals, BeginSettle(r) \/ Settle(r)
    PROVE  /\ marriages' \subseteq MarriageRow
           /\ \A m \in MarriageRow : m.by # r => (m \in marriages' <=> m \in marriages)
           /\ RivalOK(r)'
  <1>1. /\ TypeOK /\ r \in Processes /\ r \notin Acceptors /\ RivalOK(r)
        /\ job[r] \in Job /\ job[r].of \in Proposals
    BY RivalsAreNotAcceptors DEF IInv, TypeOK, Processes, Job
  <1>2. job' = job
    BY <1>1, RivalMoves
  <1>3. CASE BeginSettle(r) \/ LoadRival(r) \/ SaveRival(r)
    <2>1. /\ UNCHANGED <<marriages, published>>
          /\ pc'[r] \notin {"saveMarriage", "publish"}
      BY <1>1, <1>3, MoveStep DEF BeginSettle, LoadRival, SaveRival, Labels, Ended
    <2> QED
      BY <1>1, <1>2, <2>1 DEF TypeOK, RivalOK, Engaged
  <1>4. CASE CreateMarriageRival(r)
    <2> DEFINE m == [by |-> r, of |-> job[r].of, status |-> "proposed"]
    <2>1. /\ marriages' = marriages \cup {m} /\ published' = published
          /\ pc'[r] = "saveMarriage"
      BY <1>1, <1>4, MoveStep DEF CreateMarriageRival, Labels
    <2>2. m \in MarriageRow /\ m.by = r /\ m.of = job[r].of
      BY <1>1 DEF MarriageRow
    <2> HIDE DEF m
    <2> QED
      BY <1>1, <1>2, <2>1, <2>2 DEF TypeOK, RivalOK, Engaged
  <1>5. CASE SaveMarriageRival(r)
    <2> DEFINE Settled(m) == IF m.by = r THEN [m EXCEPT !.status = "engaged"] ELSE m
    <2>1. /\ marriages' = {Settled(m) : m \in marriages} /\ published' = published
          /\ pc[r] = "saveMarriage" /\ pc'[r] = "publish"
      BY <1>1, <1>5, MoveStep DEF SaveMarriageRival, Labels
    <2>2. \A m \in MarriageRow :
            /\ Settled(m) \in MarriageRow
            /\ Settled(m).by = m.by /\ Settled(m).of = m.of
            /\ m.by = r => Settled(m).status = "engaged"
            /\ m.by # r => Settled(m) = m
      BY DEF MarriageRow
    <2> HIDE DEF Settled
    <2>3. marriages \subseteq MarriageRow
      BY <1>1 DEF TypeOK
    <2>4. Engaged(r)'
      <3>1. PICK m \in marriages : m.by = r /\ m.of = job[r].of
        BY <1>1, <2>1 DEF RivalOK
      <3> QED
        BY <1>2, <2>1, <2>2, <2>3, <3>1 DEF Engaged
    <2>5. \A m \in MarriageRow : m.by # r => (m \in marriages' <=> m \in marriages)
      BY <2>1, <2>2, <2>3
    <2>6. marriages' \subseteq MarriageRow
      BY <2>1, <2>2, <2>3
    <2> QED
      BY <2>1, <2>4, <2>5, <2>6 DEF RivalOK
  <1>6. CASE PublishRival(r) \/ FailRival(r)
    <2>1. /\ marriages' = marriages /\ pc'[r] \notin {"saveMarriage", "publish"}
          /\ r \in published' => r \in published \/ pc[r] = "publish"
      BY <1>1, <1>6, MoveStep DEF PublishRival, FailRival, Labels, Ended
    <2> QED
      BY <1>1, <1>2, <2>1 DEF TypeOK, RivalOK, Engaged
  <1> QED
    BY <1>3, <1>4, <1>5, <1>6 DEF Settle, GoOnRival

(* Of a plain call, its save of the proposal shows as a settlement.         *)
LEMMA RivalShows ==
    ASSUME TypeOK, NEW r \in Rivals, BeginSettle(r) \/ Settle(r)
    PROVE  /\ proposals' \in [Proposals -> ProposalStatus]
           /\ \/ UNCHANGED <<proposals, Settlers>>
              \/ /\ r \notin Settlers /\ Settlers' = Settlers \cup {r}
                 /\ proposals' = [proposals EXCEPT ![job[r].of] = job[r].outcome]
  <1> DEFINE Past == {"createMarriage", "saveMarriage", "publish", "settled", "torn"}
  <1>1. /\ r \in Processes
        /\ job[r] \in Job /\ job[r].of \in Proposals /\ job[r].outcome \in Outcomes
    BY DEF TypeOK, Processes, Job
  <1>2. \A v \in Rivals : v # r => pc'[v] = pc[v]
    BY RivalMoves DEF Processes
  <1>3. CASE SaveRival(r)
    <2>1. /\ pc[r] \notin Past /\ pc'[r] \in Past
          /\ proposals' = [proposals EXCEPT ![job[r].of] = job[r].outcome]
      BY <1>1, <1>3, MoveStep DEF SaveRival, Labels, Ended
    <2>2. r \notin Settlers /\ Settlers' = Settlers \cup {r}
      BY <1>2, <2>1 DEF Settlers
    <2> QED
      BY <1>1, <2>1, <2>2 DEF TypeOK, ProposalStatus
  <1>4. CASE BeginSettle(r) \/ (Settle(r) /\ ~SaveRival(r))
    <2>1. proposals' = proposals
      BY <1>4 DEF BeginSettle, Settle, GoOnRival, LoadRival, CreateMarriageRival, SaveMarriageRival,
                  PublishRival, FailRival
    <2>2. pc'[r] \in Past <=> pc[r] \in Past
      <3>1. CASE BeginSettle(r) \/ LoadRival(r) \/ FailRival(r)
        BY <1>1, <3>1, MoveStep DEF BeginSettle, LoadRival, FailRival, Labels, Ended
      <3>2. CASE CreateMarriageRival(r) \/ SaveMarriageRival(r) \/ PublishRival(r)
        BY <1>1, <3>2, MoveStep
        DEF CreateMarriageRival, SaveMarriageRival, PublishRival, Labels, Ended
      <3> QED
        BY <1>4, <3>1, <3>2 DEF Settle, GoOnRival
    <2>3. Settlers' = Settlers
      BY <1>2, <2>2 DEF Settlers
    <2> QED
      BY <2>1, <2>3 DEF TypeOK
  <1> QED
    BY <1>3, <1>4

LEMMA RivalStep ==
    ASSUME IInv, NEW r \in Rivals, BeginSettle(r) \/ Settle(r)
    PROVE  IInv' /\ (Hidden \/ Atomic!Settle(r, job[r].of, job[r].outcome))
  <1>1. TypeOK /\ r \in Processes /\ r \notin Acceptors
    BY RivalsAreNotAcceptors DEF IInv, Processes
  <1>2. /\ pc' \in [Processes -> Labels]
        /\ \A v \in Processes : v # r => pc'[v] = pc[v]
        /\ published' \subseteq published \cup {r} /\ published \subseteq published'
        /\ UNCHANGED <<lapsed, locked, job>>
    BY <1>1, RivalMoves
  <1>3. /\ marriages' \subseteq MarriageRow
        /\ \A m \in MarriageRow : m.by # r => (m \in marriages' <=> m \in marriages)
        /\ RivalOK(r)'
    BY RivalMarries
  <1>4. Apart(r)
    BY <1>2, <1>3 DEF Apart
  <1>5. proposals' \in [Proposals -> ProposalStatus]
    BY <1>1, RivalShows
  <1>6. TypeOK'
    BY <1>1, <1>2, <1>3, <1>5 DEF TypeOK, Processes
  <1>7. MadeInTransactions' = MadeInTransactions
    <2>1. marriages \subseteq MarriageRow
      BY <1>1 DEF TypeOK
    <2> QED
      BY <1>1, <1>3, <2>1 DEF MadeInTransactions
  <1>8. IInv'
    <2>1. \A m \in MadeInTransactions' : m.by # r
      BY <1>1 DEF MadeInTransactions
    <2> QED
      BY <1>1, <1>3, <1>4, <1>6, <2>1, OthersKept DEF IInv
  <1> QED
    BY <1>1, <1>7, <1>8, RivalShows DEF Hidden, Atomic!Settle

LEMMA NextStep ==
    ASSUME IInv, [Next]_vars
    PROVE  IInv' /\ [Atomic!Next]_<<proposals, MadeInTransactions, Settlers>>
  <1>1. CASE \E a \in Acceptors : Begin(a) \/ Accept(a)
    <2>1. PICK a \in Acceptors : Begin(a) \/ Accept(a)
      BY <1>1
    <2>2. job[a].of \in Proposals
      BY DEF IInv, TypeOK, Job, Processes
    <2> QED
      BY <2>1, <2>2, AcceptStep DEF Atomic!Next, Hidden
  <1>2. CASE \E r \in Rivals : BeginSettle(r) \/ Settle(r)
    <2>1. PICK r \in Rivals : BeginSettle(r) \/ Settle(r)
      BY <1>2
    <2>2. job[r].of \in Proposals /\ job[r].outcome \in Outcomes
      BY DEF IInv, TypeOK, Job, Processes
    <2> QED
      BY <2>1, <2>2, RivalStep DEF Atomic!Next, Hidden
  <1>3. CASE Lapse \/ UNCHANGED vars
    <2>1. /\ lapsed' \subseteq Proposals
          /\ UNCHANGED <<proposals, marriages, published, locked, pc, job>>
      BY <1>3 DEF Lapse, vars, IInv, TypeOK
    <2>2. UNCHANGED <<MadeInTransactions, Settlers>>
      BY <2>1 DEF MadeInTransactions, Settlers
    <2> QED
      BY <2>1, <2>2 DEF IInv, TypeOK, CallOK, RivalOK, Engaged
  <1> QED
    BY <1>1, <1>2, <1>3 DEF Next

LEMMA InitOK == Init => IInv /\ Atomic!Init
  <1> SUFFICES ASSUME Init PROVE IInv /\ Atomic!Init
    OBVIOUS
  <1>1. TypeOK
    BY NoOneIsNoAcceptor DEF Init, TypeOK, ProposalStatus, Labels, Holding, Processes
  <1>2. MadeInTransactions = {} /\ Settlers = {}
    BY DEF Init, MadeInTransactions, Settlers, Processes
  <1>3. \A a \in Acceptors : CallOK(a)
    BY DEF Init, CallOK, Processes
  <1>4. \A r \in Rivals : RivalOK(r)
    BY DEF Init, RivalOK, Processes
  <1> QED
    BY <1>1, <1>2, <1>3, <1>4 DEF Init, IInv, Atomic!Init

LEMMA IInvHolds == Spec => []IInv
  BY InitOK, NextStep, PTL DEF Spec

(* A row is locked exactly while a call that has written it has not ended,  *)
(* on every way a call can end.                                             *)
THEOREM LocksAreReleased == Spec => []TypeOK
  <1>1. IInv => TypeOK
    BY DEF IInv
  <1> QED
    BY <1>1, IInvHolds, PTL

(* An acceptance in a transaction is atomic for whoever reads the tables,   *)
(* whatever plain calls, acceptances too, write one by one beside it:       *)
(* TransactionalAcceptance implements AtomicAcceptance.                     *)
THEOREM AcceptanceIsAtomic == Spec => AllOrNothing
  BY InitOK, NextStep, IInvHolds, PTL DEF Spec, AllOrNothing, Atomic!Spec

(* What a transaction has put in the table has been announced, and what was *)
(* announced is in the table unless a transaction failed at publishing or   *)
(* committing.                                                              *)
THEOREM EngagementsAreAnnounced == Spec => []StoredIsAnnounced
  <1>1. IInv => StoredIsAnnounced
    <2> SUFFICES ASSUME IInv PROVE StoredIsAnnounced
      OBVIOUS
    <2>1. \A m \in MadeInTransactions : m.by \in published
      BY DEF IInv, CallOK, MadeInTransactions
    <2>2. ASSUME NEW w \in published, pc[w] \in Ended \ {"lost"}
          PROVE  Engaged(w)
      BY <2>2 DEF IInv, TypeOK, CallOK, RivalOK, Ended, Processes
    <2> QED
      BY <2>1, <2>2 DEF StoredIsAnnounced
  <1> QED
    BY <1>1, IInvHolds, PTL
=============================================================================
