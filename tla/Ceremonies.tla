------------------------------ MODULE Ceremonies ------------------------------
(****************************************************************************)
(* Wedding ceremonies, as the marriage service keeps them: one table, read  *)
(* and written a row at a time by command handlers and by the timeout       *)
(* sweepers of several replicas, with nothing that spans two statements.    *)
(*                                                                          *)
(* A row has one nullable timestamp per status; `stamps` says which are     *)
(* set, and only the value of the start, which the timeout is measured      *)
(* from, is kept.  scheduledAt is read by no operation and is left out, and *)
(* so is the error event that answers a refused or failed command.          *)
(* Commands of the two partners, and of anyone else, have different keys:   *)
(* any of them may be handled at the same time as any other.                *)
(*                                                                          *)
(* The table marriages belongs to the handlers of Proposals.  Here it is    *)
(* whatever MarriageRegister lets it be.                                    *)
(****************************************************************************)
EXTENDS Integers, Sequences, FiniteSets, Functions, SequencesExt

CONSTANTS
    Characters,        \* the characters of one tenant
    Couples,           \* the <<partner, partner>> pairs that may marry
    InviteeLists,      \* the guest lists schedule commands come with
    Workers,           \* slots for message handlers, over all replicas
    Sweepers,          \* timeout schedulers, one per replica
    NoOne, NoRow,      \* placeholders in an idle process
    MaxInvitees, DisconnectionTimeout,
    MaxTime, MaxMarriages, MaxCeremonies, MaxFaults      \* bounds of the model

Processes == Workers \cup Sweepers

ASSUME CouplesAreCharacters == Couples \subseteq Characters \X Characters
ASSUME InviteesAreCharacters == InviteeLists \subseteq Seq(Characters)
ASSUME SweepersAreNotWorkers == Workers \cap Sweepers = {}
ASSUME LimitsAreNat == MaxInvitees \in Nat /\ DisconnectionTimeout \in Nat
ASSUME BoundsAreNat == MaxTime \in Nat /\ MaxCeremonies \in Nat /\ MaxFaults \in Nat

VARIABLES
    now,         \* the clock every replica reads
    marriages,   \* table marriages
    ceremonies,  \* table ceremonies
    announced,   \* the last status the event topic has for each ceremony
    pc,          \* where each process is
    job,         \* what each process holds in memory
    todo,        \* rows a sweeper has queried and not yet taken up
    faults       \* failures so far, bounded by MaxFaults

vars == <<now, marriages, ceremonies, announced, pc, job, todo, faults>>

Register == INSTANCE MarriageRegister

----------------------------------------------------------------------------
(* Rows and jobs                                                            *)

CeremonyStatus == {"scheduled", "active", "completed", "cancelled", "postponed"}
Stamps == {"started", "completed", "cancelled", "postponed"}

CeremonyRow ==
    [ marriage : Nat, couple : SUBSET Characters, status : CeremonyStatus,
      stamps : SUBSET Stamps, startedAt : Nat, invitees : Seq(Characters) ]

GuestOps == {"addInvitee", "removeInvitee"}
Commands == GuestOps \cup {"start", "complete", "cancel", "postpone", "reschedule"}

Job ==
    [ op : Commands \cup {"schedule", "none"}, cid : Nat,
      marriage : Nat, couple : SUBSET Characters, guests : Seq(Characters),
      guest : Characters \cup {NoOne}, draft : CeremonyRow \cup {NoRow} ]

NewJob(op, cid, guest) ==
    [ op |-> op, cid |-> cid, marriage |-> 0, couple |-> {}, guests |-> << >>,
      guest |-> guest, draft |-> NoRow ]

ScheduleJob(m, guests) ==
    [ op |-> "schedule", cid |-> 0, marriage |-> m, couple |-> {}, guests |-> guests,
      guest |-> NoOne, draft |-> NoRow ]

NoJob == NewJob("none", 0, NoOne)

Labels == {"idle", "loadMarriage", "insert", "loadCeremony", "saveCeremony", "emit"}

----------------------------------------------------------------------------
(* The rules of Build: what a row must satisfy to be read or saved          *)

Required ==
    [ scheduled |-> {}, active |-> {"started"}, completed |-> {"started", "completed"},
      cancelled |-> {"cancelled"}, postponed |-> {"postponed"} ]

Forbidden ==
    [ scheduled |-> Stamps, active |-> {"completed", "cancelled"},
      completed |-> {"cancelled"}, cancelled |-> {"completed"},
      postponed |-> {"completed", "cancelled"} ]

StampsFit(c) ==
    /\ Required[c.status] \subseteq c.stamps
    /\ c.stamps \cap Forbidden[c.status] = {}

GuestsFit(c) ==
    /\ Len(c.invitees) <= MaxInvitees
    /\ Range(c.invitees) \cap c.couple = {}
    /\ IsInjective(c.invitees)

Loadable(c) == StampsFit(c) /\ GuestsFit(c)

(* The operations: which status they start from, which they lead to, which  *)
(* timestamp they set.                                                      *)
From ==
    [ start         |-> {"scheduled", "postponed"},
      complete      |-> {"active"},
      cancel        |-> {"scheduled", "active", "postponed"},
      postpone      |-> {"active"},
      reschedule    |-> {"scheduled", "postponed"},
      addInvitee    |-> {"scheduled", "postponed"},
      removeInvitee |-> {"scheduled", "postponed"} ]

To ==
    [ schedule |-> "scheduled", start |-> "active", complete |-> "completed",
      cancel |-> "cancelled", postpone |-> "postponed", reschedule |-> "scheduled" ]

Stamp ==
    [start |-> "started", complete |-> "completed", cancel |-> "cancelled", postpone |-> "postponed"]

StampsAfter(op, stamps) ==
    IF op \in GuestOps THEN stamps
    ELSE IF op = "reschedule" THEN stamps \ {"started", "postponed"}
    ELSE stamps \cup {Stamp[op]}

(* Mutant: the shortened list is made with a length instead of a capacity,  *)
(* and starts with zero ids.                                                *)
InviteesAfter_Mutant(op, guest, invitees) ==
    IF op = "addInvitee" THEN Append(invitees, guest)
    ELSE IF op = "removeInvitee"
    THEN [k \in 1..(Len(invitees) - 1) |-> NoOne] \o
         RemoveAt(invitees, CHOOSE k \in DOMAIN invitees : invitees[k] = guest)
    ELSE invitees

(* RemoveInvitee drops every occurrence; a list that was loaded has one.    *)
InviteesAfter(op, guest, invitees) ==
    IF op = "addInvitee" THEN Append(invitees, guest)
    ELSE IF op = "removeInvitee"
    THEN RemoveAt(invitees, CHOOSE k \in DOMAIN invitees : invitees[k] = guest)
    ELSE invitees

Transformed(j, c) ==
    [ marriage  |-> c.marriage,
      couple    |-> c.couple,
      status    |-> IF j.op \in GuestOps THEN c.status ELSE To[j.op],
      stamps    |-> StampsAfter(j.op, c.stamps),
      startedAt |-> IF j.op = "start" THEN now
                    ELSE IF j.op = "reschedule" THEN 0 ELSE c.startedAt,
      invitees  |-> InviteesAfter(j.op, j.guest, c.invitees) ]

(* CanAddInvitee and CanRemoveInvitee *)
GuestAllowed(j, c) ==
    /\ j.op = "addInvitee" =>
          /\ Len(c.invitees) < MaxInvitees
          /\ j.guest \notin c.couple \cup Range(c.invitees)
    /\ j.op = "removeInvitee" => j.guest \in Range(c.invitees)

(* Mutant: a finished ceremony can be rescheduled. *)
MayTransform_Mutant(j, c) ==
    /\ Loadable(c)
    /\ j.op = "reschedule" \/ c.status \in From[j.op]
    /\ GuestAllowed(j, c)
    /\ j.op = "reschedule" \/ Loadable(Transformed(j, c))

MayTransform(j, c) ==
    /\ Loadable(c)
    /\ c.status \in From[j.op]
    /\ GuestAllowed(j, c)
    /\ Loadable(Transformed(j, c))

----------------------------------------------------------------------------
Init ==
    /\ now = 0
    /\ Register!Init
    /\ ceremonies = << >>
    /\ announced = [i \in 1..MaxCeremonies |-> "unannounced"]
    /\ pc = [w \in Processes |-> "idle"]
    /\ job = [w \in Processes |-> NoJob]
    /\ todo = [s \in Sweepers |-> {}]
    /\ faults = 0

Goto(w, label) == pc' = [pc EXCEPT ![w] = label]

Enter(w, label, j) ==
    /\ pc[w] = "idle"
    /\ Goto(w, label)
    /\ job' = [job EXCEPT ![w] = j]
    /\ UNCHANGED <<now, marriages, ceremonies, announced, todo, faults>>

Finish(w) ==
    /\ Goto(w, "idle")
    /\ job' = [job EXCEPT ![w] = NoJob]

InFlight(op) == {w \in Workers : job[w].op = op}

(* What the handlers of Proposals do to the table marriages meanwhile.      *)
MarriagesMove ==
    /\ Register!Next
    /\ Len(marriages') <= MaxMarriages
    /\ UNCHANGED <<now, ceremonies, announced, pc, job, todo, faults>>

----------------------------------------------------------------------------
(* Schedule.  A list of too many guests is refused at once.                 *)

BeginSchedule(w) ==
    \E m \in DOMAIN marriages, guests \in InviteeLists :
        /\ Len(guests) <= MaxInvitees
        /\ Len(ceremonies) + Cardinality(InFlight("schedule")) < MaxCeremonies
        /\ Enter(w, "loadMarriage", ScheduleJob(m, guests))

(* Mutant: the marriage only has to exist. *)
LoadMarriage_Mutant(w) ==
    /\ pc[w] = "loadMarriage"
    /\ job' = [job EXCEPT ![w].couple = Register!Partners(marriages[job[w].marriage])]
    /\ Goto(w, "insert")
    /\ UNCHANGED <<now, marriages, ceremonies, announced, todo, faults>>

(* The partners the new row names are those of the marriage as read here.   *)
LoadMarriage(w) ==
    LET m == marriages[job[w].marriage] IN
    /\ pc[w] = "loadMarriage"
    /\ IF m.status = "engaged"
       THEN /\ job' = [job EXCEPT ![w].couple = Register!Partners(m)]
            /\ Goto(w, "insert")
       ELSE Finish(w)
    /\ UNCHANGED <<now, marriages, ceremonies, announced, todo, faults>>

NewCeremony(j) ==
    [ marriage |-> j.marriage, couple |-> j.couple, status |-> "scheduled", stamps |-> {},
      startedAt |-> 0, invitees |-> j.guests ]

(* Mutant: the event is published before the row is validated. *)
InsertCeremony_Mutant(w) ==
    /\ pc[w] = "insert"
    /\ ceremonies' = Append(ceremonies, NewCeremony(job[w]))
    /\ job' = [job EXCEPT ![w].cid = Len(ceremonies) + 1]
    /\ Goto(w, "emit")
    /\ UNCHANGED <<now, marriages, announced, todo, faults>>

(* The row is inserted first and validated afterwards.                      *)
InsertCeremony(w) ==
    LET c == NewCeremony(job[w]) IN
    /\ pc[w] = "insert"
    /\ ceremonies' = Append(ceremonies, c)
    /\ IF Loadable(c)
       THEN /\ job' = [job EXCEPT ![w].cid = Len(ceremonies) + 1]
            /\ Goto(w, "emit")
       ELSE Finish(w)
    /\ UNCHANGED <<now, marriages, announced, todo, faults>>

----------------------------------------------------------------------------
(* Start, complete, cancel, postpone, reschedule and the guest list: load   *)
(* the row, save the transformed copy, publish.                             *)

BeginCommand(w) ==
    \E op \in Commands, i \in DOMAIN ceremonies :
        \E guest \in IF op \in GuestOps THEN Characters ELSE {NoOne} :
            Enter(w, "loadCeremony", NewJob(op, i, guest))

(* AdvanceCeremonyState does the same under the name of the status to reach *)
(* and refuses every other name.                                            *)
AdvanceOp ==
    [active |-> "start", completed |-> "complete", cancelled |-> "cancel", postponed |-> "postpone"]

BeginAdvance(w) ==
    \E nextState \in DOMAIN AdvanceOp, i \in DOMAIN ceremonies :
        Enter(w, "loadCeremony", NewJob(AdvanceOp[nextState], i, NoOne))

LoadCeremony(w) ==
    LET c == ceremonies[job[w].cid] IN
    /\ pc[w] = "loadCeremony"
    /\ IF MayTransform(job[w], c)
       THEN /\ job' = [job EXCEPT ![w].draft = Transformed(job[w], c)]
            /\ Goto(w, "saveCeremony")
       ELSE Finish(w)
    /\ UNCHANGED <<now, marriages, ceremonies, announced, todo, faults>>

(* Mutant: the update writes the status column only. *)
SaveCeremony_Mutant(w) ==
    /\ pc[w] = "saveCeremony"
    /\ ceremonies' = [ceremonies EXCEPT ![job[w].cid].status = job[w].draft.status]
    /\ Goto(w, "emit")
    /\ UNCHANGED <<now, marriages, announced, job, todo, faults>>

SaveCeremony(w) ==
    /\ pc[w] = "saveCeremony"
    /\ ceremonies' = [ceremonies EXCEPT ![job[w].cid] = job[w].draft]
    /\ Goto(w, "emit")
    /\ UNCHANGED <<now, marriages, announced, job, todo, faults>>

(* Mutant: the event of a rescheduled ceremony is missing. *)
Emit_Mutant(w) ==
    /\ pc[w] = "emit"
    /\ announced' = IF job[w].op \in GuestOps \cup {"reschedule"} THEN announced
                    ELSE [announced EXCEPT ![job[w].cid] = To[job[w].op]]
    /\ Finish(w)
    /\ UNCHANGED <<now, marriages, ceremonies, todo, faults>>

(* The event of an operation names the status it has led to; those about    *)
(* guests name none.                                                        *)
Emit(w) ==
    /\ pc[w] = "emit"
    /\ announced' = IF job[w].op \in GuestOps THEN announced
                    ELSE [announced EXCEPT ![job[w].cid] = To[job[w].op]]
    /\ Finish(w)
    /\ UNCHANGED <<now, marriages, ceremonies, todo, faults>>

----------------------------------------------------------------------------
(* The sweep: one query for the ceremonies that run for longer than the     *)
(* timeout, then one postponement per row.  Nothing in the query or in the  *)
(* postponement asks who is connected.                                      *)

TimedOut(c) == c.status = "active" /\ now > c.startedAt + DisconnectionTimeout

(* Mutant: the query compares with the wrong column and finds nothing. *)
TimeoutCeremonies_Mutant == {i \in DOMAIN ceremonies : FALSE}

TimeoutCeremonies == {i \in DOMAIN ceremonies : TimedOut(ceremonies[i])}

SweepQuery(s) ==
    /\ pc[s] = "idle" /\ todo[s] = {}
    /\ \A i \in TimeoutCeremonies : Loadable(ceremonies[i])
    /\ todo' = [todo EXCEPT ![s] = TimeoutCeremonies]
    /\ UNCHANGED <<now, marriages, ceremonies, announced, pc, job, faults>>

(* The rows come in the order of the starts the query has read, which later *)
(* restarts may have changed: any order is possible.                        *)
SweepNext(s) ==
    \E i \in todo[s] :
        /\ pc[s] = "idle"
        /\ todo' = [todo EXCEPT ![s] = @ \ {i}]
        /\ job' = [job EXCEPT ![s] = NewJob("postpone", i, NoOne)]
        /\ Goto(s, "loadCeremony")
        /\ UNCHANGED <<now, marriages, ceremonies, announced, faults>>

----------------------------------------------------------------------------
(* A statement or a publication fails, or the replica stops: the process    *)
(* does nothing more, and nothing it has written is undone.                 *)

Abort(w) ==
    /\ pc[w] # "idle"
    /\ faults < MaxFaults
    /\ faults' = faults + 1
    /\ Finish(w)
    /\ UNCHANGED <<now, marriages, ceremonies, announced, todo>>

CrashSweep(s) ==
    /\ faults < MaxFaults
    /\ faults' = faults + 1
    /\ Finish(s)
    /\ todo' = [todo EXCEPT ![s] = {}]
    /\ UNCHANGED <<now, marriages, ceremonies, announced>>

Tick ==
    /\ now < MaxTime
    /\ now' = now + 1
    /\ UNCHANGED <<marriages, ceremonies, announced, pc, job, todo, faults>>

----------------------------------------------------------------------------
Begin(w) == BeginSchedule(w) \/ BeginCommand(w) \/ BeginAdvance(w)

Statement(w) ==
    \/ LoadMarriage(w) \/ InsertCeremony(w)
    \/ LoadCeremony(w) \/ SaveCeremony(w) \/ Emit(w)

SweepStep(s) == SweepQuery(s) \/ SweepNext(s) \/ Statement(s)

Work ==
    \/ \E w \in Workers : Begin(w) \/ Statement(w) \/ Abort(w)
    \/ \E s \in Sweepers : SweepStep(s) \/ Abort(s) \/ CrashSweep(s)

Next == Work \/ MarriagesMove \/ Tick

Spec == Init /\ [][Next]_vars

(* The scheduler's ticker keeps starting sweeps, and a sweep that runs      *)
(* reaches its end.                                                         *)
FairSpec == Spec /\ \A s \in Sweepers : WF_vars(SweepStep(s))
=============================================================================
