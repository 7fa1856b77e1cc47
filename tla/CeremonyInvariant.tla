-------------------------- MODULE CeremonyInvariant --------------------------
(****************************************************************************)
(* The inductive invariant behind the theorems about Ceremonies: what a     *)
(* process holds in memory, statement by statement, while other processes   *)
(* keep changing the table.                                                 *)
(****************************************************************************)
EXTENDS CeremonyProperties

(* A handler between two statements of ScheduleCeremony.  The couple it has *)
(* read is that of the marriage for good.                                   *)
ScheduleJobOK(w) ==
    pc[w] \in {"loadMarriage", "insert"} =>
        /\ job[w].op = "schedule"
        /\ job[w].marriage \in DOMAIN marriages
        /\ pc[w] = "insert" => OfCouple(job[w].marriage, job[w].couple)

SameCouple(c, d) == c.marriage = d.marriage /\ c.couple = d.couple

(* A process with a ceremony in hand.  The row it is about to overwrite, or *)
(* to announce, can be loaded, and so can what it is about to write.        *)
CommandJobOK(w) ==
    /\ pc[w] \in {"loadCeremony", "saveCeremony"} => job[w].op \in Commands
    /\ pc[w] = "loadCeremony" /\ job[w].op = "addInvitee" => job[w].guest \in Characters
    /\ pc[w] \in {"loadCeremony", "saveCeremony", "emit"} => job[w].cid \in DOMAIN ceremonies
    /\ pc[w] \in {"saveCeremony", "emit"} => Loadable(ceremonies[job[w].cid])
    /\ pc[w] = "saveCeremony" =>
          /\ job[w].draft \in CeremonyRow /\ Loadable(job[w].draft)
          /\ SameCouple(job[w].draft, ceremonies[job[w].cid])
    /\ pc[w] = "emit" => job[w].op # "none"

JobOK(w) == ScheduleJobOK(w) /\ CommandJobOK(w)

JobsOK == \A w \in Processes : JobOK(w)

(* A sweeper takes up rows that exist.                                      *)
TodosOK == \A s \in Sweepers : todo[s] \subseteq DOMAIN ceremonies

(* What any step does to the table: rows stay, stay loadable or not, and    *)
(* stay with their couple.                                                  *)
TableKept ==
    /\ DOMAIN ceremonies \subseteq DOMAIN ceremonies'
    /\ \A i \in DOMAIN ceremonies :
          /\ Loadable(ceremonies[i]) <=> Loadable(ceremonies'[i])
          /\ SameCouple(ceremonies[i], ceremonies'[i])

(* What the register lets happen to the table marriages.                    *)
MarriagesKept ==
    /\ DOMAIN marriages \subseteq DOMAIN marriages'
    /\ \A m \in DOMAIN marriages :
          /\ Register!Partners(marriages'[m]) = Register!Partners(marriages[m])
          /\ marriages[m].status \in {"engaged", "divorced"} =>
                marriages'[m].status \in {"engaged", "divorced"}

(* A step of one process.                                                   *)
OnlyMoves(w) ==
    \A v \in Processes \ {w} : pc'[v] = pc[v] /\ job'[v] = job[v]

IInv == TypeOK /\ JobsOK /\ TodosOK /\ AnnouncedIsLoadable /\ WeddingsOfCouples
----------------------------------------------------------------------------
(* One process: a handler without sweepers, say.  What a command has loaded *)
(* is still so when it is saved and announced.                              *)
OneProcess == \A v, w \in Processes : v = w

StatusAfter(op, status) == IF op \in GuestOps THEN status ELSE To[op]

DraftFromRow ==
    \A w \in Processes : pc[w] = "saveCeremony" =>
        LET op == job[w].op status == ceremonies[job[w].cid].status IN
        status \in From[op] /\ job[w].draft.status = StatusAfter(op, status)

(* There is an entry of the topic for every row.                            *)
RoomInv ==
    /\ Len(ceremonies) <= MaxCeremonies
    /\ \A w \in Processes :
          pc[w] \in {"loadMarriage", "insert"} => Len(ceremonies) < MaxCeremonies

Announces(w, i) == pc[w] = "emit" /\ job[w].cid = i /\ job[w].op \notin GuestOps

(* Unless something fails, the topic is behind only on the ceremony whose   *)
(* handler is about to announce it.                                         *)
TopicInv ==
    /\ \A w \in Processes : \A i \in DOMAIN ceremonies :
          Announces(w, i) => ceremonies[i].status = To[job[w].op]
    /\ faults = 0 =>
          \A i \in DOMAIN ceremonies : Loadable(ceremonies[i]) =>
              \/ announced[i] = ceremonies[i].status
              \/ \E w \in Processes : Announces(w, i)

SerialInv == DraftFromRow /\ RoomInv /\ TopicInv
=============================================================================
