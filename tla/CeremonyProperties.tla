-------------------------- MODULE CeremonyProperties --------------------------
(****************************************************************************)
(* What Ceremonies is to satisfy.  "Replicas" is any number of handlers and *)
(* sweepers, "serial" is one handler and no sweeper in between.             *)
(****************************************************************************)
EXTENDS Ceremonies

(* Replicas.  Every variable keeps its type.                                *)
TypeOK ==
    /\ now \in Nat
    /\ marriages \in Seq(Register!Row)
    /\ ceremonies \in Seq(CeremonyRow)
    /\ announced \in [1..MaxCeremonies -> CeremonyStatus \cup {"unannounced"}]
    /\ pc \in [Processes -> Labels]
    /\ job \in [Processes -> Job]
    /\ todo \in [Sweepers -> SUBSET Nat]
    /\ faults \in 0..MaxFaults

(* Replicas.  Racing handlers may overwrite each other's work, but never    *)
(* leave a row whose status, timestamps and guests do not fit together and  *)
(* that no handler could load any more; and a row that was refused when it  *)
(* was made stays out of reach.  (Build, and UpdateCeremony's whole rows.)  *)
LoadableForGood ==
    [][ \A i \in DOMAIN ceremonies :
          Loadable(ceremonies[i]) <=> Loadable(ceremonies'[i]) ]_ceremonies

(* Replicas.  The topic knows of no ceremony that cannot be loaded: a row   *)
(* that was refused when it was made is never heard of, and no later save   *)
(* spoils one that was announced.  (the AndEmit handlers)                   *)
AnnouncedIsLoadable ==
    \A i \in 1..MaxCeremonies :
        announced[i] # "unannounced" => i \in DOMAIN ceremonies /\ Loadable(ceremonies[i])

(* The transitions of CeremonyState, which the handlers do not consult.     *)
CanTransitionTo(s, t) ==
    \/ s = "scheduled" /\ t \in {"active", "cancelled"}
    \/ s = "active"    /\ t \in {"completed", "cancelled", "postponed"}
    \/ s = "postponed" /\ t \in {"scheduled", "active", "cancelled"}

(* Serial.  The guards of the operations add up to the transitions that     *)
(* state.go allows.                                                         *)
CeremonyTransitions ==
    [][ \A i \in DOMAIN ceremonies :
          LET s == ceremonies[i].status t == ceremonies'[i].status IN
          s # t => CanTransitionTo(s, t) ]_ceremonies

(* Serial, no failures.  When no handler is running, whoever follows the    *)
(* topic knows the status of every ceremony that can be loaded.             *)
AnnouncedIsCurrent ==
    faults = 0 /\ (\A w \in Processes : pc[w] = "idle") =>
        \A i \in DOMAIN ceremonies :
            Loadable(ceremonies[i]) => announced[i] = ceremonies[i].status

OfCouple(m, couple) ==
    /\ m \in DOMAIN marriages
    /\ couple = Register!Partners(marriages[m])
    /\ marriages[m].status \in {"engaged", "divorced"}

(* Replicas.  A ceremony is for a couple whose acceptance got as far as the *)
(* engagement, and names its two partners, although the marriage is read    *)
(* statements before the ceremony is inserted and may end in between.       *)
(* (ScheduleCeremony)                                                       *)
WeddingsOfCouples ==
    \A i \in DOMAIN ceremonies : OfCouple(ceremonies[i].marriage, ceremonies[i].couple)

RunsOn(i) == i \in DOMAIN ceremonies /\ TimedOut(ceremonies[i])

(* Replicas, fair sweepers.  A ceremony does not run on past the timeout,   *)
(* in spite of failing statements, restarts and commands in between.        *)
(* (CeremonyTimeoutScheduler, ProcessCeremonyTimeouts)                      *)
TimedOutIsPostponed ==
    \A i \in 1..MaxCeremonies : RunsOn(i) ~> ~RunsOn(i)
=============================================================================
