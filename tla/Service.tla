------------------------------- MODULE Service -------------------------------
(****************************************************************************)
(* The whole service: the handlers and sweepers of Proposals and those of   *)
(* Ceremonies, at work on one database under one clock.  What they share is *)
(* the table marriages: written by the former, read by the latter.  No lock *)
(* and no transaction connects the two sides.                               *)
(*                                                                          *)
(* The proposal side goes by the names of Proposals, the ceremony side by   *)
(* those of Ceremonies behind C!.                                           *)
(****************************************************************************)
EXTENDS Proposals

CONSTANTS
    InviteeLists,                          \* as in Ceremonies
    CeremonyWorkers, CeremonySweepers,     \* the processes of the ceremony side
    MaxInvitees, DisconnectionTimeout,
    MaxCeremonies, MaxCeremonyFaults       \* bounds of the model

VARIABLES
    ceremonies, announced, ceremonyPc, ceremonyJob, ceremonyTodo, ceremonyFaults

proposalSide == <<proposals, published, pc, job, todo, faults>>
ceremonySide == <<ceremonies, announced, ceremonyPc, ceremonyJob, ceremonyTodo, ceremonyFaults>>
serviceVars == <<now, marriages, proposalSide, ceremonySide>>

(* Any two characters may turn out to be a couple.                          *)
Couples == {r \in Characters \X Characters : r[1] # r[2]}

C == INSTANCE Ceremonies WITH
    Workers <- CeremonyWorkers, Sweepers <- CeremonySweepers, MaxFaults <- MaxCeremonyFaults,
    pc <- ceremonyPc, job <- ceremonyJob, todo <- ceremonyTodo, faults <- ceremonyFaults

----------------------------------------------------------------------------
ServiceInit == Init /\ C!Init

ProposalStep == Work /\ UNCHANGED ceremonySide

CeremonyStep == C!Work /\ UNCHANGED proposalSide

ServiceTick == Tick /\ C!Tick

ServiceNext == ProposalStep \/ CeremonyStep \/ ServiceTick

ServiceSpec == ServiceInit /\ [][ServiceNext]_serviceVars
=============================================================================
