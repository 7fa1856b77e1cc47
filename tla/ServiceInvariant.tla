--------------------------- MODULE ServiceInvariant ---------------------------
(****************************************************************************)
(* The inductive invariant behind the theorems about Service, beside that   *)
(* of Proposals: how many marriages are still to come, and which couples    *)
(* the ceremony side has in its table and in the memory of its processes.   *)
(****************************************************************************)
EXTENDS ServiceProperties, ProposalInvariant

(* Acceptances that may still insert a marriage.                            *)
Committed ==
    {w \in Workers : /\ job[w].op = "accept"
                     /\ pc[w] \in {"loadProposal", "saveProposal", "createMarriage"}}

MarriageRoom == Len(marriages) + Cardinality(Committed) <= MaxMarriages

(* A row, a draft or a job that names a marriage which got as far as the    *)
(* engagement, and its partners.                                            *)
Wed(c) ==
    /\ c.marriage \in DOMAIN marriages
    /\ c.couple = C!Register!Partners(marriages[c.marriage])
    /\ marriages[c.marriage].status \in {"engaged", "divorced"}

CoupleHeld(w) ==
    /\ ceremonyPc[w] = "loadMarriage" => ceremonyJob[w].marriage \in DOMAIN marriages
    /\ ceremonyPc[w] = "insert" => Wed(ceremonyJob[w])
    /\ ceremonyPc[w] \in {"loadCeremony", "saveCeremony"} =>
          ceremonyJob[w].cid \in DOMAIN ceremonies
    /\ ceremonyPc[w] = "saveCeremony" => Wed(ceremonyJob[w].draft)

CouplesHeld ==
    /\ \A k \in DOMAIN ceremonies : Wed(ceremonies[k])
    /\ \A w \in C!Processes : CoupleHeld(w)
    /\ \A s \in CeremonySweepers : ceremonyTodo[s] \subseteq DOMAIN ceremonies

(* The ceremony side keeps a table, and a job for every process.            *)
JobFields == {"op", "cid", "marriage", "couple", "guests", "guest", "draft"}

Shaped ==
    /\ ceremonies \in Seq({ceremonies[k] : k \in DOMAIN ceremonies})
    /\ DOMAIN ceremonyPc = C!Processes /\ DOMAIN ceremonyJob = C!Processes
    /\ DOMAIN ceremonyTodo = CeremonySweepers
    /\ \A w \in C!Processes : DOMAIN ceremonyJob[w] = JobFields

ServiceInv == MarriageRoom /\ Shaped /\ CouplesHeld
=============================================================================
