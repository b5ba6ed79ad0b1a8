------------------------------- MODULE MCDesk -------------------------------
(* Research and risk: what is proposed, and what limits it.  In src/ the   *)
(* agent calls none of the risk controls, so a behaviour of this instance  *)
(* is one of the research or one of the controls while the others stay in  *)
(* their initial states.                                                   *)
EXTENDS MCAgent, MCRisk

DeskInit == ResearchInit /\ RiskInit

DeskNext ==
  \/ Ungoverned /\ RiskInit /\ ResearchNext /\ UNCHANGED <<governorVars, exposureVars, sizingVars>>
  \/ ResearchInit /\ RiskNext /\ UNCHANGED <<agentVars, disclosureVars, ideaVars>>

DeskSpec ==
  /\ DeskInit
  /\ [][DeskNext]_<<agentVars, disclosureVars, ideaVars, governorVars, exposureVars, sizingVars>>
=============================================================================
