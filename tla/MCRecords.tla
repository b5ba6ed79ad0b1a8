----------------------------- MODULE MCRecords -----------------------------
(* What is kept and has to survive: the ledgers on both sides of the       *)
(* boundary, the log of the workbench, and the files of the registry with  *)
(* what is learned beside them.  Of these only the boundary's two sides    *)
(* exchange anything, so a behaviour of this instance is a behaviour of    *)
(* one component while the others stay in their initial states.            *)
EXTENDS MCBoundary, MCWorkbench, MCLearning

(* Whether EDGE may fail does not matter to the others.                    *)
NoTrade == BoundaryInit /\ ~edgeFails

RecordsInit == BoundaryInit /\ WorkbenchInit /\ LearningAllInit

RecordsNext ==
  \/ /\ WorkbenchInit /\ LearningAllInit
     /\ BoundaryNext
     /\ UNCHANGED <<workbenchVars, registryVars, pipelineVars, walkVars, analogVars>>
  \/ /\ NoTrade /\ LearningAllInit
     /\ WorkbenchNext
     /\ UNCHANGED <<boundaryVars, edgeFails, registryVars, pipelineVars, walkVars, analogVars>>
  \/ /\ NoTrade /\ WorkbenchInit
     /\ LearningAllNext
     /\ UNCHANGED <<boundaryVars, edgeFails, workbenchVars>>

RecordsSpec ==
  /\ RecordsInit
  /\ [][RecordsNext]_<<boundaryVars, edgeFails, workbenchVars,
                       registryVars, pipelineVars, walkVars, analogVars>>
=============================================================================
