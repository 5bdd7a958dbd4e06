------------------------------ MODULE MCProgress ------------------------------
(***************************************************************************)
(* The components that promise progress, for TLC, with the fairness of each.*)
(* They share no state in the code but the records the chamber keeps, so    *)
(* that a behaviour is of one of them, chosen at the start, and the others  *)
(* rest.                                                                    *)
(***************************************************************************)
EXTENDS Questions, Errands, Browsers, Networks, Jobs

VARIABLE part  \* the component that runs

Parts == {"questions", "errands", "browsers", "networks", "jobs"}
vars == <<part, qvars, evars, bvars, svars, jvars>>

Init ==
    /\ part \in Parts
    /\ QInit /\ EInit /\ BInit /\ SInit /\ JInit

\* All but one component rest.
Next ==
    \/ /\ part = "questions" /\ QNext
       /\ UNCHANGED <<part, evars, bvars, svars, jvars>>
    \/ /\ part = "errands" /\ ENext
       /\ UNCHANGED <<part, qvars, bvars, svars, jvars>>
    \/ /\ part = "browsers" /\ BNext
       /\ UNCHANGED <<part, qvars, evars, svars, jvars>>
    \/ /\ part = "networks" /\ SNext
       /\ UNCHANGED <<part, qvars, evars, bvars, jvars>>
    \/ /\ part = "jobs" /\ JNext
       /\ UNCHANGED <<part, qvars, evars, bvars, svars>>

\* The fairness is that of the component that runs.
Fair ==
    \/ part = "questions" /\ QFair
    \/ part = "errands" /\ EFair
    \/ part = "browsers" /\ BFair
    \/ part = "networks" /\ SFair
    \/ part = "jobs" /\ JFair

Spec == Init /\ [][Next]_vars /\ Fair

-----------------------------------------------------------------------------
\* The component that runs keeps to the values its code gives it.
WorkersTypeOK ==
    /\ part = "questions" => QTypeOK
    /\ part = "errands" => ETypeOK
    /\ part = "browsers" => BTypeOK
    /\ part = "networks" => STypeOK
    /\ part = "jobs" => JTypeOK
=============================================================================
