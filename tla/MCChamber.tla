----------------------------- MODULE MCChamber -----------------------------
(***************************************************************************)
(* Chamber for TLC.                                                        *)
(***************************************************************************)
EXTENDS ChamberProperties

Closing == plan.outcome # "none" \/ \E f \in Finisher : fin[f] # "idle"

Several == spoken > 1 \/ Cardinality({t \in Turn : pc[t] # "unborn"}) > 1

Crowded == spoken > 2 /\ Cardinality({t \in Turn : pc[t] # "unborn"}) > 1

\* Of several turns and words none is spent on closing the plan or on asking again, and
\* the last words are said to a plan with one turn.
Narrow == Several => /\ ~Closing /\ ~Crowded
                     /\ \A t \in Turn : attempt[t] = 0
=============================================================================
