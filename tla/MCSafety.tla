------------------------------- MODULE MCSafety -------------------------------
(***************************************************************************)
(* The components of which nothing is promised in the end, for TLC. They    *)
(* share no state in the code but the records the chamber keeps, so that a  *)
(* behaviour is of one of them, chosen at the start, and the others rest.   *)
(***************************************************************************)
EXTENDS Endings, Wire, Wells, Kingdoms, Shells, Fences, Requests, Editors, Patches,
        Margins

VARIABLE part  \* the component that runs

Parts == {"endings", "wire", "wells", "kingdoms", "shells", "fences", "requests",
          "editors", "patches", "margins"}
vars == <<part, nvars, wvars, lvars, kvars, tvars, fvars, rvars, dvars, pvars, mvars>>

Init ==
    /\ part \in Parts
    /\ NInit /\ WInit /\ LInit /\ KInit /\ TInit /\ FInit /\ RInit /\ DInit
    /\ PInit /\ MInit

\* All but one component rest.
Next ==
    \/ /\ part = "endings" /\ NNext
       /\ UNCHANGED <<part, wvars, lvars, kvars, tvars, fvars, rvars, dvars, pvars,
                     mvars>>
    \/ /\ part = "wire" /\ WNext
       /\ UNCHANGED <<part, nvars, lvars, kvars, tvars, fvars, rvars, dvars, pvars,
                     mvars>>
    \/ /\ part = "wells" /\ LNext
       /\ UNCHANGED <<part, nvars, wvars, kvars, tvars, fvars, rvars, dvars, pvars,
                     mvars>>
    \/ /\ part = "kingdoms" /\ KNext
       /\ UNCHANGED <<part, nvars, wvars, lvars, tvars, fvars, rvars, dvars, pvars,
                     mvars>>
    \/ /\ part = "shells" /\ TNext
       /\ UNCHANGED <<part, nvars, wvars, lvars, kvars, fvars, rvars, dvars, pvars,
                     mvars>>
    \/ /\ part = "fences" /\ FNext
       /\ UNCHANGED <<part, nvars, wvars, lvars, kvars, tvars, rvars, dvars, pvars,
                     mvars>>
    \/ /\ part = "requests" /\ RNext
       /\ UNCHANGED <<part, nvars, wvars, lvars, kvars, tvars, fvars, dvars, pvars,
                     mvars>>
    \/ /\ part = "editors" /\ DNext
       /\ UNCHANGED <<part, nvars, wvars, lvars, kvars, tvars, fvars, rvars, pvars,
                     mvars>>
    \/ /\ part = "patches" /\ PNext
       /\ UNCHANGED <<part, nvars, wvars, lvars, kvars, tvars, fvars, rvars, dvars,
                     mvars>>
    \/ /\ part = "margins" /\ MNext
       /\ UNCHANGED <<part, nvars, wvars, lvars, kvars, tvars, fvars, rvars, dvars,
                     pvars>>

Spec == Init /\ [][Next]_vars

-----------------------------------------------------------------------------
\* The component that runs keeps to the values its code gives it.
RecordsTypeOK ==
    /\ part = "endings" => NTypeOK
    /\ part = "wire" => WTypeOK
    /\ part = "wells" => LTypeOK
    /\ part = "kingdoms" => KTypeOK
    /\ part = "shells" => TTypeOK
    /\ part = "fences" => FTypeOK
    /\ part = "requests" => RTypeOK
    /\ part = "editors" => DTypeOK
    /\ part = "patches" => PTypeOK
    /\ part = "margins" => MTypeOK
=============================================================================
