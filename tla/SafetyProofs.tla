----------------------------- MODULE SafetyProofs -----------------------------
(***************************************************************************)
(* The components of MCSafety side by side: a step of one of them is a     *)
(* step of its own specification and leaves the others as they were, so    *)
(* that what is proved of each alone holds of them together.               *)
(***************************************************************************)
EXTENDS MCSafety, RecordsProofs, KingProofs, LoopsProofs, PatchesProofs

\* Each component takes a step of its own, or rests.
Apiece ==
    /\ [NNext]_nvars /\ [WNext]_wvars /\ [LNext]_lvars /\ [KNext]_kvars /\ [TNext]_tvars
    /\ [FNext]_fvars /\ [RNext]_rvars /\ [DNext]_dvars /\ [PNext]_pvars /\ [MNext]_mvars

LEMMA StepsApiece == [Next]_vars => Apiece
BY DEF Next, vars, Apiece

LEMMA EachItsOwn ==
    Spec => /\ NSpec /\ WSpec /\ LSpec /\ KSpec /\ TSpec
            /\ FSpec /\ RSpec /\ DSpec /\ PSpec /\ MSpec
<1>1. Init => /\ NInit /\ WInit /\ LInit /\ KInit /\ TInit
              /\ FInit /\ RInit /\ DInit /\ PInit /\ MInit
    BY DEF Init
<1>2. Apiece => /\ [NNext]_nvars /\ [WNext]_wvars /\ [LNext]_lvars /\ [KNext]_kvars
                /\ [TNext]_tvars /\ [FNext]_fvars /\ [RNext]_rvars /\ [DNext]_dvars
                /\ [PNext]_pvars /\ [MNext]_mvars
    BY DEF Apiece
<1> QED
    BY <1>1, <1>2, StepsApiece, PTL
    DEF Spec, NSpec, WSpec, LSpec, KSpec, TSpec, FSpec, RSpec, DSpec, PSpec, MSpec

(* Whichever component runs keeps to the values its code gives it, for     *)
(* every value of the constants of all of them.                            *)
THEOREM RecordsTypeCorrect == Spec => []RecordsTypeOK
<1> DEFINE All == /\ NTypeOK /\ WTypeOK /\ LTypeOK /\ KTypeOK /\ TTypeOK
                  /\ FTypeOK /\ RTypeOK /\ DTypeOK /\ PTypeOK /\ MTypeOK
<1>1. Spec => []All
    BY EachItsOwn, EndingsTypeCorrect, WireTypeCorrect, WellsTypeCorrect, KingdomsTypeCorrect,
       ShellsTypeCorrect, FencesTypeCorrect, RequestsTypeCorrect, EditorsTypeCorrect,
       PatchTypeCorrect, MarginsTypeCorrect, PTL
<1>2. All => RecordsTypeOK
    BY DEF RecordsTypeOK
<1> QED
    BY <1>1, <1>2, PTL

(* All that the components promise, side by side and for every value of    *)
(* the constants of all of them: what is checked of them on small values   *)
(* is proved of them in general.                                           *)
THEOREM ComponentsAreSafe ==
    Spec => /\ [](RecordsTypeOK /\ WorkKept /\ OutcomeIsTrue /\ QuietTabsAreTrue)
            /\ [](WellsFollowTheLiving /\ EveryPlanIsKept)
            /\ [](PanelMissesNothing /\ ShellsAreListed /\ StampsGuardTheWork)
            /\ [](ShedsOnlyWhatItMust /\ EditsAreSimultaneous)
            /\ [](NotesAreHeardOnce /\ RepliesStayWhole /\ FenceIsAsTicked /\ FenceIsAsTold)
            /\ NoWellTakenAway /\ AskedAgainNoLarger
<1>1. Spec => [](RecordsTypeOK /\ WorkKept /\ OutcomeIsTrue /\ QuietTabsAreTrue)
    BY EachItsOwn, RecordsTypeCorrect, NothingIsLost, TheRecordIsTrue, QuietMeansTrue, PTL
<1>2. Spec => [](WellsFollowTheLiving /\ EveryPlanIsKept)
    BY EachItsOwn, RegistryFollowsTheLiving, NoPlanIsOverwritten, PTL
<1>3. Spec => [](PanelMissesNothing /\ ShellsAreListed /\ StampsGuardTheWork)
    BY EachItsOwn, PanelsMissNothing, NoShellIsLost, SavesRespectTheCourt, PTL
<1>4. Spec => [](ShedsOnlyWhatItMust /\ EditsAreSimultaneous)
    BY EachItsOwn, NothingNeededIsShed, EditsLandAtOnce, PTL
<1>5. Spec => [](NotesAreHeardOnce /\ RepliesStayWhole /\ FenceIsAsTicked /\ FenceIsAsTold)
    BY EachItsOwn, EveryNoteIsHeardOnce, RepliesAreNotTorn, TheFenceIsWhatWasTicked,
       TheCourtIsToldTrue, PTL
<1>6. Spec => NoWellTakenAway /\ AskedAgainNoLarger
    BY EachItsOwn, NoWellIsTakenAway, AskingShrinks, PTL
<1> QED
    BY <1>1, <1>2, <1>3, <1>4, <1>5, <1>6, PTL
=============================================================================
