------------------------------- MODULE Turns -------------------------------
(***************************************************************************)
(* The register of turns running in this process: kingdom-app/src/turns.rs *)
(* seen on its own, for one plan.                                          *)
(*                                                                         *)
(* The register holds at most one entry per plan: the token of the turn    *)
(* that registered last, with the sending half of its halt signal.  A turn *)
(* is identified here with the token `begin' hands it.  `alive' is the set *)
(* of guards that exist: a guard is made by begin and ends with its drop.  *)
(* Two turns may overlap, which the module's documentation allows for.     *)
(*                                                                         *)
(* This is the abstract specification the turn loop is held to: Chamber    *)
(* implements it (see ChamberRefinesTurns there).                          *)
(***************************************************************************)
CONSTANTS Turn,      \* the turns that may be taken on this plan
          NoTurn     \* the register holds no entry, no turn has begun

VARIABLES running,   \* the turn whose entry is in the register, or NoTurn
          newest,    \* the turn holding the last token handed out
          halted,    \* the turns whose halt signal reads true
          alive,     \* the turns whose guard exists
          begun      \* the turns that have ever begun

tvars == <<running, newest, halted, alive, begun>>

TurnsInit ==
    /\ running = NoTurn
    /\ newest = NoTurn
    /\ halted = {}
    /\ alive = {}
    /\ begun = {}

(* begin: a fresh token, inserted over whatever entry was there.           *)
Begins(t) ==
    /\ t \notin begun
    /\ running' = t
    /\ newest' = t
    /\ alive' = alive \cup {t}
    /\ begun' = begun \cup {t}
    /\ UNCHANGED halted

(* halt: signals the registered turn and leaves its entry in place.        *)
Halts ==
    /\ running # NoTurn
    /\ halted' = halted \cup {running}
    /\ UNCHANGED <<running, newest, alive, begun>>

(* What the register holds once the guard of t has taken its own entry out *)
(* of it: an entry bearing another token stays.                            *)
WithoutOwn(t) == IF running = t THEN NoTurn ELSE running

(* stand_down: deregisters now; the guard lives on until it is dropped.    *)
StandsDown(t) ==
    /\ t \in alive
    /\ running' = WithoutOwn(t)
    /\ UNCHANGED <<newest, halted, alive, begun>>

(* Drop for TurnGuard: however the turn ends, its guard stands down.       *)
Drops(t) ==
    /\ t \in alive
    /\ running' = WithoutOwn(t)
    /\ alive' = alive \ {t}
    /\ UNCHANGED <<newest, halted, begun>>

(* The process ends: the register is memory and goes with it.              *)
Dies ==
    /\ running' = NoTurn
    /\ alive' = {}
    /\ halted' = {}
    /\ UNCHANGED <<newest, begun>>

TurnsNext ==
    \/ \E t \in Turn : Begins(t) \/ StandsDown(t) \/ Drops(t)
    \/ Halts
    \/ Dies

TurnsSpec == TurnsInit /\ [][TurnsNext]_tvars
=============================================================================
