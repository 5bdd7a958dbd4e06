------------------------------ MODULE Kingdoms ------------------------------
(***************************************************************************)
(* One kingdom is open at a time, its plans in memory and on disk under    *)
(* their numbers (api.rs: begin_plan, assemble, leave_kingdom, update,     *)
(* remember; store.rs: load, save, next_number).  Numbers are counted per  *)
(* process and start over with every kingdom opened; a plan takes its      *)
(* number long before it is there to be counted, turns run on while        *)
(* kingdoms come and go, any save may fail, a record may not be readable,  *)
(* and the server may die.                                                 *)
(***************************************************************************)
EXTENDS Naturals, Sequences, SequencesExt, FiniteSetsExt

CONSTANTS
    Deed,         \* plans the King begins, one request each
    Root,         \* the folders he opens
    MaxOpenings,  \* times a kingdom is opened or left
    MaxFailures,  \* saves and readings that fail, and crashes
    MaxUpheavals  \* openings and failures together

ASSUME KingdomsAssumption == IsFiniteSet(Deed) /\ "none" \notin Deed /\ "nowhere" \notin Root

Nowhere == "nowhere"  \* the root of the kingdom that is not open
Numbers == 1 .. Cardinality(Deed) + 1

VARIABLES
    realm,     \* the root of the kingdom in memory
    rail,      \* its plans, in order
    disk,      \* for each root, the records under it, by number
    seq,       \* PLAN_SEQ
    begin,     \* the requests that begin a plan
    turns,     \* the turns running: which plan, and by which number they write
    opening,   \* the kingdom being assembled, or the empty record
    last,      \* the kingdom the profile says to reopen
    hurried,   \* history: a kingdom was changed while one was at work
    unread,    \* history: the plans whose record the last reading passed over
    openings, failures

kvars == <<realm, rail, disk, seq, begin, turns, opening, last, hurried,
           unread, openings, failures>>

NoBegin == [at |-> "idle", n |-> 0, root |-> Nowhere, saved |-> FALSE]
NoPlan == [n |-> 0, deed |-> "none", status |-> "none", hands |-> {}, noted |-> FALSE]
NotOpening == [root |-> Nowhere, rail |-> <<>>, counted |-> FALSE]

KInit ==
    /\ realm = Nowhere /\ rail = <<>> /\ seq = 1
    /\ disk = [r \in Root \cup {Nowhere} |-> [n \in Numbers |-> NoPlan]]
    /\ begin = [d \in Deed |-> NoBegin]
    /\ turns = {}
    /\ opening = NotOpening
    /\ last = Nowhere
    /\ hurried = FALSE /\ unread = {}
    /\ openings = 0 /\ failures = 0

Bounds == <<openings, failures>>
MayOpen == openings < MaxOpenings /\ openings + failures < MaxUpheavals
MayFail == failures < MaxFailures /\ openings + failures < MaxUpheavals

\* Whether anything is under way that a change of kingdom would catch out.
AtWork == turns # {} \/ \E d \in Deed : begin[d].at \in {"numbered", "cutting"}

-----------------------------------------------------------------------------
(* Records.                                                                *)

\* The turn of a plan marked as drafting died with its process.  (Every begun
\* plan has its workspace's note, so that none is taken for one not yet begun.)
Reconciled(plan) ==
    IF plan.status = "drafting" THEN [plan EXCEPT !.status = "failed"] ELSE plan

Recorded(root) == {n \in Numbers : disk[root][n] # NoPlan}

\* The number with i of those recorded up to it.
Ranked(numbers, i) == CHOOSE n \in numbers : Cardinality({m \in numbers : m <= n}) = i

\* The plans recorded under a root, by number, but for the records that cannot
\* be read or parsed: those are skipped, all of them when the folder cannot be
\* read.
Loaded(root, lost) ==
    LET numbers == Recorded(root) \ lost
    IN [i \in 1 .. Cardinality(numbers) |-> Reconciled(disk[root][Ranked(numbers, i)])]

DeedsAt(root, numbers) == {disk[root][n].deed : n \in numbers}

\* The records of a root are read, and put up to be counted and seated.
ReadRecords(root, lost) ==
    /\ opening' = [root |-> root, rail |-> Loaded(root, lost), counted |-> FALSE]
    /\ unread' = (unread \ DeedsAt(root, Recorded(root) \ lost)) \cup DeedsAt(root, lost)

NextNumberIsHighest(plans) ==
    IF plans = <<>> THEN 1 ELSE Max({plans[i].n : i \in DOMAIN plans})

NextNumber(plans) ==
    IF plans = <<>> THEN 1 ELSE Max({plans[i].n : i \in DOMAIN plans}) + 1

\* A plan is written over whatever was recorded under its number; when that
\* fails the plan in memory gets a note of it.
Remember(plan, kept) ==
    \/ /\ disk' = [disk EXCEPT ![realm][plan.n] = plan]
       /\ kept = plan
       /\ failures' = failures
    \/ /\ MayFail /\ failures' = failures + 1
       /\ kept = [plan EXCEPT !.noted = TRUE]
       /\ disk' = disk

\* The place in the rail of the first plan with the number, or 0.
PlaceOf(n) ==
    IF \E i \in DOMAIN rail : rail[i].n = n
    THEN CHOOSE i \in DOMAIN rail :
            rail[i].n = n /\ \A j \in DOMAIN rail : j < i => rail[j].n # n
    ELSE 0

\* The plan of that number in the kingdom in memory is changed, and recorded.
UpdatePlan(n, plan) ==
    \E kept \in {plan, [plan EXCEPT !.noted = TRUE]} :
        /\ Remember(plan, kept)
        /\ rail' = [rail EXCEPT ![PlaceOf(n)] = kept]
        /\ begin' = [d \in Deed |->
               IF disk' # disk /\ d = kept.deed
               THEN [begin[d] EXCEPT !.saved = TRUE] ELSE begin[d]]

-----------------------------------------------------------------------------
(* Beginning a plan.                                                       *)

TakeNumber(d) ==
    /\ begin[d].at = "idle"
    /\ seq \in Numbers
    /\ begin' = [begin EXCEPT ![d] = [NoBegin EXCEPT !.at = "numbered", !.n = seq]]
    /\ seq' = seq + 1
    /\ hurried' = (hurried \/ opening # NotOpening)
    /\ UNCHANGED <<realm, rail, disk, turns, opening, last, unread, Bounds>>

\* The city is looked up in the kingdom open now, and its workspace is cut.
FindCity(d) ==
    /\ begin[d].at = "numbered"
    /\ begin' = [begin EXCEPT ![d].at = IF realm = Nowhere THEN "over" ELSE "cutting",
                              ![d].root = realm]
    /\ UNCHANGED <<realm, rail, disk, seq, turns, opening, last, hurried, unread, Bounds>>

WorkspaceRefused(d) ==
    /\ begin[d].at = "cutting"
    /\ begin' = [begin EXCEPT ![d].at = "over"]
    /\ UNCHANGED <<realm, rail, disk, seq, turns, opening, last, hurried, unread, Bounds>>

\* The plan is recorded under, and joins, whichever kingdom is open by then.
PushPlan(d) ==
    /\ begin[d].at = "cutting"
    /\ LET plan == [n |-> begin[d].n, deed |-> d, status |-> "drafting",
                    hands |-> {}, noted |-> FALSE]
       IN \E kept \in {plan, [plan EXCEPT !.noted = TRUE]} :
            /\ Remember(plan, kept)
            /\ rail' = Append(rail, kept)
    /\ begin' = [begin EXCEPT ![d].at = "begun", ![d].saved = (disk' # disk)]
    /\ UNCHANGED <<realm, seq, turns, opening, last, hurried, unread, openings>>

-----------------------------------------------------------------------------
(* Turns, which know their plan by its number.                             *)

\* One turn per number, in the whole process.
BeginTurn(n) ==
    /\ PlaceOf(n) # 0
    /\ \A t \in turns : t.n # n
    /\ turns' = turns \cup {[n |-> n, deed |-> rail[PlaceOf(n)].deed]}
    /\ UpdatePlan(n, [rail[PlaceOf(n)] EXCEPT !.status = "drafting",
                                             !.hands = @ \cup {rail[PlaceOf(n)].deed}])
    /\ hurried' = (hurried \/ opening # NotOpening)
    /\ UNCHANGED <<realm, seq, opening, last, unread, openings>>

\* A turn writes into the plan of its number, for good the last time.
TurnWrites(t) ==
    /\ PlaceOf(t.n) # 0
    /\ \E status \in {"drafting", "settled"} :
        /\ UpdatePlan(t.n, [rail[PlaceOf(t.n)] EXCEPT !.status = status,
                                                     !.hands = @ \cup {t.deed}])
        /\ turns' = IF status = "settled" THEN turns \ {t} ELSE turns
    /\ UNCHANGED <<realm, seq, opening, last, hurried, unread, openings>>

\* The plan vanished in mid-decree.
TurnLosesPlan(t) ==
    /\ PlaceOf(t.n) = 0
    /\ turns' = turns \ {t}
    /\ UNCHANGED <<realm, rail, disk, seq, begin, opening, last, hurried, unread, Bounds>>

-----------------------------------------------------------------------------
(* Opening and leaving kingdoms.                                           *)

\* The records are read without the kingdom's lock ...
LoadKingdom(r) ==
    /\ opening = NotOpening /\ MayOpen
    /\ \E lost \in SUBSET Recorded(r) :
        /\ ReadRecords(r, lost)
        /\ \/ lost = {} /\ failures' = failures
           \/ lost # {} /\ MayFail /\ failures' = failures + 1
    /\ openings' = openings + 1
    /\ hurried' = (hurried \/ AtWork)
    /\ UNCHANGED <<realm, rail, disk, seq, begin, turns, last>>

\* ... and so is the counter set ...
CountPlans ==
    /\ opening # NotOpening /\ ~opening.counted
    /\ seq' = NextNumber(opening.rail)
    /\ opening' = [opening EXCEPT !.counted = TRUE]
    /\ UNCHANGED <<realm, rail, disk, begin, turns, last, hurried, unread, Bounds>>

\* ... before the kingdom in memory is replaced, and remembered for next time.
SeatKingdom ==
    /\ opening.counted
    /\ realm' = opening.root /\ rail' = opening.rail /\ last' = opening.root
    /\ opening' = NotOpening
    /\ UNCHANGED <<disk, seq, begin, turns, hurried, unread, Bounds>>

LeaveOpenKingdom ==
    /\ realm # Nowhere /\ MayOpen
    /\ realm' = Nowhere /\ rail' = <<>> /\ last' = Nowhere
    /\ openings' = openings + 1
    /\ hurried' = (hurried \/ AtWork \/ opening # NotOpening)
    /\ UNCHANGED <<disk, seq, begin, turns, opening, unread, failures>>

\* Only what is on disk survives; the server reopens the last kingdom.
Die ==
    /\ MayFail /\ failures' = failures + 1
    /\ realm' = Nowhere /\ rail' = <<>> /\ seq' = 1
    /\ turns' = {}
    /\ begin' = [d \in Deed |->
           IF begin[d].at \in {"numbered", "cutting"}
           THEN [begin[d] EXCEPT !.at = "over"] ELSE begin[d]]
    /\ \/ last = Nowhere /\ opening' = NotOpening /\ unread' = unread
       \/ last # Nowhere /\ \E lost \in SUBSET Recorded(last) : ReadRecords(last, lost)
    /\ UNCHANGED <<disk, last, hurried, openings>>

KNext ==
    \/ \E d \in Deed :
        TakeNumber(d) \/ FindCity(d) \/ WorkspaceRefused(d) \/ PushPlan(d)
    \/ \E n \in Numbers : BeginTurn(n)
    \/ \E t \in turns : TurnWrites(t) \/ TurnLosesPlan(t)
    \/ \E r \in Root : LoadKingdom(r)
    \/ CountPlans \/ SeatKingdom \/ LeaveOpenKingdom \/ Die

KSpec == KInit /\ [][KNext]_kvars

-----------------------------------------------------------------------------
(* Properties.                                                             *)

PlanRecords ==
    [n : Numbers \cup {0}, deed : Deed \cup {"none"},
     status : {"none", "drafting", "settled", "failed"},
     hands : SUBSET Deed, noted : BOOLEAN]

\* Every variable keeps to the values the code gives it.
KTypeOK ==
    /\ realm \in Root \cup {Nowhere} /\ last \in Root \cup {Nowhere}
    /\ rail \in Seq(PlanRecords)
    /\ disk \in [Root \cup {Nowhere} -> [Numbers -> PlanRecords]]
    /\ seq \in 1 .. Cardinality(Deed) + 2
    /\ \A d \in Deed : begin[d].at \in {"idle", "numbered", "cutting", "begun", "over"}
    /\ turns \subseteq [n : Numbers, deed : Deed]
    /\ hurried \in BOOLEAN /\ unread \subseteq Deed

\* As long as kingdoms change only while nothing is at work, a plan that was
\* once recorded is never written over by another, through reopenings, failed
\* saves and crashes, unless the reading that opened its kingdom skipped its
\* record; and a plan in memory is on disk as it stands, or carries the note that
\* it is not (api.rs, assemble and remember; store.rs, load).  On the same
\* condition a turn writes into its own plan alone, and no two plans of a kingdom
\* go by one number (api.rs, update).
EveryPlanIsKept ==
    ~hurried =>
        /\ \A d \in Deed \ unread :
            begin[d].saved => disk[begin[d].root][begin[d].n].deed = d
        /\ \A i \in DOMAIN rail :
            rail[i].noted \/ Reconciled(disk[realm][rail[i].n]) = Reconciled(rail[i])
        /\ \A i \in DOMAIN rail : rail[i].hands \subseteq {rail[i].deed}
        /\ \A i, j \in DOMAIN rail : rail[i].n = rail[j].n => i = j
=============================================================================
