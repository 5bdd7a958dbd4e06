------------------------------ MODULE Margins ------------------------------
(***************************************************************************)
(* What the King marks and what becomes of it: the record of a plan, the *)
(* margin of its proposal and his review of its files                      *)
(* (kingdom-core/src/model.rs, api.rs), while a turn (turn.rs) writes to   *)
(* the same plan.  A request names what some tab showed when it was made,  *)
(* and arrives when it arrives: a stale tab is a late request.  Turns are  *)
(* taken one at a time here; what overlapping ones do is Chamber's.        *)
(***************************************************************************)
EXTENDS Naturals, Sequences, SequencesExt, FiniteSets

CONSTANTS
    MaxNotes,    \* he writes
    MaxDemands,  \* he makes
    MaxPending,  \* of these, on their way at once
    MaxEntries,  \* of the record, before no more is begun
    MaxDrafts,   \* texts the court gives its draft
    MaxCalls     \* in one reply

ASSUME MarginsAssumption == MaxNotes \in Nat /\ MaxDrafts \in Nat \ {0} /\ MaxCalls \in Nat

VARIABLES
    book,     \* the plan
    sitting,  \* its turn
    draft,    \* the text of .kingdom/draft.md, by number; 0: there is none
    filed,    \* the one filed at approval
    demands,  \* the King's requests, made and not yet served
    made,     \* how many he made
    fates,    \* of his notes
    tally     \* of what was dropped, erased, read and meant, for the properties

mvars == <<book, sitting, draft, filed, demands, made, fates, tally>>

NoteId == 1 .. MaxNotes
NoBody == 0
NoProposal == [body |-> NoBody, approved |-> FALSE, notes |-> {}]
NoSitting ==
    [at |-> "none", halted |-> FALSE, full |-> FALSE, reply |-> 0, first |-> TRUE,
     left |-> 0, call |-> 0, tool |-> "none", put |-> NoBody]

\* A first draft has been put; what led to it is not in the count.
MInit ==
    /\ book = [entries |-> <<>>, count |-> 0, queue |-> <<>>, status |-> "AwaitingReview",
               full |-> FALSE, proposal |-> [NoProposal EXCEPT !.body = 1], review |-> {}]
    /\ sitting = NoSitting /\ draft = 1 /\ filed = NoBody
    /\ demands = {} /\ made = 0
    /\ fates = [n \in NoteId |-> "unwritten"]
    /\ tally = [dropped |-> {}, erased |-> {}, bereft |-> {}, wrong |-> FALSE,
                read |-> NoBody]

-----------------------------------------------------------------------------
(* The plan.                                                               *)

Line(what, notes) ==
    [id |-> 0, what |-> what, reply |-> 0, thinks |-> FALSE, open |-> FALSE, notes |-> notes]

Log(r, line) ==
    [r EXCEPT !.count = @ + 1, !.entries = Append(@, [line EXCEPT !.id = r.count + 1])]

Speak(r, who, notes) == Log(r, Line(who, notes))
Remark(r) == Log(r, Line("note", {}))

\* All that waits is said, in the order it came.
HearAll(r) ==
    [r EXCEPT !.count = @ + Len(r.queue), !.queue = <<>>,
              !.entries = @ \o [i \in DOMAIN r.queue |->
                  [Line("king", r.queue[i]) EXCEPT !.id = r.count + i]]]

\* Words are queued while a turn runs, and enter the record otherwise.
Receives(r, notes) ==
    IF sitting.at # "none" THEN [r EXCEPT !.queue = Append(@, notes)]
    ELSE [Speak(HearAll(r), "king", notes) EXCEPT !.status = "Drafting"]

\* standing_proposal: what the King may annotate, accept or set aside.
Stands ==
    /\ ~book.full /\ book.status = "AwaitingReview"
    /\ book.proposal.body # NoBody /\ ~book.proposal.approved

\* What goes with a proposal that is not the question any more.
Aside(r) == IF r.proposal.approved THEN r ELSE [r EXCEPT !.proposal = NoProposal]
Dropped(r) == IF r.proposal.approved THEN {} ELSE r.proposal.notes
DropsToo(notes) == tally' = [tally EXCEPT !.dropped = @ \cup notes]

IsOpen(line) == line.what = "call" /\ line.open
SameReply(line, other) == line.what = "call" /\ line.reply = other.reply

\* A note, and a call still running, are not deleted.
Deletable(i) ==
    i \in DOMAIN book.entries /\ book.entries[i].what # "note" /\ ~IsOpen(book.entries[i])

Closed(r, call) ==
    [r EXCEPT !.entries = [i \in DOMAIN @ |->
        IF @[i].id = call THEN [@[i] EXCEPT !.open = FALSE] ELSE @[i]]]

-----------------------------------------------------------------------------
(* The turn.                                                               *)

NothingElse == UNCHANGED <<filed, demands, made, fates>>
NextRound == [NoSitting EXCEPT !.at = "round", !.halted = sitting.halted]

TakesUp ==
    /\ sitting.at = "none" /\ book.status # "Settled" /\ book.count < MaxEntries
    /\ sitting' = [NoSitting EXCEPT !.at = "round"]
    /\ book' = [book EXCEPT !.status = "Drafting"]
    /\ NothingElse /\ UNCHANGED <<draft, tally>>

\* A halt is looked for between rounds, while the model is asked and while a tool runs.
StopsHere ==
    /\ sitting.at \in {"round", "asking", "calling"} /\ sitting.halted
    /\ sitting' = NoSitting
    /\ book' = Remark([Closed(book, sitting.call) EXCEPT !.status = "AwaitingReview"])
    /\ NothingElse /\ UNCHANGED <<draft, tally>>

HearAndAsk ==
    /\ sitting.at = "round" /\ ~sitting.halted /\ book.count < MaxEntries
    /\ book' = HearAll(book)
    /\ sitting' = [sitting EXCEPT !.at = "asking", !.full = book.full]
    /\ NothingElse /\ UNCHANGED <<draft, tally>>

\* The model fails, or the turn is out of rounds.
GivesUp ==
    /\ ~sitting.halted
    /\ \/ sitting.at = "asking"
       \/ sitting.at = "round" /\ book.count >= MaxEntries
    /\ sitting' = NoSitting
    /\ book' = Remark([book EXCEPT !.status = "Failed"])
    /\ NothingElse /\ UNCHANGED <<draft, tally>>

\* It speaks, and what it had proposed is no longer the question.
Speaks ==
    /\ sitting.at = "asking" /\ ~sitting.halted
    /\ book' = Aside([Speak(book, "court", {}) EXCEPT !.status = "AwaitingReview"])
    /\ DropsToo(Dropped(book))
    /\ sitting' = [NoSitting EXCEPT !.at = "spoke", !.halted = sitting.halted]
    /\ NothingElse /\ UNCHANGED draft

\* It leaves, unless the King got a word in and there are rounds left.
LeavesOrGoesOn ==
    /\ sitting.at = "spoke"
    /\ IF book.queue = <<>> \/ book.count >= MaxEntries
       THEN sitting' = NoSitting /\ UNCHANGED book
       ELSE /\ sitting' = NextRound
            /\ book' = [book EXCEPT !.status = "Drafting"]
    /\ NothingElse /\ UNCHANGED <<draft, tally>>

\* It acts: one reply, some calls, the thinking on the first.
Acts ==
    /\ sitting.at = "asking" /\ ~sitting.halted
    /\ \E n \in 1 .. MaxCalls :
          sitting' = [sitting EXCEPT !.at = "acting", !.left = n, !.first = TRUE,
                        !.reply = book.count + 1]
    /\ NothingElse /\ UNCHANGED <<book, draft, tally>>

\* The draft a proposal would put is read before the tool runs.
BeginsCall ==
    /\ sitting.at = "acting"
    /\ \E tool \in {"propose_plan"} \cup (IF draft < MaxDrafts THEN {"patch"} ELSE {}) :
          sitting' = [sitting EXCEPT !.at = "calling", !.tool = tool, !.left = @ - 1,
                        !.first = FALSE, !.call = book.count + 1,
                        !.put = IF tool = "propose_plan" THEN draft ELSE NoBody]
    /\ book' = Log(book, [Line("call", {}) EXCEPT !.reply = sitting.reply,
                                !.thinks = sitting.first, !.open = TRUE])
    /\ NothingElse /\ UNCHANGED <<draft, tally>>

ToolRuns ==
    /\ sitting.at = "calling" /\ ~sitting.halted
    /\ draft' = IF sitting.tool = "patch" THEN draft + 1 ELSE draft
    /\ sitting' = [sitting EXCEPT !.at = "done"]
    /\ NothingElse /\ UNCHANGED <<book, tally>>

\* A revision takes the place of what it revises, notes and all.
SettlesCall ==
    LET closed == Closed(book, sitting.call)
        puts == ~sitting.full /\ sitting.put # NoBody
        on == book.queue # <<>>
    IN  /\ sitting.at = "done"
        /\ IF puts
           THEN /\ book' = [closed EXCEPT
                       !.proposal = [NoProposal EXCEPT !.body = sitting.put],
                       !.status = IF on THEN "Drafting" ELSE "AwaitingReview"]
                /\ DropsToo(book.proposal.notes)
                /\ sitting' = IF on THEN NextRound ELSE NoSitting
           ELSE /\ book' = closed
                /\ sitting' = IF sitting.left = 0 THEN NextRound
                               ELSE [sitting EXCEPT !.at = "acting", !.call = 0]
                /\ UNCHANGED tally
        /\ NothingElse /\ UNCHANGED draft

-----------------------------------------------------------------------------
(* The King asks, of what he is shown.                                     *)

Demand(kind) ==
    [kind |-> kind, note |-> 0, body |-> NoBody, at |-> 0, id |-> 0]

Makes(demand) ==
    /\ made < MaxDemands /\ Cardinality(demands) < MaxPending /\ demand \notin demands
    /\ demands' = demands \cup {demand} /\ made' = made + 1
    /\ UNCHANGED <<book, sitting, draft, filed, tally>>

\* Notes are written in order.
Fresh(n) == fates[n] = "unwritten" /\ \A m \in 1 .. n - 1 : fates[m] # "unwritten"

Writes ==
    \E n \in NoteId :
        /\ Fresh(n)
        /\ \/ Stands /\ Makes([Demand("annotate") EXCEPT !.note = n])
           \/ book.status # "Settled" /\ Makes([Demand("annotate_file") EXCEPT !.note = n])
        /\ fates' = [fates EXCEPT ![n] = "asked"]

AsksOf ==
    /\ \/ book.status # "Settled" /\ Makes(Demand("say"))
       \/ sitting.at # "none" /\ Makes(Demand("stop"))
       \/ \E n \in book.proposal.notes :
             Makes([Demand("withdraw") EXCEPT !.note = n])
       \/ \E n \in book.review :
             Makes([Demand("withdraw_file") EXCEPT !.note = n])
       \/ book.proposal.notes # {} /\ Makes(Demand("send"))
       \/ book.review # {} /\ Makes(Demand("send_file"))
       \/ Stands /\ Makes([Demand("approve") EXCEPT !.body = book.proposal.body])
       \/ Stands /\ Makes(Demand("set_aside"))
       \/ \E i \in DOMAIN book.entries :
             /\ Deletable(i)
             /\ Makes([Demand("delete") EXCEPT !.at = i, !.id = book.entries[i].id])
    /\ UNCHANGED fates

-----------------------------------------------------------------------------
(* The server, under the kingdom's lock.                                   *)

Becomes(n, fate) == fates' = [fates EXCEPT ![n] = fate]

Annotated(d) ==
    /\ d.kind = "annotate"
    /\ IF Stands
       THEN /\ book' = [book EXCEPT !.proposal.notes = @ \cup {d.note}]
            /\ Becomes(d.note, "written")
       ELSE Becomes(d.note, "refused") /\ UNCHANGED book
    /\ UNCHANGED <<sitting, filed, tally>>

FileAnnotated(d) ==
    /\ d.kind = "annotate_file"
    /\ IF book.status # "Settled"
       THEN /\ book' = [book EXCEPT !.review = @ \cup {d.note}]
            /\ Becomes(d.note, "written")
       ELSE Becomes(d.note, "refused") /\ UNCHANGED book
    /\ UNCHANGED <<sitting, filed, tally>>

\* The King is told it is withdrawn, wherever it may be by then.
WithdrawnUnseen(d) ==
    /\ d.kind \in {"withdraw", "withdraw_file"}
    /\ book' = [book EXCEPT !.proposal.notes = @ \ {d.note}, !.review = @ \ {d.note}]
    /\ Becomes(d.note, "withdrawn")
    /\ UNCHANGED <<sitting, filed, tally>>

\* What is no longer in the margin, or the review, is reported, not withdrawn.
Withdrawn(d) ==
    /\ \/ /\ d.kind = "withdraw"
          /\ book' = [book EXCEPT !.proposal.notes = @ \ {d.note}]
       \/ /\ d.kind = "withdraw_file"
          /\ book' = [book EXCEPT !.review = @ \ {d.note}]
    /\ IF book' # book THEN Becomes(d.note, "withdrawn") ELSE UNCHANGED fates
    /\ UNCHANGED <<sitting, filed, tally>>

\* A settled plan is refused his words and his review, but not his notes on a proposal.
Told(d) ==
    LET notes == book.proposal.notes
        review == book.review
    IN  /\ \/ d.kind = "say" /\ book.status # "Settled" /\ book' = Receives(book, {})
           \/ /\ d.kind = "send" /\ notes # {}
              /\ book' = Receives([book EXCEPT !.proposal.notes = {}], notes)
           \/ /\ d.kind = "send_file" /\ review # {} /\ book.status # "Settled"
              /\ book' = Receives([book EXCEPT !.review = {}], review)
        /\ UNCHANGED <<sitting, filed, fates, tally>>

\* What stands by now is approved, and the draft filed as it is by now, if none was.
Approved(d) ==
    /\ d.kind = "approve" /\ Stands
    /\ book' = [Speak(Remark([book EXCEPT !.proposal.approved = TRUE, !.full = TRUE]),
                        "king", {}) EXCEPT !.status = "Drafting"]
    /\ filed' = IF filed = NoBody THEN draft ELSE filed
    /\ tally' = [tally EXCEPT !.read = d.body]
    /\ UNCHANGED <<sitting, fates>>

SetsAside(d) ==
    /\ d.kind = "set_aside"
    /\ book' = Aside(book) /\ DropsToo(Dropped(book))
    /\ UNCHANGED <<sitting, filed, fates>>

StopHeard(d) ==
    /\ d.kind = "stop" /\ sitting.at # "none"
    /\ sitting' = [sitting EXCEPT !.halted = TRUE]
    /\ UNCHANGED <<book, filed, fates, tally>>

\* The place is looked up as it was before the call went.
HandPast(entries, i) ==
    LET later == {j \in i + 2 .. Len(entries) : SameReply(entries[j], entries[i])}
    IN  [j \in DOMAIN entries |->
            IF j \in later /\ \A k \in later : j <= k
            THEN [entries[j] EXCEPT !.thinks = @ \/ entries[i].thinks] ELSE entries[j]]

\* The thinking a call carries goes to the next call of its reply.
HandOn(entries, i) ==
    LET later == {j \in i + 1 .. Len(entries) : SameReply(entries[j], entries[i])}
    IN  [j \in DOMAIN entries |->
            IF j \in later /\ \A k \in later : j <= k
            THEN [entries[j] EXCEPT !.thinks = @ \/ entries[i].thinks] ELSE entries[j]]

\* delete_entry: whatever is at that place by now.
Struck(d) ==
    LET line == book.entries[d.at]
        sole == ~\E j \in DOMAIN book.entries :
                    j # d.at /\ SameReply(book.entries[j], line)
    IN  /\ d.kind = "delete"
        /\ Deletable(d.at) /\ book.status # "Settled"
        /\ book' = Remark([book EXCEPT
              !.entries = RemoveAt(IF line.what = "call" THEN HandOn(@, d.at) ELSE @, d.at)])
        /\ tally' = [tally EXCEPT
              !.erased = @ \cup line.notes,
              !.wrong = @ \/ line.id # d.id,
              !.bereft = IF line.what = "call" /\ sole THEN @ \cup {line.reply} ELSE @]
        /\ UNCHANGED <<sitting, filed, fates>>

\* The rest are reported, or find nothing to do.
Declined(d) ==
    /\ \/ d.kind \in {"say", "send_file", "delete"} /\ book.status = "Settled"
       \/ d.kind = "send" /\ book.proposal.notes = {}
       \/ d.kind = "send_file" /\ book.review = {}
       \/ d.kind = "approve" /\ ~Stands
       \/ d.kind = "stop" /\ sitting.at = "none"
       \/ d.kind = "delete" /\ ~Deletable(d.at)
    /\ UNCHANGED <<book, sitting, filed, fates, tally>>

\* A request is served when it arrives, in whatever order they do.
Serve ==
    \E d \in demands :
        /\ \/ Annotated(d) \/ FileAnnotated(d) \/ Withdrawn(d) \/ Told(d) \/ Approved(d)
           \/ SetsAside(d) \/ StopHeard(d) \/ Struck(d) \/ Declined(d)
        /\ demands' = demands \ {d}
        /\ UNCHANGED <<draft, made>>

\* finish_plan, on a plan that is not busy; it files what was never approved.
Closes ==
    /\ sitting.at \in {"none", "spoke"} /\ book.status # "Settled"
    /\ book' = [book EXCEPT !.status = "Settled"]
    /\ filed' = IF filed = NoBody THEN draft ELSE filed
    /\ UNCHANGED <<sitting, draft, demands, made, fates, tally>>

MNext ==
    \/ TakesUp \/ StopsHere \/ HearAndAsk \/ GivesUp \/ Speaks \/ LeavesOrGoesOn \/ Acts
    \/ BeginsCall \/ ToolRuns \/ SettlesCall \/ Writes \/ AsksOf \/ Serve \/ Closes

MSpec == MInit /\ [][MNext]_mvars

-----------------------------------------------------------------------------
MTypeOK ==
    /\ book.status \in {"Drafting", "AwaitingReview", "Failed", "Settled"}
    /\ book.full \in BOOLEAN /\ book.proposal.body \in 0 .. MaxDrafts
    /\ {draft, filed} \subseteq 0 .. MaxDrafts
    /\ \A i \in DOMAIN book.entries :
          book.entries[i].what \in {"king", "court", "note", "call"}
    /\ sitting.at \in {"none", "round", "asking", "acting", "calling", "done", "spoke"}
    /\ fates \in [NoteId -> {"unwritten", "asked", "refused", "written", "withdrawn"}]

\* Where a note is: in his margin, his review, what waits to be heard, what was said.
Places(r, n) ==
    LET in(where, sets) == {<<where, i>> : i \in {j \in DOMAIN sets : n \in sets[j]}}
    IN  in("margin", <<r.proposal.notes>>) \cup in("review", <<r.review>>)
        \cup in("queue", r.queue)
        \cup in("told", [i \in DOMAIN r.entries |-> r.entries[i].notes])

(* A note the King was told is written is in one place and one only, his   *)
(* margin, his review, what waits to be heard or what was said, until he   *)
(* erases it or the proposal it was written against goes; one he was told  *)
(* is withdrawn, or refused, the court never hears (api.rs, withdraw_note  *)
(* and send_notes; model.rs, take_notes).                                  *)
NotesAreHeardOnce ==
    \A n \in NoteId :
        IF fates[n] = "written" /\ n \notin tally.dropped \cup tally.erased
        THEN \E p \in Places(book, n) : Places(book, n) = {p}
        ELSE Places(book, n) = {}

(* The thinking of a reply is on the first of its calls that is left,      *)
(* unless the King erased all there were before another began; and the     *)
(* calls that are open are those the turn is making, whose results will    *)
(* find them (model.rs, delete_entry; turn.rs:631).                        *)
RepliesStayWhole ==
    LET lines == book.entries
    IN  /\ \A i \in DOMAIN lines :
              (/\ lines[i].what = "call" /\ lines[i].reply \notin tally.bereft
               /\ \A j \in 1 .. i - 1 : ~SameReply(lines[j], lines[i]))
              => lines[i].thinks
        /\ {lines[i].id : i \in {i \in DOMAIN lines : IsOpen(lines[i])}}
              = IF sitting.at \in {"calling", "done"} THEN {sitting.call} ELSE {}

(* "Filing here is what puts the text the King actually read safely on     *)
(* disk" (api.rs:1956-1957).                                               *)
FiledAsRead == book.full => filed = tally.read

(* "a stale index either still names the entry the King meant, or          *)
(* [delete_entry] refuses it outright" (api.rs:2079-2082).                 *)
DeletesWhatWasMeant == ~tally.wrong
=============================================================================
