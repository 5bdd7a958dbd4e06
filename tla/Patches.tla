------------------------------ MODULE Patches ------------------------------
(***************************************************************************)
(* The court's patch tool (tools/patch.rs): a call names the text to       *)
(* change, not the line; every edit of a call is placed on the file as it  *)
(* was, and all of them are made or none.  A text is a sequence of the     *)
(* letter x, a newline and a blank.                                        *)
(***************************************************************************)
EXTENDS Naturals, Sequences, SequencesExt, FiniteSets

CONSTANT MaxLength  \* of a file that is patched; by two requests, of a shorter one

VARIABLES
    text,    \* the file, or Missing
    clip,    \* what the plan's clipboard holds, or Missing
    call,    \* the requests of the last call
    before,  \* the file and the clipboard that call met
    fate     \* what became of it

pvars == <<text, clip, call, before, fate>>

Newline == "/"
Blank == "."
Letters == {"x", Newline, Blank}
TextsTo(n) == UNION {[1 .. m -> Letters] : m \in 0 .. n}
Missing == <<"missing">>
NoCall == <<>>

PInit ==
    /\ text = Missing /\ clip = Missing
    /\ call = NoCall /\ before = <<Missing, Missing>> /\ fate = "none"

-----------------------------------------------------------------------------
(* Placing an anchor.  A span is an offset and a length.                   *)

Span(offset, length) == [offset |-> offset, length |-> length]
Slice(t, span) == SubSeq(t, span.offset + 1, span.offset + span.length)
StandsAt(t, anchor, offset) ==
    offset + Len(anchor) <= Len(t) /\ Slice(t, Span(offset, Len(anchor))) = anchor

\* A match, if it begins no sooner than the one before it ends.
TakeMatch(found, t, anchor, offset) ==
    IF /\ anchor # <<>> /\ StandsAt(t, anchor, offset)
       /\ found # <<>> => Last(found).offset + Len(anchor) <= offset
    THEN Append(found, Span(offset, Len(anchor))) ELSE found

\* From the left, and on from the end of each.
ExactMatches(t, anchor) ==
    LET found[o \in 0 .. Len(t)] ==
            IF o = 0 THEN <<>> ELSE TakeMatch(found[o - 1], t, anchor, o - 1)
    IN  found[Len(t)]

\* A letter lengthens the line it is on; a line ends with its newline.
ReadLetter(lines, t, n) ==
    IF lines = <<>> \/ t[n - 1] = Newline THEN Append(lines, Span(n - 1, 1))
    ELSE [lines EXCEPT ![Len(lines)] = Span(@.offset, @.length + 1)]

Lines(t) ==
    LET lines[n \in 0 .. Len(t)] ==
            IF n = 0 THEN <<>> ELSE ReadLetter(lines[n - 1], t, n)
    IN  lines[Len(t)]

White(c) == c \in {Newline, Blank}

\* How much of a text is left without the white space at its end.
Trimmed(t) ==
    CHOOSE n \in 0 .. Len(t) :
        /\ \A i \in n + 1 .. Len(t) : White(t[i])
        /\ n = 0 \/ ~White(t[n])
TrimEnd(t) == SubSeq(t, 1, Trimmed(t))
Trim(t) == Reverse(TrimEnd(Reverse(TrimEnd(t))))

\* The lines from the nth are those of the anchor, but for the white space at their ends.
LinesMatch(t, lines, n, anchor, sought) ==
    /\ n + Len(sought) - 1 <= Len(lines)
    /\ \A k \in DOMAIN sought :
          Trim(Slice(t, lines[n + k - 1])) = Trim(Slice(anchor, sought[k]))

\* An anchor without a last newline does not take the file's.
LineSpan(t, first, last, anchor) ==
    LET tail == IF Last(anchor) = Newline THEN last.length ELSE Trimmed(Slice(t, last))
    IN  Span(first.offset, last.offset + tail - first.offset)

TakeLines(found, t, lines, n, anchor, sought) ==
    IF LinesMatch(t, lines, n, anchor, sought)
    THEN Append(found, LineSpan(t, lines[n], lines[n + Len(sought) - 1], anchor))
    ELSE found

MatchedLines(t, lines, anchor, sought) ==
    LET found[n \in 0 .. Len(lines)] ==
            IF n = 0 THEN <<>> ELSE TakeLines(found[n - 1], t, lines, n, anchor, sought)
    IN  found[Len(lines)]

\* Line by line, whatever white space each has at its ends.
LooseMatches(t, anchor) ==
    IF anchor = <<>> THEN <<>> ELSE MatchedLines(t, Lines(t), anchor, Lines(anchor))

OrElse(some, others) == IF some # <<>> THEN some ELSE others

\* The spans an anchor may mean: one, or it is refused.
Candidates(t, anchor) ==
    OrElse(ExactMatches(t, anchor), LooseMatches(t, anchor))

-----------------------------------------------------------------------------
(* A request, by its operation, its anchor and what it puts there.         *)

Anchored == {"replace", "insert_before", "insert_after"}

AtAnchor(op, found) ==
    CASE op = "replace" -> found
      [] op = "insert_before" -> Span(found.offset, 0)
      [] op = "insert_after" -> Span(found.offset + found.length, 0)

OneOf(op, candidates) ==
    IF Len(candidates) # 1 THEN <<>> ELSE <<AtAnchor(op, candidates[1])>>

\* Where a request applies: <<>> if it cannot be placed.
SpansOf(request, t) ==
    CASE request.op = "prepend_bof" -> <<Span(0, 0)>>
      [] request.op = "append_eof" -> <<Span(Len(t), 0)>>
      [] request.op = "overwrite" -> <<Span(0, Len(t))>>
      [] request.op = "replace_all" -> ExactMatches(t, request.anchor)
      [] request.op \in Anchored -> OneOf(request.op, Candidates(t, request.anchor))

\* A request taken: its edits are added, its cut is put on the clipboard.
TakeAt(plan, request, t, spans) ==
    LET new == IF request.paste THEN plan.clip ELSE request.new
    IN  IF ~plan.fine \/ spans = <<>> \/ (request.paste /\ plan.clip = Missing)
        THEN [plan EXCEPT !.fine = FALSE]
        ELSE [plan EXCEPT
                !.edits = @ \o [s \in DOMAIN spans |-> [span |-> spans[s], new |-> new]],
                !.clip = IF request.cut /\ spans[1].length > 0
                         THEN Slice(t, spans[1]) ELSE @]
TakeRequest(plan, request, t) == TakeAt(plan, request, t, SpansOf(request, t))

\* All requests are resolved against the file as it was.
PlanFrom(requests, t, held) ==
    LET plan[n \in 0 .. Len(requests)] ==
            IF n = 0 THEN [fine |-> TRUE, edits |-> <<>>, clip |-> held]
            ELSE TakeRequest(plan[n - 1], requests[n], t)
    IN  plan[Len(requests)]

PlanOf(requests, t) == PlanFrom(requests, t, clip)

-----------------------------------------------------------------------------
(* Making the edits: from the end of the file backwards.                   *)

\* Later offsets first, and nothing said of two at one place: the earlier request first.
HigherFirst(a, b) ==
    \/ a.span.offset > b.span.offset
    \/ a.span.offset = b.span.offset /\ a.n < b.n

\* Later offsets first, then longer spans, then later requests.
MadeFirst(a, b) ==
    \/ a.span.offset > b.span.offset
    \/ a.span.offset = b.span.offset /\ a.span.length > b.span.length
    \/ a.span = b.span /\ a.n > b.n

Splice(t, span, new) ==
    SubSeq(t, 1, span.offset) \o new
    \o SubSeq(t, span.offset + span.length + 1, Len(t))

\* An edit that reaches into the one made before it refuses the call.
MakeEdit(made, edit) ==
    IF ~made.fine \/ edit.span.offset + edit.span.length > made.start
    THEN [made EXCEPT !.fine = FALSE]
    ELSE [made EXCEPT !.text = Splice(@, edit.span, edit.new), !.start = edit.span.offset]

\* The edits in the order in which they are made.
InOrder(edits) ==
    LET indexed == [n \in DOMAIN edits |-> [n |-> n, span |-> edits[n].span,
                                            new |-> edits[n].new]]
        order == CHOOSE order \in [DOMAIN edits -> DOMAIN edits] :
                    \A i, j \in DOMAIN edits :
                        i < j => MadeFirst(indexed[order[i]], indexed[order[j]])
    IN  [i \in DOMAIN edits |-> indexed[order[i]]]

Apply(t, edits) ==
    LET made[m \in 0 .. Len(edits)] ==
            IF m = 0 THEN [fine |-> TRUE, text |-> t, start |-> Len(t)]
            ELSE MakeEdit(made[m - 1], InOrder(edits)[m])
    IN  made[Len(edits)]

-----------------------------------------------------------------------------
(* The tool, and whatever else writes to the file.                         *)

\* Only some operations can create a file.
CanStart(requests) ==
    text = Missing =>
        \A i \in DOMAIN requests : requests[i].op \notin Anchored \cup {"replace_all"}

Content == IF text = Missing THEN <<>> ELSE text

Patch(requests) ==
    /\ call = NoCall
    /\ text = Missing \/ Len(text) <= MaxLength
    /\ call' = requests /\ before' = <<text, clip>>
    /\ \E plan \in {PlanOf(requests, Content)} :
       \E made \in {Apply(Content, plan.edits)} :
          LET lands == CanStart(requests) /\ plan.fine /\ made.fine
          IN  /\ fate' = IF lands THEN "landed" ELSE "refused"
              /\ text' = IF lands THEN made.text ELSE text
              /\ clip' = IF lands THEN plan.clip ELSE clip

\* The tool has answered.
Answer ==
    /\ call # NoCall /\ call' = NoCall
    /\ before' = <<Missing, Missing>> /\ fate' = "none"
    /\ UNCHANGED <<text, clip>>

\* The King, a command or a merge.
Rewrite ==
    /\ call = NoCall
    /\ text' \in TextsTo(MaxLength) \cup {Missing}
    /\ UNCHANGED <<clip, call, before, fate>>

Naming(op, anchor, new) ==
    [op |-> op, anchor |-> anchor, new |-> new, cut |-> FALSE, paste |-> FALSE]

X == <<"x">>
Unanchored ==
    {Naming(op, <<>>, X) : op \in {"prepend_bof", "append_eof", "overwrite"}}
At(anchor) ==
    {Naming(op, anchor, <<>>) : op \in {"replace", "replace_all"}}
    \cup {Naming(op, anchor, X) : op \in {"replace", "insert_before", "insert_after"}}
Moves ==
    {[Naming("replace", anchor, <<>>) EXCEPT !.cut = TRUE] : anchor \in {X, X \o <<Blank>>}}
    \cup {[r EXCEPT !.paste = TRUE] : r \in Unanchored}

PNext ==
    \/ \E r \in Unanchored \cup Moves \cup UNION {At(anchor) : anchor \in TextsTo(2)} :
          Patch(<<r>>)
    \/ /\ text = Missing \/ Len(text) < MaxLength
       /\ \E r1, r2 \in Unanchored \cup Moves \cup At(X) \cup At(<<Newline>>) :
             Patch(<<r1, r2>>)
    \/ Answer \/ Rewrite

PSpec == PInit /\ [][PNext]_pvars

-----------------------------------------------------------------------------
PTypeOK ==
    /\ \A t \in {text, clip} : t = Missing \/ \A i \in DOMAIN t : t[i] \in Letters
    /\ fate \in {"none", "landed", "refused"}

\* What a call met, and the edits it asks for.
Met == IF before[1] = Missing THEN <<>> ELSE before[1]
Asked == PlanFrom(call, Met, before[2])

\* The edits that put something before an offset, and those that replace from there on.
InsertsAt(edits, offset) ==
    {k \in DOMAIN edits : edits[k].span.offset = offset /\ edits[k].span.length = 0}
ReplacesAt(edits, offset) ==
    {k \in DOMAIN edits : edits[k].span.offset = offset /\ edits[k].span.length > 0}
Put(edits, chosen) ==
    FlattenSeq([k \in DOMAIN edits |-> IF k \in chosen THEN edits[k].new ELSE <<>>])
Covered(edits, offset) ==
    \E k \in DOMAIN edits :
        offset \in edits[k].span.offset .. edits[k].span.offset + edits[k].span.length - 1

\* Everything at once: at each place what is put there, in the order asked, then what
\* replaces what stood there, or that.
AtPlace(t, edits, i) ==
    (Put(edits, InsertsAt(edits, i - 1)) \o Put(edits, ReplacesAt(edits, i - 1)))
    \o IF i > Len(t) \/ Covered(edits, i - 1) THEN <<>> ELSE <<t[i]>>
AtOnce(t, edits) == FlattenSeq([i \in 1 .. Len(t) + 1 |-> AtPlace(t, edits, i)])

\* Two edits want one place: their spans meet, or one inserts within the other.
Clash(edits) ==
    \E j, k \in DOMAIN edits :
        LET a == edits[j].span
            b == edits[k].span
        IN  /\ j # k /\ a.length > 0
            /\ \/ b.length = 0 /\ a.offset < b.offset /\ b.offset < a.offset + a.length
               \/ b.length > 0 /\ a.offset <= b.offset /\ b.offset < a.offset + a.length

(* A call lands as if all its edits were made at once, each where the file *)
(* it met says, and two that want one place are refused; a refused call    *)
(* leaves the file and the clipboard alone, and the clipboard never holds  *)
(* but a piece of a file (patch.rs:9-20, 418-421).                         *)
EditsAreSimultaneous ==
    \A asked \in {Asked} :
        /\ fate = "landed" =>
              /\ ~Clash(asked.edits) /\ text = AtOnce(Met, asked.edits)
              /\ clip # before[2] => \E o \in 0 .. Len(Met) : StandsAt(Met, clip, o)
        /\ fate = "refused" =>
              /\ <<text, clip>> = before
              /\ Clash(asked.edits) \/ ~asked.fine \/ before[1] = Missing
=============================================================================
