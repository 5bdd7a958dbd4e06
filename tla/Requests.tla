------------------------------ MODULE Requests ------------------------------
(***************************************************************************)
(* Asking a model (llm/copilot.rs, llm/mod.rs, and the loop around it in   *)
(* turn.rs): what of a conversation one request carries under a budget of  *)
(* bytes, how the gateway's reply is read, and which failures are asked    *)
(* again, with a smaller request or the same one.  Sizes are small numbers *)
(* in the proportions of the code's.  What was said always rides, so that  *)
(* it is only weighed: where it stands among the replies is left out.      *)
(***************************************************************************)
EXTENDS Naturals, Sequences, SequencesExt, FiniteSets

CONSTANTS
    RecentReplies, LiveReplies,   \* replies whose pictures, whose signed thinking ride
    MostReplayed, ResultFloor,    \* the most of a result, and where halving it stops
    FullBudget, BudgetFloor,
    MostAttempts,
    Limits,      \* the largest body a gateway may read
    MaxReplies,  \* replies with calls in a conversation
    MaxTalks     \* turns

ASSUME RequestsAssumption ==
    /\ {RecentReplies, LiveReplies, MaxReplies, MaxTalks} \subseteq Nat
    /\ {MostReplayed, ResultFloor, FullBudget, BudgetFloor, MostAttempts} \subseteq Nat \ {0}
    /\ BudgetFloor <= FullBudget /\ Limits \subseteq Nat

VARIABLES
    replies,  \* with calls, in the conversation
    said,     \* words beside them
    sees,     \* whether the model takes pictures
    limit,    \* what this gateway reads
    asking,   \* the step of the turn, its budget and its attempts
    sent      \* the request last sent

rvars == <<replies, said, sees, limit, asking, sent>>

\* A call by its result: bytes as text, bytes once escaped, bytes of picture.
Text == [raw |-> 8, escaped |-> 10, picture |-> 0]
Look == [raw |-> 1, escaped |-> 1, picture |-> 6]
Signature == 2  \* bytes of signed thinking
Words == 1      \* bytes of what was said, or of a reply's own fixed part
Idle == [at |-> "idle", budget |-> FullBudget, attempt |-> 0, asks |-> 0]
NotSent == [messages |-> <<>>, weight |-> 0, budget |-> FullBudget]

RInit ==
    /\ replies = <<>> /\ said = 0 /\ sees = FALSE /\ limit = 0
    /\ asking = Idle /\ sent = NotSent

Total(numbers) ==
    LET upTo[n \in 0 .. Len(numbers)] == IF n = 0 THEN 0 ELSE upTo[n - 1] + numbers[n]
    IN  upTo[Len(numbers)]

-----------------------------------------------------------------------------
(* What a request leaves behind.  Replies are numbered from 1; those after *)
(* shed.images keep their pictures, those after shed.opaque their thinking.*)

WeightOfResult(call, cap) ==
    IF call.raw <= cap THEN call.escaped ELSE (call.escaped * cap) \div call.raw

WeightOfReply(reply, i, shed) ==
    LET calls == reply.calls
    IN  Words + Total([c \in DOMAIN calls |-> WeightOfResult(calls[c], shed.cap)])
        + (IF i > shed.opaque THEN reply.opaque ELSE 0)
        + (IF i > shed.images /\ sees
           THEN Total([c \in DOMAIN calls |-> calls[c].picture]) ELSE 0)

Weight(shed) ==
    Words * said + Total([i \in DOMAIN replies |-> WeightOfReply(replies[i], i, shed)])

AllBut(n) == IF Len(replies) > n THEN Len(replies) - n ELSE 0

\* What never rides, whatever the budget.
Outset ==
    [images |-> AllBut(RecentReplies), opaque |-> AllBut(LiveReplies), cap |-> MostReplayed]

\* The pictures at issue: the loop counts down from the first that rides, as written.
PictureSteps ==
    [k \in 1 .. Outset.images + 1 |-> [Outset EXCEPT !.images = Outset.images + 1 - k]]

Blind == [Outset EXCEPT !.images = Len(replies)]

\* A size that is halved again and again.
Halved(top) ==
    LET size[k \in 0 .. top] == IF k = 0 THEN top ELSE size[k - 1] \div 2
    IN  size

\* Results are halved as long as they are longer than the floor.
ResultSteps ==
    LET cap == Halved(MostReplayed)
        halvings == {k \in 0 .. MostReplayed : cap[k] > ResultFloor}
    IN  [k \in 1 .. Cardinality(halvings) |-> [Blind EXCEPT !.cap = cap[k]]]

\* Everything at once as soon as something must go.
AllOrNothing(steps, budget) ==
    IF Weight(Head(steps)) <= budget THEN Head(steps) ELSE Last(steps)

\* The first of these to fit, and the last of them if none does.
FirstToFit(steps, budget) ==
    LET i == SelectInSeq(steps, LAMBDA shed : Weight(shed) <= budget)
    IN  IF i = 0 THEN Last(steps) ELSE steps[i]

Steps == <<Outset>> \o PictureSteps \o <<Blind>> \o ResultSteps

Shedding(budget) == FirstToFit(Steps, budget)

-----------------------------------------------------------------------------
(* The request.                                                            *)

Replayed(call, cap) == IF call.raw <= cap THEN call.raw ELSE cap

\* A result, marked where something of it is missing, and the picture it came with.
ResultMessage(call, i, shed) ==
    LET shown == sees /\ call.picture > 0 /\ i > shed.images
    IN  [kept |-> Replayed(call, shed.cap), cut |-> call.raw > shed.cap,
         shown |-> shown, unseen |-> sees /\ call.picture > 0 /\ ~shown]

ReplyMessages(i, shed) ==
    LET calls == replies[i].calls
    IN  [signed |-> i > shed.opaque,
         results |-> [c \in DOMAIN calls |-> ResultMessage(calls[c], i, shed)]]

Messages(shed) == [i \in DOMAIN replies |-> ReplyMessages(i, shed)]

Assemble(budget) ==
    LET shed == Shedding(budget)
    IN  [messages |-> Messages(shed), weight |-> Weight(shed), budget |-> budget]

-----------------------------------------------------------------------------
(* Reading a reply: a sequence of choices, each with prose, a call, signed *)
(* thinking, and a reason to finish.                                       *)

Choice(says, calls, unreadable, thinks, finish) ==
    [says |-> says, calls |-> calls, unreadable |-> unreadable,
     thinks |-> thinks, finish |-> finish]

ReplyChoices == {
    Choice(TRUE, <<>>, FALSE, FALSE, "stop"),
    Choice(FALSE, <<Text>>, FALSE, TRUE, "tool_calls"),
    Choice(FALSE, <<Look>>, FALSE, FALSE, "tool_calls"),
    Choice(FALSE, <<>>, TRUE, FALSE, "tool_calls"),
    Choice(FALSE, <<>>, FALSE, TRUE, "stop"),
    Choice(FALSE, <<>>, FALSE, FALSE, "length"),
    Choice(FALSE, <<>>, FALSE, FALSE, "content_filter")}

Some(choices, Is(_)) == \E i \in DOMAIN choices : Is(choices[i])

\* Calls before prose, whichever choices they came in; "length" before any other finish.
AnswerFrom(choices) ==
    LET calls == FlattenSeq([i \in DOMAIN choices |-> choices[i].calls])
        cut == Some(choices, LAMBDA c : c.finish = "length")
        filtered == choices # <<>> /\ Last(choices).finish = "content_filter"
        lost == Some(choices, LAMBDA c : c.unreadable) \/ cut \/ filtered
    IN  [kind |-> IF calls # <<>> THEN "acts"
                  ELSE IF Some(choices, LAMBDA c : c.says) THEN "spoke"
                  ELSE IF lost THEN "refused" ELSE "empty",
         reply |-> [calls |-> calls,
                    opaque |-> IF Some(choices, LAMBDA c : c.thinks) THEN Signature ELSE 0]]

\* The answers replies of two choices at most can give.
Answers == {AnswerFrom(choices) : choices \in SeqOf(ReplyChoices, 2)}

-----------------------------------------------------------------------------
(* The turn.                                                               *)

\* Half as much, unless that is below the floor.
Tighter(budget) == budget \div 2
CanTighten(budget) == Tighter(budget) >= BudgetFloor

\* A turn starts with what the King says, and of the model he has set by then.
Talk ==
    /\ asking.at = "idle"
    /\ said < MaxTalks
    /\ said' = said + 1
    /\ sees' \in BOOLEAN /\ limit' \in Limits
    /\ asking' = [Idle EXCEPT !.at = "round"]
    /\ UNCHANGED <<replies, sent>>

Ask ==
    /\ asking.at \in {"round", "again"}
    /\ sent' = Assemble(asking.budget)
    /\ asking' = [asking EXCEPT !.at = "asked", !.asks = @ + 1]
    /\ UNCHANGED <<replies, said, sees, limit>>

Settle == asking' = Idle /\ sent' = NotSent /\ UNCHANGED <<replies, said, sees, limit>>

\* The gateway does not read what is too large: asked again with less.
TooLargeAgain ==
    /\ asking' = [asking EXCEPT !.at = "again", !.budget = Tighter(@)]
    /\ UNCHANGED <<replies, said, sees, limit, sent>>

TooLarge ==
    /\ asking.at = "asked" /\ sent.weight > limit
    /\ IF CanTighten(asking.budget) THEN TooLargeAgain ELSE Settle

\* As if every attempt started over.
AskInFull ==
    /\ asking' = [asking EXCEPT !.at = "again", !.attempt = @ + 1, !.budget = FullBudget]
    /\ UNCHANGED <<replies, said, sees, limit, sent>>

\* No reply, or an empty one: asked again as it is, a few times.
AskAsItWas ==
    /\ asking' = [asking EXCEPT !.at = "again", !.attempt = @ + 1]
    /\ UNCHANGED <<replies, said, sees, limit, sent>>

WorthAskingAgain == asking.attempt < MostAttempts - 1

Transient == IF WorthAskingAgain THEN AskAsItWas ELSE Settle

Unwell == asking.at = "asked" /\ Transient

Hear(answer) ==
    /\ asking.at = "asked" /\ sent.weight <= limit
    /\ \/ /\ answer.kind = "acts"
          /\ Len(replies) < MaxReplies
          /\ replies' = Append(replies, answer.reply)
          /\ asking' = [Idle EXCEPT !.at = "round"]
          /\ sent' = NotSent /\ UNCHANGED <<said, sees, limit>>
       \/ /\ answer.kind = "spoke"
          /\ said' = said + 1
          /\ asking' = Idle
          /\ sent' = NotSent /\ UNCHANGED <<replies, sees, limit>>
       \/ answer.kind = "empty" /\ Transient
       \/ answer.kind = "refused" /\ Settle

\* Any other status of the gateway is its answer.
Refuse == asking.at = "asked" /\ Settle

\* A stop is heard at the top of a round, while the model thinks and during a pause.
StopAsking == asking.at # "idle" /\ Settle

RNext ==
    \/ Talk \/ Ask \/ TooLarge \/ Unwell \/ Refuse \/ StopAsking
    \/ \E answer \in Answers : Hear(answer)

RSpec == RInit /\ [][RNext]_rvars

-----------------------------------------------------------------------------
\* Every variable keeps to the values the code gives it.
RTypeOK ==
    /\ \A i \in DOMAIN replies :
          /\ replies[i].opaque \in {0, Signature}
          /\ \A c \in DOMAIN replies[i].calls : replies[i].calls[c] \in {Text, Look}
    /\ said \in Nat /\ sees \in BOOLEAN /\ limit \in Limits \cup {0}
    /\ asking \in [at : {"idle", "round", "again", "asked"},
                   budget : BudgetFloor .. FullBudget,
                   attempt : 0 .. MostAttempts - 1, asks : Nat]
    /\ sent.weight \in Nat /\ sent.budget \in BudgetFloor .. FullBudget

NothingLiveIsShed ==
    asking.at = "asked" =>
    /\ DOMAIN sent.messages = DOMAIN replies
    /\ \A i \in DOMAIN replies :
          LET calls == replies[i].calls
              results == sent.messages[i].results
          IN  /\ Len(replies) - i < LiveReplies => sent.messages[i].signed
              /\ DOMAIN results = DOMAIN calls
              /\ \A c \in DOMAIN calls :
                    /\ results[c].kept > 0
                    /\ results[c].kept < calls[c].raw => results[c].cut
                    /\ calls[c].picture > 0 /\ sees => results[c].shown \/ results[c].unseen

Usual(call) == Replayed(call, MostReplayed)
Bare == \A i \in DOMAIN replies : \A c \in DOMAIN replies[i].calls :
            ~sent.messages[i].results[c].shown

LossesAreInOrder ==
    asking.at = "asked" =>
    \A i \in DOMAIN replies : \A c \in DOMAIN replies[i].calls :
        LET result == sent.messages[i].results[c]
            whole == Usual(replies[i].calls[c])
        IN  /\ sent.weight > sent.budget => Bare /\ result.kept <= ResultFloor
            /\ result.kept < whole => Bare /\ Weight(Blind) > sent.budget
            /\ Weight(Outset) <= sent.budget =>
                  /\ result.kept = whole
                  /\ result.unseen => Len(replies) - i >= RecentReplies

(* However small the budget, a request answers every call, signs the       *)
(* replies the model may still be thinking from, cuts no result to nothing,*)
(* and says of a result what is missing from it                            *)
(* (copilot.rs:701-709 and 756-770).                                       *)
(* Nothing is left out that need not be.  A request over its budget has no *)
(* picture in it and no result worth halving; a result is cut short of the *)
(* usual only when all pictures gone was not enough; a recent one goes only*)
(* when with all the recent ones the request would not fit                 *)
(* (copilot.rs:738-777).                                                   *)
ShedsOnlyWhatItMust == NothingLiveIsShed /\ LossesAreInOrder

Halvings == Cardinality({k \in 1 .. FullBudget : Halved(FullBudget)[k] >= BudgetFloor})

(* A round asks only so often, whatever mix of failures it meets, and what *)
(* it asks again is never larger than what the gateway has already had     *)
(* from it: neither a pause nor an empty reply undoes the shrinking        *)
(* (turn.rs:401-446).                                                      *)
AskedAgainNoLarger ==
    [][/\ asking'.asks <= MostAttempts + Halvings
       /\ asking'.asks > asking.asks /\ asking.asks > 0 => sent'.weight <= sent.weight]_rvars
=============================================================================
