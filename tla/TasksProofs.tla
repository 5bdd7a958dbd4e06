------------------------------ MODULE TasksProofs ------------------------------
(***************************************************************************)
(* What is proved of the tool calls that wait for something: a question    *)
(* for the King's answer, the errands for their reports, a job for the end *)
(* of a command; and of the processes kept for a plan, that neither a      *)
(* Chrome nor a process of its network is forgotten.                       *)
(***************************************************************************)
EXTENDS MCProgress, FiniteSetTheorems, TLAPS

(* Questions.                                                              *)

(* While a sender is in the map nobody has been told his answer landed, so *)
(* that the first who is told so is the only one; and an answer that       *)
(* landed in time stays in the channel as long as its call waits.          *)
QuestionOK(c) ==
    /\ asking[c] = "idle" => c \notin slot
    /\ c \in pending => asking[c] \notin {"idle", "over"}
    /\ asking[c] = "idle" \/ c \in pending => Landed(c) = {}
    /\ \A t, u \in Landed(c) : t = u
    /\ result[c] # "none" <=> asking[c] = "over"
    /\ c \in slot => /\ c \notin pending
                     /\ asking[c] \notin {"expired", "halted"}
                     /\ asking[c] = "over" => result[c] = "answered"

InTime(c) == {t \in Tab : reply[t][c] = "landed"}

InTimeOK(c) ==
    InTime(c) # {} =>
        /\ asking[c] \notin {"expiring", "expired"}
        /\ asking[c] = "parked" => c \in slot
        /\ result[c] # "expired"

QuestionInv == \A c \in Call : QuestionOK(c) /\ InTimeOK(c)

LEMMA QTypeNext == QTypeOK /\ [QNext]_qvars => QTypeOK'
<1> SUFFICES ASSUME QTypeOK, [QNext]_qvars
             PROVE  QTypeOK'
    OBVIOUS
<1> USE DEF QTypeOK
<1>1. ASSUME NEW c \in Call, Ask(c) PROVE QTypeOK'
    BY <1>1 DEF Ask
<1>2. ASSUME NEW c \in Call, Hear(c) PROVE QTypeOK'
    BY <1>2 DEF Hear
<1>3. ASSUME NEW c \in Call, Expire(c) PROVE QTypeOK'
    BY <1>3 DEF Expire
<1>4. ASSUME NEW c \in Call, DropReceiver(c) PROVE QTypeOK'
    BY <1>4 DEF DropReceiver
<1>5. ASSUME NEW c \in Call, Refuse(c) PROVE QTypeOK'
    BY <1>5 DEF Refuse
<1>6. ASSUME NEW c \in Call, Halt(c) PROVE QTypeOK'
    BY <1>6 DEF Halt
<1>7. ASSUME NEW c \in Call, Abandon(c) PROVE QTypeOK'
    BY <1>7 DEF Abandon
<1>8. ASSUME NEW c \in Call, NEW t \in Tab, Answer(t, c) PROVE QTypeOK'
    <2>1. Told(c) \in {"landed", "landed late", "nothing waiting"}
        BY DEF Told
    <2> QED
        BY <2>1, <1>8 DEF Answer
<1>9. CASE Restart
    BY <1>9 DEF Restart
<1>10. CASE UNCHANGED qvars
    BY <1>10 DEF qvars
<1> QED
    BY <1>1, <1>2, <1>3, <1>4, <1>5, <1>6, <1>7, <1>8, <1>9, <1>10 DEF QNext

(* A call nobody touches stays as it was.                                  *)
LEMMA QuestionRests ==
    ASSUME NEW d \in Call, QuestionOK(d) /\ InTimeOK(d),
           asking'[d] = asking[d], result'[d] = result[d],
           d \in pending' <=> d \in pending, d \in slot' <=> d \in slot,
           \A t \in Tab : reply'[t][d] = reply[t][d]
    PROVE  QuestionOK(d)' /\ InTimeOK(d)'
<1>1. Landed(d)' = Landed(d) /\ InTime(d)' = InTime(d)
    BY DEF Landed, InTime
<1>2. QuestionOK(d)'
    BY <1>1 DEF QuestionOK
<1> QED
    BY <1>1, <1>2 DEF InTimeOK

LEMMA QuestionInvNext ==
    QTypeOK /\ QuestionInv /\ [QNext]_qvars => QuestionInv'
<1> SUFFICES ASSUME QTypeOK, QuestionInv, [QNext]_qvars, NEW d \in Call
             PROVE  QuestionOK(d)' /\ InTimeOK(d)'
    BY DEF QuestionInv
<1>0. QuestionOK(d) /\ InTimeOK(d)
    BY DEF QuestionInv
<1> USE DEF QTypeOK
<1>1. ASSUME NEW c \in Call, Ask(c) PROVE QuestionOK(d)' /\ InTimeOK(d)'
    <2>1. CASE c = d
        <3>1. Landed(d)' = Landed(d) /\ InTime(d)' = InTime(d)
            BY <1>1 DEF Ask, Landed, InTime
        <3>0. InTime(d) \subseteq Landed(d)
            BY DEF InTime, Landed
        <3>2. QuestionOK(d)'
            BY <1>0, <1>1, <2>1, <3>1 DEF Ask, QuestionOK
        <3>3. InTimeOK(d)'
            BY <1>0, <1>1, <2>1, <3>0, <3>1 DEF Ask, InTimeOK, QuestionOK
        <3> QED
            BY <3>2, <3>3
    <2>2. CASE c # d
        BY <1>0, <1>1, <2>2, QuestionRests DEF Ask
    <2> QED
        BY <2>1, <2>2
<1>2. ASSUME NEW c \in Call, Hear(c) PROVE QuestionOK(d)' /\ InTimeOK(d)'
    <2>1. CASE c = d
        <3>1. Landed(d)' = Landed(d) /\ InTime(d)' = InTime(d)
            BY <1>2 DEF Hear, Landed, InTime
        <3>0. InTime(d) \subseteq Landed(d)
            BY DEF InTime, Landed
        <3>2. QuestionOK(d)'
            BY <1>0, <1>2, <2>1, <3>1 DEF Hear, QuestionOK
        <3>3. InTimeOK(d)'
            BY <1>0, <1>2, <2>1, <3>0, <3>1 DEF Hear, InTimeOK, QuestionOK
        <3> QED
            BY <3>2, <3>3
    <2>2. CASE c # d
        BY <1>0, <1>2, <2>2, QuestionRests DEF Hear
    <2> QED
        BY <2>1, <2>2
<1>3. ASSUME NEW c \in Call, Expire(c) PROVE QuestionOK(d)' /\ InTimeOK(d)'
    <2>1. CASE c = d
        <3>1. Landed(d)' = Landed(d) /\ InTime(d)' = InTime(d)
            BY <1>3 DEF Expire, Landed, InTime
        <3>0. InTime(d) \subseteq Landed(d)
            BY DEF InTime, Landed
        <3>2. QuestionOK(d)'
            BY <1>0, <1>3, <2>1, <3>1 DEF Expire, QuestionOK
        <3>3. InTimeOK(d)'
            BY <1>0, <1>3, <2>1, <3>0, <3>1 DEF Expire, InTimeOK, QuestionOK
        <3> QED
            BY <3>2, <3>3
    <2>2. CASE c # d
        BY <1>0, <1>3, <2>2, QuestionRests DEF Expire
    <2> QED
        BY <2>1, <2>2
<1>4. ASSUME NEW c \in Call, DropReceiver(c) PROVE QuestionOK(d)' /\ InTimeOK(d)'
    <2>1. CASE c = d
        <3>1. Landed(d)' = Landed(d) /\ InTime(d)' = InTime(d)
            BY <1>4 DEF DropReceiver, Landed, InTime
        <3>0. InTime(d) \subseteq Landed(d)
            BY DEF InTime, Landed
        <3>2. QuestionOK(d)'
            BY <1>0, <1>4, <2>1, <3>1 DEF DropReceiver, QuestionOK
        <3>3. InTimeOK(d)'
            BY <1>0, <1>4, <2>1, <3>0, <3>1 DEF DropReceiver, InTimeOK, QuestionOK
        <3> QED
            BY <3>2, <3>3
    <2>2. CASE c # d
        BY <1>0, <1>4, <2>2, QuestionRests DEF DropReceiver
    <2> QED
        BY <2>1, <2>2
<1>5. ASSUME NEW c \in Call, Refuse(c) PROVE QuestionOK(d)' /\ InTimeOK(d)'
    <2>1. CASE c = d
        <3>1. Landed(d)' = Landed(d) /\ InTime(d)' = InTime(d)
            BY <1>5 DEF Refuse, Landed, InTime
        <3>0. InTime(d) \subseteq Landed(d)
            BY DEF InTime, Landed
        <3>2. QuestionOK(d)'
            BY <1>0, <1>5, <2>1, <3>1 DEF Refuse, QuestionOK
        <3>3. InTimeOK(d)'
            BY <1>0, <1>5, <2>1, <3>0, <3>1 DEF Refuse, InTimeOK, QuestionOK
        <3> QED
            BY <3>2, <3>3
    <2>2. CASE c # d
        BY <1>0, <1>5, <2>2, QuestionRests DEF Refuse
    <2> QED
        BY <2>1, <2>2
<1>6. ASSUME NEW c \in Call, Halt(c) PROVE QuestionOK(d)' /\ InTimeOK(d)'
    <2>1. CASE c = d
        <3>1. Landed(d)' = Landed(d) /\ InTime(d)' = InTime(d)
            BY <1>6 DEF Halt, Landed, InTime
        <3>0. InTime(d) \subseteq Landed(d)
            BY DEF InTime, Landed
        <3>2. QuestionOK(d)'
            BY <1>0, <1>6, <2>1, <3>1 DEF Halt, QuestionOK
        <3>3. InTimeOK(d)'
            BY <1>0, <1>6, <2>1, <3>0, <3>1 DEF Halt, InTimeOK, QuestionOK
        <3> QED
            BY <3>2, <3>3
    <2>2. CASE c # d
        BY <1>0, <1>6, <2>2, QuestionRests DEF Halt
    <2> QED
        BY <2>1, <2>2
<1>7. ASSUME NEW c \in Call, Abandon(c) PROVE QuestionOK(d)' /\ InTimeOK(d)'
    <2>1. CASE c = d
        <3>1. Landed(d)' = Landed(d) /\ InTime(d)' = InTime(d)
            BY <1>7 DEF Abandon, Landed, InTime
        <3>0. InTime(d) \subseteq Landed(d)
            BY DEF InTime, Landed
        <3>2. QuestionOK(d)'
            BY <1>0, <1>7, <2>1, <3>1 DEF Abandon, QuestionOK
        <3>3. InTimeOK(d)'
            BY <1>0, <1>7, <2>1, <3>0, <3>1 DEF Abandon, InTimeOK, QuestionOK
        <3> QED
            BY <3>2, <3>3
    <2>2. CASE c # d
        BY <1>0, <1>7, <2>2, QuestionRests DEF Abandon
    <2> QED
        BY <2>1, <2>2
<1>8. ASSUME NEW c \in Call, NEW t \in Tab, Answer(t, c) PROVE QuestionOK(d)' /\ InTimeOK(d)'
    <2>1. CASE c = d
        <3>1. Landed(d)' \subseteq Landed(d) \cup {t}
            BY <1>8, <2>1 DEF Answer, Landed
        <3>2. Landed(d)' = Landed(d) \/ d \in pending
            BY <1>8, <2>1 DEF Answer, Told, Landed
        <3>3. QuestionOK(d)'
            BY <1>0, <1>8, <2>1, <3>1, <3>2
               DEF Answer, Told, Listening, QuestionOK
        <3>4. /\ InTime(d)' \subseteq InTime(d) \cup {t}
              /\ InTime(d)' = InTime(d)
                    \/ (d \in pending /\ asking[d] = "parked")
            <4>1. CASE d \in pending /\ asking[d] = "parked"
                BY <1>8, <2>1, <4>1 DEF Answer, InTime
            <4>2. CASE ~(d \in pending /\ asking[d] = "parked")
                <5>1. Told(d) # "landed"
                    BY <4>2 DEF Told, Listening
                <5>2. ASSUME NEW u \in Tab
                      PROVE  reply'[u][d] = "landed" <=> reply[u][d] = "landed"
                    <6>1. CASE u = t
                        BY <1>8, <2>1, <5>1, <6>1 DEF Answer
                    <6>2. CASE u # t
                        BY <1>8, <2>1, <6>2 DEF Answer
                    <6> QED
                        BY <6>1, <6>2
                <5> QED
                    BY <5>2 DEF InTime
            <4> QED
                BY <4>1, <4>2
        <3>5. InTimeOK(d)'
            BY <1>0, <1>8, <2>1, <3>4
               DEF Answer, Told, Listening, InTimeOK, QuestionOK
        <3> QED
            BY <3>3, <3>5
    <2>2. CASE c # d
        BY <1>0, <1>8, <2>2, QuestionRests DEF Answer
    <2> QED
        BY <2>1, <2>2
<1>9. CASE Restart
    <2>1. Landed(d)' = Landed(d) /\ InTime(d)' = InTime(d)
        BY <1>9 DEF Restart, Landed, InTime
    <2>2. QuestionOK(d)'
        BY <1>0, <1>9, <2>1 DEF Restart, QuestionOK
    <2>3. InTimeOK(d)'
        BY <1>0, <1>9, <2>1 DEF Restart, InTimeOK, QuestionOK
    <2> QED
        BY <2>2, <2>3
<1>10. CASE UNCHANGED qvars
    BY <1>0, <1>10, QuestionRests DEF qvars
<1> QED
    BY <1>1, <1>2, <1>3, <1>4, <1>5, <1>6, <1>7, <1>8, <1>9, <1>10 DEF QNext

(* Of the tabs that answer a question one at most is told its answer        *)
(* landed, an answer told to have landed is not reported as never given,   *)
(* and nothing of a settled call stays behind (ask_user_question.rs,       *)
(* answer and wait), for any calls and tabs.                               *)
THEOREM OneAnswerLands == QSpec => []AnswerLandsOnce
<1>1. QInit => QTypeOK
    BY DEF QInit, QTypeOK
<1>2. QInit => QuestionInv
    <2> SUFFICES ASSUME QInit, NEW c \in Call
                 PROVE  QuestionOK(c) /\ InTimeOK(c)
        BY DEF QuestionInv
    <2>1. Landed(c) = {} /\ InTime(c) = {}
        BY DEF QInit, Landed, InTime
    <2> QED
        BY <2>1 DEF QInit, QuestionOK, InTimeOK
<1>3. QTypeOK /\ QuestionInv => AnswerLandsOnce
    <2> SUFFICES ASSUME QTypeOK, QuestionInv, NEW c \in Call
                 PROVE  /\ Cardinality(Landed(c)) <= 1
                        /\ result[c] = "expired" => \A t \in Tab : reply[t][c] # "landed"
                        /\ c \in pending => asking[c] \notin {"idle", "over"}
                        /\ c \in slot => result[c] \in {"none", "answered"}
        BY DEF AnswerLandsOnce
    <2>0. QuestionOK(c) /\ InTimeOK(c)
        BY DEF QuestionInv
    <2>1. Cardinality(Landed(c)) <= 1
        <3>1. CASE Landed(c) = {}
            BY <3>1, FS_EmptySet
        <3>2. CASE Landed(c) # {}
            <4>1. PICK t : t \in Landed(c)
                BY <3>2
            <4>2. Landed(c) = {t}
                BY <2>0, <4>1 DEF QuestionOK
            <4>3. Cardinality({t}) = 1
                BY FS_Singleton
            <4> QED
                BY <4>2, <4>3
        <3> QED
            BY <3>1, <3>2
    <2> QED
        BY <2>0, <2>1 DEF QuestionOK, InTimeOK, InTime, QTypeOK
<1> QED
    BY <1>1, <1>2, <1>3, QTypeNext, QuestionInvNext, PTL DEF QSpec

-----------------------------------------------------------------------------
(* Errands.                                                                *)

(* What is collected is over, so that a browser dismissed of it stays       *)
(* dismissed; dismissals go through the errands in the order of the call.  *)
CollectedInv ==
    /\ parent \in {"working", "sending"} => joined = {}
    /\ \A c \in joined : errand[c] = "over"
    /\ parent = "dismissing" => \A c \in browser : c \in joined => c >= next
    /\ parent = "reported" => \A c \in browser : c \notin joined

(* Every errand a Stop found on record is still to be halted, or was, or   *)
(* had no turn.                                                            *)
StopInv ==
    /\ stop # "none" => sought \subseteq listed \cup called \cup stale
    /\ stop \in {"repaired", "done"} => listed = {}

LEMMA ETypeNext == ETypeOK /\ [ENext]_evars => ETypeOK'
<1> SUFFICES ASSUME ETypeOK, [ENext]_evars
             PROVE  ETypeOK'
    OBVIOUS
<1> USE DEF ETypeOK, StopVars
<1>0. /\ 1 \in 1 .. MaxErrands + 1
      /\ next <= MaxErrands => next \in Errand /\ next + 1 \in 1 .. MaxErrands + 1
      /\ 0 \in 0 .. MaxErrands /\ Errand \subseteq 0 .. MaxErrands
    BY ErrandsAssumption DEF Errand
<1>1. CASE Record
    BY <1>0, <1>1 DEF Record
<1>2. CASE Send
    BY <1>0, <1>2 DEF Send
<1>3. CASE Collect
    BY <1>0, <1>3 DEF Collect
<1>4. CASE AllCollected
    BY <1>0, <1>4 DEF AllCollected
<1>5. CASE Dismiss
    BY <1>0, <1>5 DEF Dismiss
<1>6. CASE Report
    BY <1>0, <1>6 DEF Report
<1>7. CASE StrikeDeadline
    BY <1>0, <1>7 DEF StrikeDeadline
<1>8. CASE ParentHalts
    BY <1>0, <1>8 DEF ParentHalts
<1>9. ASSUME NEW c \in Errand, Enter(c) PROVE ETypeOK'
    BY <1>0, <1>9 DEF Enter
<1>10. ASSUME NEW c \in Errand, Mark(c) PROVE ETypeOK'
    BY <1>0, <1>10 DEF Mark
<1>11. ASSUME NEW c \in Errand, Browse(c) PROVE ETypeOK'
    BY <1>0, <1>11 DEF Browse
<1>12. ASSUME NEW c \in Errand, Finish(c) PROVE ETypeOK'
    BY <1>0, <1>12 DEF Finish
<1>13. ASSUME NEW c \in Errand, StopHalts(c) PROVE ETypeOK'
    <2>1. called' \subseteq 0 .. MaxErrands
        BY <1>0, <1>13 DEF StopHalts
    <2>2. listed' \subseteq Errand /\ stale' \subseteq Errand
        BY <1>13 DEF StopHalts
    <2> QED
        BY <2>1, <2>2, <1>13 DEF StopHalts
<1>14. CASE StopLists
    BY <1>0, <1>14 DEF StopLists
<1>15. CASE StopRepairs
    BY <1>0, <1>15 DEF StopRepairs
<1>16. CASE StopParent
    BY <1>0, <1>16 DEF StopParent
<1>17. CASE UNCHANGED evars
    BY <1>0, <1>17 DEF evars
<1> QED
    BY <1>1, <1>2, <1>3, <1>4, <1>5, <1>6, <1>7, <1>8, <1>9, <1>10, <1>11,
       <1>12, <1>13, <1>14, <1>15, <1>16, <1>17 DEF ENext

LEMMA CollectedInvNext ==
    ETypeOK /\ CollectedInv /\ [ENext]_evars => CollectedInv'
<1> SUFFICES ASSUME ETypeOK, CollectedInv, [ENext]_evars
             PROVE  CollectedInv'
    OBVIOUS
<1> USE ErrandsAssumption DEF ETypeOK, CollectedInv, Errand, StopVars
<1>1. CASE Record
    BY <1>1 DEF Record
<1>2. CASE Send
    BY <1>2 DEF Send
<1>3. CASE Collect
    BY <1>3 DEF Collect
<1>4. CASE AllCollected
    BY <1>4 DEF AllCollected
<1>5. CASE Dismiss
    BY <1>5 DEF Dismiss
<1>6. CASE Report
    BY <1>6 DEF Report
<1>7. CASE StrikeDeadline
    BY <1>7 DEF StrikeDeadline
<1>8. CASE ParentHalts
    BY <1>8 DEF ParentHalts
<1>9. ASSUME NEW c \in Errand, Enter(c) PROVE CollectedInv'
    BY <1>9 DEF Enter
<1>10. ASSUME NEW c \in Errand, Mark(c) PROVE CollectedInv'
    BY <1>10 DEF Mark
<1>11. ASSUME NEW c \in Errand, Browse(c) PROVE CollectedInv'
    BY <1>11 DEF Browse
<1>12. ASSUME NEW c \in Errand, Finish(c) PROVE CollectedInv'
    BY <1>12 DEF Finish
<1>13. ASSUME NEW c \in Errand, StopHalts(c) PROVE CollectedInv'
    BY <1>13 DEF StopHalts, Registered
<1>14. CASE StopLists
    BY <1>14 DEF StopLists
<1>15. CASE StopRepairs
    BY <1>15 DEF StopRepairs
<1>16. CASE StopParent
    BY <1>16 DEF StopParent
<1>17. CASE UNCHANGED evars
    BY <1>17 DEF evars
<1> QED
    BY <1>1, <1>2, <1>3, <1>4, <1>5, <1>6, <1>7, <1>8, <1>9, <1>10, <1>11,
       <1>12, <1>13, <1>14, <1>15, <1>16, <1>17 DEF ENext

LEMMA StopInvNext == ETypeOK /\ StopInv /\ [ENext]_evars => StopInv'
<1> SUFFICES ASSUME ETypeOK, StopInv, [ENext]_evars
             PROVE  StopInv'
    OBVIOUS
<1> USE DEF ETypeOK, StopInv, StopVars
<1>1. CASE Record
    BY <1>1 DEF Record
<1>2. CASE Send
    BY <1>2 DEF Send
<1>3. CASE Collect
    BY <1>3 DEF Collect
<1>4. CASE AllCollected
    BY <1>4 DEF AllCollected
<1>5. CASE Dismiss
    BY <1>5 DEF Dismiss
<1>6. CASE Report
    BY <1>6 DEF Report
<1>7. CASE StrikeDeadline
    BY <1>7 DEF StrikeDeadline
<1>8. CASE ParentHalts
    BY <1>8 DEF ParentHalts
<1>9. ASSUME NEW c \in Errand, Enter(c) PROVE StopInv'
    BY <1>9 DEF Enter
<1>10. ASSUME NEW c \in Errand, Mark(c) PROVE StopInv'
    BY <1>10 DEF Mark
<1>11. ASSUME NEW c \in Errand, Browse(c) PROVE StopInv'
    BY <1>11 DEF Browse
<1>12. ASSUME NEW c \in Errand, Finish(c) PROVE StopInv'
    BY <1>12 DEF Finish
<1>13. ASSUME NEW c \in Errand, StopHalts(c) PROVE StopInv'
    BY <1>13 DEF StopHalts, Registered
<1>14. CASE StopLists
    BY <1>14 DEF StopLists
<1>15. CASE StopRepairs
    BY <1>15 DEF StopRepairs
<1>16. CASE StopParent
    BY <1>16 DEF StopParent
<1>17. CASE UNCHANGED evars
    BY <1>17 DEF evars
<1> QED
    BY <1>1, <1>2, <1>3, <1>4, <1>5, <1>6, <1>7, <1>8, <1>9, <1>10, <1>11,
       <1>12, <1>13, <1>14, <1>15, <1>16, <1>17 DEF ENext

LEMMA ETypeInit == EInit => ETypeOK
<1>1. 1 \in 1 .. MaxErrands + 1
    BY ErrandsAssumption
<1> QED
    BY <1>1 DEF EInit, ETypeOK

(* Whatever deadline struck and whichever subagents outlived it, no errand *)
(* whose report was collected has a browser open once the call reports     *)
(* (turn.rs, spawn_subagents), for any number of errands.                  *)
THEOREM CollectedAreDismissed == ESpec => []CollectedErrandsShut
<1>1. EInit => CollectedInv
    BY DEF EInit, CollectedInv
<1>2. CollectedInv => CollectedErrandsShut
    BY DEF CollectedInv, CollectedErrandsShut
<1> QED
    BY <1>1, <1>2, ETypeInit, ETypeNext, CollectedInvNext, PTL DEF ESpec

(* A Stop that is done has called the halt of every errand it found on     *)
(* record and that has a turn, save those it looked for before their turn  *)
(* was in the register (api.rs, stop_plan), for any number of errands.     *)
THEOREM StopReachesThemAll == ESpec => []StopReachesErrands
<1>1. EInit => StopInv
    BY DEF EInit, StopInv
<1>2. StopInv => StopReachesErrands
    BY DEF StopInv, StopReachesErrands
<1> QED
    BY <1>1, <1>2, ETypeInit, ETypeNext, StopInvNext, PTL DEF ESpec

-----------------------------------------------------------------------------
(* Jobs.                                                                   *)

Handle == [shell : {"none", "running", "over"}, group : BOOLEAN, stray : BOOLEAN,
           wrote : 0 .. MaxLines, read : 0 .. MaxLines, drained : BOOLEAN,
           reaper : {"joining", "waited", "published", "lost"},
           old : BOOLEAN, killed : BOOLEAN]

HandlesTypeOK ==
    job \in [Job -> Handle] /\ \A i \in Job : job[i].read <= job[i].wrote

CallTypeOK ==
    /\ jobs \subseteq 1 .. begun /\ begun \in 0 .. MaxJobs
    /\ op \in [at : {"idle", "spawned", "waiting", "reporting", "signalling"},
               job : Job \cup {0}, ended : BOOLEAN, late : BOOLEAN,
               signal : Signal \cup {"none"}]
    /\ op.at # "idle" => op.job \in 1 .. begun

(* A job's output is whole once its readers have met the end of the pipe,  *)
(* which nobody can write to any more, and only then does its reaper run.  *)
ReaperOK(i) ==
    /\ job[i].drained => /\ job[i].shell = "over" /\ ~job[i].group /\ ~job[i].stray
                         /\ job[i].read = job[i].wrote
    /\ job[i].reaper # "joining" => job[i].drained
    /\ i > begun => job[i].shell = "none" /\ ~job[i].group

ReaperInv == \A i \in Job : ReaperOK(i)

(* The call reports an end it saw, and a job that goes on has its handle.  *)
HandleInv ==
    /\ op.at = "reporting" /\ op.ended => Finished(op.job)
    /\ \A i \in 1 .. begun :
            ~Finished(i) => i \in jobs \/ (op.at = "spawned" /\ op.job = i)

(* A signal ends the shell, or the rest of its group, or nobody.           *)
LEMMA SignalReaches ==
    ASSUME HandlesTypeOK, CallTypeOK, SendSignal
    PROVE  /\ op.job \in Job /\ op.job <= begun /\ begun' = begun
           /\ \/ job' = job
              \/ \E h \in Handle :
                    /\ job' = [job EXCEPT ![op.job] = h]
                    /\ h.shell \in {job[op.job].shell, "over"}
                    /\ h.group => job[op.job].group
                    /\ h.stray = job[op.job].stray
                    /\ h.wrote = job[op.job].wrote /\ h.read = job[op.job].read
                    /\ h.drained = job[op.job].drained
                    /\ h.reaper = job[op.job].reaper
<1>1. /\ op.job \in Job /\ op.job <= begun /\ begun' = begun
      /\ job[op.job] \in Handle
    BY JobsAssumption DEF SendSignal, HandlesTypeOK, CallTypeOK, Job
<1> DEFINE old == job[op.job]
           H(s, g) == [old EXCEPT
                        !.killed = old.killed \/ op.signal = "KILL",
                        !.shell = IF s THEN Reached(op.job).shell ELSE old.shell,
                        !.group = IF g THEN Reached(op.job).group ELSE old.group]
<1>2. PICK s, g \in BOOLEAN : job' = job \/ job' = [job EXCEPT ![op.job] = H(s, g)]
    BY DEF SendSignal
<1> DEFINE h == H(s, g)
<1>3. job' = job \/ job' = [job EXCEPT ![op.job] = h]
    BY <1>2
<1>4. Reached(op.job).shell = "over" /\ Reached(op.job).group = FALSE
    BY <1>1 DEF Reached, Handle
<1>5. /\ h \in Handle
      /\ h.shell \in {job[op.job].shell, "over"}
      /\ h.group => job[op.job].group
      /\ h.stray = job[op.job].stray
      /\ h.wrote = job[op.job].wrote /\ h.read = job[op.job].read
      /\ h.drained = job[op.job].drained
      /\ h.reaper = job[op.job].reaper
    BY <1>1, <1>4 DEF Handle
<1> HIDE DEF h
<1> QED
    BY <1>1, <1>3, <1>5

LEMMA HandlesTypeNext ==
    HandlesTypeOK /\ CallTypeOK /\ [JNext]_jvars => HandlesTypeOK'
<1> SUFFICES ASSUME HandlesTypeOK, CallTypeOK, [JNext]_jvars
             PROVE  HandlesTypeOK'
    OBVIOUS
<1> USE DEF HandlesTypeOK, Handle
<1>1. ASSUME NEW i \in Job, WriteLine(i) PROVE HandlesTypeOK'
    <2>1. job[i].wrote + 1 \in 0 .. MaxLines
        BY <1>1, JobsAssumption DEF WriteLine
    <2> QED
        BY <2>1, <1>1 DEF WriteLine
<1>2. ASSUME NEW i \in Job, StartChild(i) PROVE HandlesTypeOK'
    BY ZenonT(60), <1>2 DEF StartChild
<1>3. ASSUME NEW i \in Job, ChildLeaves(i) PROVE HandlesTypeOK'
    BY ZenonT(60), <1>3 DEF ChildLeaves
<1>4. ASSUME NEW i \in Job, ShellExits(i) PROVE HandlesTypeOK'
    BY <1>4 DEF ShellExits
<1>5. ASSUME NEW i \in Job, OthersExit(i) PROVE HandlesTypeOK'
    BY ZenonT(60), <1>5 DEF OthersExit
<1>6. ASSUME NEW i \in Job, Drain(i) PROVE HandlesTypeOK'
    <2>1. job[i].read + 1 \in 0 .. MaxLines /\ job[i].read + 1 <= job[i].wrote
        BY <1>6, JobsAssumption DEF Drain
    <2> QED
        BY <2>1, <1>6 DEF Drain
<1>7. ASSUME NEW i \in Job, DrainEnds(i) PROVE HandlesTypeOK'
    BY ZenonT(60), <1>7 DEF DrainEnds
<1>8. ASSUME NEW i \in Job, ReapJob(i) PROVE HandlesTypeOK'
    BY <1>8 DEF ReapJob
<1>9. ASSUME NEW i \in Job, PublishEnd(i) PROVE HandlesTypeOK'
    BY <1>9 DEF PublishEnd
<1>10. ASSUME NEW i \in Job, GrowOld(i) PROVE HandlesTypeOK'
    BY ZenonT(60), <1>10 DEF GrowOld
<1>11. ASSUME NEW i \in Job, CallWait(i) PROVE HandlesTypeOK'
    BY <1>11 DEF CallWait
<1>12. ASSUME NEW i \in Job, CallPeek(i) PROVE HandlesTypeOK'
    BY <1>12 DEF CallPeek
<1>13. ASSUME NEW i \in Job, NEW s \in Signal, CallKill(i, s)
      PROVE  HandlesTypeOK'
    BY <1>13 DEF CallKill
<1>14. CASE SpawnJob
    <2>1. begun + 1 \in Job
        BY <1>14, JobsAssumption DEF SpawnJob, CallTypeOK, Job
    <2> QED
        BY <2>1, <1>14 DEF SpawnJob
<1>15. CASE RegisterJob
    BY <1>15 DEF RegisterJob
<1>16. CASE Settle
    BY <1>16 DEF Settle
<1>17. CASE ReportJob
    BY <1>17 DEF ReportJob
<1>18. CASE HaltOp
    BY <1>18 DEF HaltOp
<1>19. CASE SendSignal
    BY <1>19, SignalReaches
<1>20. CASE UNCHANGED jvars
    BY <1>20 DEF jvars
<1> QED
    BY <1>1, <1>2, <1>3, <1>4, <1>5, <1>6, <1>7, <1>8, <1>9, <1>10, <1>11,
       <1>12, <1>13, <1>14, <1>15, <1>16, <1>17, <1>18, <1>19, <1>20 DEF JNext

LEMMA CallTypeNext ==
    HandlesTypeOK /\ CallTypeOK /\ [JNext]_jvars => CallTypeOK'
<1> SUFFICES ASSUME HandlesTypeOK, CallTypeOK, [JNext]_jvars
             PROVE  CallTypeOK'
    OBVIOUS
<1> USE JobsAssumption DEF CallTypeOK, Job, Signal
<1>1. ASSUME NEW i \in Job, WriteLine(i) PROVE CallTypeOK'
    BY <1>1 DEF WriteLine
<1>2. ASSUME NEW i \in Job, StartChild(i) PROVE CallTypeOK'
    BY <1>2 DEF StartChild
<1>3. ASSUME NEW i \in Job, ChildLeaves(i) PROVE CallTypeOK'
    BY <1>3 DEF ChildLeaves
<1>4. ASSUME NEW i \in Job, ShellExits(i) PROVE CallTypeOK'
    BY <1>4 DEF ShellExits
<1>5. ASSUME NEW i \in Job, OthersExit(i) PROVE CallTypeOK'
    BY <1>5 DEF OthersExit
<1>6. ASSUME NEW i \in Job, Drain(i) PROVE CallTypeOK'
    BY <1>6 DEF Drain
<1>7. ASSUME NEW i \in Job, DrainEnds(i) PROVE CallTypeOK'
    BY <1>7 DEF DrainEnds
<1>8. ASSUME NEW i \in Job, ReapJob(i) PROVE CallTypeOK'
    BY <1>8 DEF ReapJob
<1>9. ASSUME NEW i \in Job, PublishEnd(i) PROVE CallTypeOK'
    BY <1>9 DEF PublishEnd
<1>10. ASSUME NEW i \in Job, GrowOld(i) PROVE CallTypeOK'
    BY <1>10 DEF GrowOld
<1>11. ASSUME NEW i \in Job, CallWait(i) PROVE CallTypeOK'
    <2>1. op' = [NoOp EXCEPT !.at = "waiting", !.job = i, !.late = Reaped(i)]
        BY <1>11 DEF CallWait
    <2>2. Reaped(i) \in BOOLEAN
        BY DEF Reaped
    <2> QED
        BY <2>1, <2>2, <1>11 DEF CallWait, NoOp
<1>12. ASSUME NEW i \in Job, CallPeek(i) PROVE CallTypeOK'
    <2>1. op' = [NoOp EXCEPT !.at = "reporting", !.job = i, !.ended = Finished(i),
                             !.late = Reaped(i)]
        BY <1>12 DEF CallPeek
    <2>2. Finished(i) \in BOOLEAN /\ Reaped(i) \in BOOLEAN
        BY DEF Finished, Reaped
    <2> QED
        BY <2>1, <2>2, <1>12 DEF CallPeek, NoOp
<1>13. ASSUME NEW i \in Job, NEW s \in Signal, CallKill(i, s)
      PROVE  CallTypeOK'
    BY <1>13 DEF CallKill, Finished, NoOp
<1>14. CASE SpawnJob
    <2>1. begun + 1 \in 1 .. MaxJobs /\ begun' = begun + 1
        BY <1>14 DEF SpawnJob
    <2>2. op' = [at |-> "spawned", job |-> begun + 1, ended |-> FALSE, late |-> FALSE,
                 signal |-> "none"]
        BY <1>14 DEF SpawnJob, NoOp
    <2>3. jobs' \subseteq 1 .. begun'
        BY <2>1, <1>14 DEF SpawnJob
    <2> QED
        BY <2>1, <2>2, <2>3
<1>15. CASE RegisterJob
    BY <1>15 DEF RegisterJob, Remembered
<1>16. CASE Settle
    <2>1. op' = [op EXCEPT !.at = "reporting", !.ended = Finished(op.job)]
        BY <1>16 DEF Settle
    <2>2. Finished(op.job) \in BOOLEAN
        BY DEF Finished
    <2> QED
        BY <2>1, <2>2, <1>16 DEF Settle
<1>17. CASE ReportJob
    BY <1>17 DEF ReportJob, NoOp
<1>18. CASE HaltOp
    BY <1>18 DEF HaltOp, NoOp
<1>19. CASE SendSignal
    BY <1>19 DEF SendSignal, NoOp
<1>20. CASE UNCHANGED jvars
    BY <1>20 DEF jvars
<1> QED
    BY <1>1, <1>2, <1>3, <1>4, <1>5, <1>6, <1>7, <1>8, <1>9, <1>10, <1>11,
       <1>12, <1>13, <1>14, <1>15, <1>16, <1>17, <1>18, <1>19, <1>20 DEF JNext

LEMMA ReaperInvNext ==
    HandlesTypeOK /\ CallTypeOK /\ ReaperInv /\ [JNext]_jvars => ReaperInv'
<1> SUFFICES ASSUME HandlesTypeOK, CallTypeOK, ReaperInv, [JNext]_jvars,
                    NEW d \in Job
             PROVE  ReaperOK(d)'
    BY DEF ReaperInv
<1>0. /\ ReaperOK(d) /\ job \in [Job -> Handle] /\ begun \in Nat /\ d \in Nat
    BY JobsAssumption DEF ReaperInv, HandlesTypeOK, CallTypeOK, Job
<1> USE DEF ReaperOK, Handle
<1>1. ASSUME NEW i \in Job, WriteLine(i) PROVE ReaperOK(d)'
    <2>1. CASE i = d
        BY <1>0, <1>1, <2>1 DEF WriteLine, Held
    <2>2. CASE i # d
        BY <1>0, <1>1, <2>2 DEF WriteLine
    <2> QED
        BY <2>1, <2>2
<1>2. ASSUME NEW i \in Job, StartChild(i) PROVE ReaperOK(d)'
    <2>1. CASE i = d
        BY <1>0, <1>2, <2>1 DEF StartChild
    <2>2. CASE i # d
        BY <1>0, <1>2, <2>2 DEF StartChild
    <2> QED
        BY <2>1, <2>2
<1>3. ASSUME NEW i \in Job, ChildLeaves(i) PROVE ReaperOK(d)'
    <2>1. CASE i = d
        BY <1>0, <1>3, <2>1 DEF ChildLeaves
    <2>2. CASE i # d
        BY <1>0, <1>3, <2>2 DEF ChildLeaves
    <2> QED
        BY <2>1, <2>2
<1>4. ASSUME NEW i \in Job, ShellExits(i) PROVE ReaperOK(d)'
    <2>1. CASE i = d
        BY <1>0, <1>4, <2>1 DEF ShellExits
    <2>2. CASE i # d
        BY <1>0, <1>4, <2>2 DEF ShellExits
    <2> QED
        BY <2>1, <2>2
<1>5. ASSUME NEW i \in Job, OthersExit(i) PROVE ReaperOK(d)'
    <2>1. CASE i = d
        BY <1>0, <1>5, <2>1 DEF OthersExit
    <2>2. CASE i # d
        BY <1>0, <1>5, <2>2 DEF OthersExit
    <2> QED
        BY <2>1, <2>2
<1>6. ASSUME NEW i \in Job, Drain(i) PROVE ReaperOK(d)'
    <2>1. CASE i = d
        BY <1>0, <1>6, <2>1 DEF Drain
    <2>2. CASE i # d
        BY <1>0, <1>6, <2>2 DEF Drain
    <2> QED
        BY <2>1, <2>2
<1>7. ASSUME NEW i \in Job, DrainEnds(i) PROVE ReaperOK(d)'
    <2>1. CASE i = d
        BY <1>0, <1>7, <2>1 DEF DrainEnds, Held
    <2>2. CASE i # d
        BY <1>0, <1>7, <2>2 DEF DrainEnds
    <2> QED
        BY <2>1, <2>2
<1>8. ASSUME NEW i \in Job, ReapJob(i) PROVE ReaperOK(d)'
    <2>1. CASE i = d
        BY <1>0, <1>8, <2>1 DEF ReapJob, ReadyToReap
    <2>2. CASE i # d
        BY <1>0, <1>8, <2>2 DEF ReapJob
    <2> QED
        BY <2>1, <2>2
<1>9. ASSUME NEW i \in Job, PublishEnd(i) PROVE ReaperOK(d)'
    <2>1. CASE i = d
        BY <1>0, <1>9, <2>1 DEF PublishEnd
    <2>2. CASE i # d
        BY <1>0, <1>9, <2>2 DEF PublishEnd
    <2> QED
        BY <2>1, <2>2
<1>10. ASSUME NEW i \in Job, GrowOld(i) PROVE ReaperOK(d)'
    <2>1. CASE i = d
        BY <1>0, <1>10, <2>1 DEF GrowOld, Finished
    <2>2. CASE i # d
        BY <1>0, <1>10, <2>2 DEF GrowOld
    <2> QED
        BY <2>1, <2>2
<1>11. ASSUME NEW i \in Job, CallWait(i) PROVE ReaperOK(d)'
    BY <1>0, <1>11 DEF CallWait
<1>12. ASSUME NEW i \in Job, CallPeek(i) PROVE ReaperOK(d)'
    BY <1>0, <1>12 DEF CallPeek
<1>13. ASSUME NEW i \in Job, NEW s \in Signal, CallKill(i, s)
      PROVE  ReaperOK(d)'
    BY <1>0, <1>13 DEF CallKill
<1>14. CASE SpawnJob
    <2>1. CASE d = begun + 1
        BY <1>0, <1>14, <2>1 DEF SpawnJob
    <2>2. CASE d # begun + 1
        BY <1>0, <1>14, <2>2 DEF SpawnJob
    <2> QED
        BY <2>1, <2>2
<1>15. CASE RegisterJob
    BY <1>0, <1>15 DEF RegisterJob
<1>16. CASE Settle
    BY <1>0, <1>16 DEF Settle
<1>17. CASE ReportJob
    BY <1>0, <1>17 DEF ReportJob
<1>18. CASE HaltOp
    BY <1>0, <1>18 DEF HaltOp
<1>19. CASE SendSignal
    <2>1. CASE job' = job
        BY <1>0, <2>1, <1>19, SignalReaches
    <2>2. CASE job' # job
        <3>1. PICK h \in Handle :
                    /\ job' = [job EXCEPT ![op.job] = h]
                    /\ h.shell \in {job[op.job].shell, "over"}
                    /\ h.group => job[op.job].group
                    /\ h.stray = job[op.job].stray
                    /\ h.wrote = job[op.job].wrote /\ h.read = job[op.job].read
                    /\ h.drained = job[op.job].drained
                    /\ h.reaper = job[op.job].reaper
            BY <1>19, <2>2, SignalReaches
        <3>2. op.job \in Job /\ op.job <= begun /\ begun' = begun
            BY <1>19, SignalReaches
        <3>3. CASE op.job = d
            BY <1>0, <3>1, <3>2, <3>3
        <3>4. CASE op.job # d
            BY <1>0, <3>1, <3>2, <3>4
        <3> QED
            BY <3>3, <3>4
    <2> QED
        BY <2>1, <2>2
<1>20. CASE UNCHANGED jvars
    BY <1>0, <1>20 DEF jvars
<1> QED
    BY <1>1, <1>2, <1>3, <1>4, <1>5, <1>6, <1>7, <1>8, <1>9, <1>10, <1>11,
       <1>12, <1>13, <1>14, <1>15, <1>16, <1>17, <1>18, <1>19, <1>20 DEF JNext

LEMMA HandleInvNext ==
    HandlesTypeOK /\ CallTypeOK /\ HandleInv /\ [JNext]_jvars => HandleInv'
<1> SUFFICES ASSUME HandlesTypeOK, CallTypeOK, HandleInv, [JNext]_jvars
             PROVE  HandleInv'
    OBVIOUS
<1> USE JobsAssumption DEF HandlesTypeOK, CallTypeOK, HandleInv, Finished, Handle, Job
<1>1. ASSUME NEW i \in Job, WriteLine(i) PROVE HandleInv'
    BY <1>1 DEF WriteLine, Held
<1>2. ASSUME NEW i \in Job, StartChild(i) PROVE HandleInv'
    BY <1>2 DEF StartChild
<1>3. ASSUME NEW i \in Job, ChildLeaves(i) PROVE HandleInv'
    BY <1>3 DEF ChildLeaves
<1>4. ASSUME NEW i \in Job, ShellExits(i) PROVE HandleInv'
    BY <1>4 DEF ShellExits
<1>5. ASSUME NEW i \in Job, OthersExit(i) PROVE HandleInv'
    BY <1>5 DEF OthersExit
<1>6. ASSUME NEW i \in Job, Drain(i) PROVE HandleInv'
    BY <1>6 DEF Drain
<1>7. ASSUME NEW i \in Job, DrainEnds(i) PROVE HandleInv'
    BY <1>7 DEF DrainEnds, Held
<1>8. ASSUME NEW i \in Job, ReapJob(i) PROVE HandleInv'
    BY <1>8 DEF ReapJob, ReadyToReap
<1>9. ASSUME NEW i \in Job, PublishEnd(i) PROVE HandleInv'
    BY <1>9 DEF PublishEnd
<1>10. ASSUME NEW i \in Job, GrowOld(i) PROVE HandleInv'
    BY <1>10 DEF GrowOld
<1>11. ASSUME NEW i \in Job, CallWait(i) PROVE HandleInv'
    BY <1>11 DEF CallWait, NoOp
<1>12. ASSUME NEW i \in Job, CallPeek(i) PROVE HandleInv'
    BY <1>12 DEF CallPeek, NoOp
<1>13. ASSUME NEW i \in Job, NEW s \in Signal, CallKill(i, s) PROVE HandleInv'
    BY <1>13 DEF CallKill, NoOp
<1>14. CASE SpawnJob
    BY <1>14 DEF SpawnJob, NoOp
<1>15. CASE RegisterJob
    BY <1>15 DEF RegisterJob, Remembered
<1>16. CASE Settle
    BY <1>16 DEF Settle
<1>17. CASE ReportJob
    BY <1>17 DEF ReportJob, NoOp
<1>18. CASE HaltOp
    BY <1>18 DEF HaltOp, NoOp
<1>19. CASE SendSignal
    <2>0. op.at # "idle" /\ op' = NoOp /\ jobs' = jobs
        BY <1>19 DEF SendSignal
    <2>1. \A i \in Job : job'[i].reaper = job[i].reaper
        BY <1>19, SignalReaches
    <2>2. begun' = begun
        BY <1>19, SignalReaches
    <2> QED
        BY <2>0, <2>1, <2>2, <1>19 DEF SendSignal, NoOp
<1>20. CASE UNCHANGED jvars
    BY <1>20 DEF jvars
<1> QED
    BY <1>1, <1>2, <1>3, <1>4, <1>5, <1>6, <1>7, <1>8, <1>9, <1>10, <1>11,
       <1>12, <1>13, <1>14, <1>15, <1>16, <1>17, <1>18, <1>19, <1>20 DEF JNext

(* Whatever leaves the command's group, ignores a signal or goes on writing *)
(* after its shell, a call that reports an end has all the output, and no   *)
(* command that goes on loses its handle to the next (bash.rs, reap and    *)
(* forget_the_long_dead), for any number of commands and lines.            *)
THEOREM WholeReports == JSpec => []ReportsAreWhole
<1>1. JInit => HandlesTypeOK /\ CallTypeOK /\ ReaperInv /\ HandleInv
    BY JobsAssumption DEF JInit, NoJob, NoOp, HandlesTypeOK, CallTypeOK, ReaperInv, ReaperOK,
       HandleInv, Handle, Job, Signal
<1>2. CallTypeOK /\ ReaperInv /\ HandleInv => ReportsAreWhole
    BY JobsAssumption DEF CallTypeOK, ReaperInv, ReaperOK, HandleInv, ReportsAreWhole, Finished, Job
<1> QED
    BY <1>1, <1>2, HandlesTypeNext, CallTypeNext, ReaperInvNext, HandleInvNext, PTL
       DEF JSpec

-----------------------------------------------------------------------------
(* The launch.                                                             *)

(* One call at a time launches, with the map's lock held and nothing in    *)
(* the map, a Chrome that no other call has heard of.                      *)
LaunchInv ==
    /\ \A k \in BCall : call[k] \in {"launching", "claiming"} <=> k \in launcher
    /\ \A j, k \in launcher : j = k
    /\ launcher # {} => session = NoChrome
    /\ \A k \in BCall :
        /\ IF call[k] \in {"idle", "wanting", "launching"}
           THEN with[k] = NoChrome ELSE with[k] \in Chrome
        /\ call[k] = "claiming" => \A j \in BCall : with[j] = with[k] => j = k

(* A server that has yet to sweep has done nothing else.                   *)
UnsweptInv ==
    ~swept => /\ session = NoChrome /\ closing = {} /\ launcher = {}
              /\ \A k \in BCall : call[k] = "idle"

(* A Chrome that is not yet launched is nobody's.                          *)
UnbornInv ==
    \A i \in Chrome : chrome[i] = Unborn =>
        i # session /\ i \notin closing /\ \A k \in BCall : with[k] # i

(* The claim on disk is that of every Chrome left to the next server, as   *)
(* far as it was there to be read when its server died.                    *)
LeftInv ==
    \A i \in Chrome :
        /\ Up(i) => chrome[i] \in 1 .. server
        /\ ~swept => chrome[i] # server
        /\ ~swept /\ Up(i) /\ i \notin unnamed => claim = chrome[i]
        /\ swept /\ Up(i) /\ chrome[i] # server => i \in unnamed

HeldInv ==
    \A i \in Chrome : chrome[i] = server =>
        \/ i = session \/ i \in closing
        \/ \E k \in BCall : call[k] = "claiming" /\ with[k] = i

UsedInv == \A k \in BCall : call[k] = "using" => with[k] \in Chrome /\ Up(with[k])

BrowserInv == LaunchInv /\ UnsweptInv /\ UnbornInv /\ LeftInv /\ HeldInv /\ UsedInv

LEMMA BrowserFacts ==
    /\ NoChrome = 0 /\ Unborn = 0 /\ Dead = MaxServers + 1
    /\ 0 \notin Chrome /\ MaxServers \in Nat \ {0}
    /\ BTypeOK => /\ server \in Nat \ {0} /\ server < Dead /\ Dead \in Nat
                  /\ server < MaxServers => server + 1 < Dead
BY BrowsersAssumption DEF NoChrome, Unborn, Dead, Chrome, BTypeOK

LEMMA BTypeNext == BTypeOK /\ [BNext]_bvars => BTypeOK'
<1> SUFFICES ASSUME BTypeOK, [BNext]_bvars
             PROVE  BTypeOK'
    OBVIOUS
<1>0. /\ 0 \in 0 .. MaxServers /\ NoChrome = 0
      /\ server \in 0 .. MaxServers /\ server \in 0 .. MaxServers + 1
      /\ Dead \in 0 .. MaxServers + 1
      /\ server < MaxServers => server + 1 \in 1 .. MaxServers
    BY BrowsersAssumption DEF BTypeOK, Dead, NoChrome
<1> USE DEF BTypeOK
<1>1. ASSUME NEW k \in BCall, Look(k) PROVE BTypeOK'
    BY <1>0, <1>1 DEF Look, Hand
<1>2. ASSUME NEW k \in BCall, Lock(k) PROVE BTypeOK'
    BY <1>0, <1>2 DEF Lock, Hand
<1>3. ASSUME NEW k \in BCall, Launch(k) PROVE BTypeOK'
    BY <1>0, <1>3 DEF Launch
<1>4. ASSUME NEW k \in BCall, Claim(k) PROVE BTypeOK'
    BY <1>0, <1>4 DEF Claim
<1>5. ASSUME NEW k \in BCall, LaunchFails(k) PROVE BTypeOK'
    BY <1>0, <1>5 DEF LaunchFails, Kill
<1>6. ASSUME NEW k \in BCall, Guard(k) PROVE BTypeOK'
    BY <1>0, <1>6 DEF Guard
<1>7. ASSUME NEW k \in BCall, Done(k) PROVE BTypeOK'
    BY <1>0, <1>7 DEF Done
<1>8. ASSUME NEW i \in Chrome, ShutDown(i) PROVE BTypeOK'
    BY <1>0, <1>8 DEF ShutDown, Kill
<1>9. CASE Dismissed
    BY <1>0, <1>9 DEF Dismissed, Remove
<1>10. CASE GoCold
    BY <1>0, <1>10 DEF GoCold
<1>11. CASE Survey
    BY <1>0, <1>11 DEF Survey
<1>12. CASE Reap
    BY <1>0, <1>12 DEF Reap, Remove
<1>13. CASE Watch
    BY <1>0, <1>13 DEF Watch
<1>14. CASE Crash
    BY <1>0, <1>14 DEF Crash
<1>15. CASE Sweep
    BY <1>0, <1>15 DEF Sweep, Kill
<1>16. CASE UNCHANGED bvars
    BY <1>0, <1>16 DEF bvars
<1> QED
    BY <1>1, <1>2, <1>3, <1>4, <1>5, <1>6, <1>7, <1>8, <1>9, <1>10, <1>11,
       <1>12, <1>13, <1>14, <1>15, <1>16 DEF BNext

LEMMA LaunchInvNext ==
    BTypeOK /\ BrowserInv /\ [BNext]_bvars => LaunchInv'
<1> SUFFICES ASSUME BTypeOK, BrowserInv, [BNext]_bvars
             PROVE  LaunchInv'
    OBVIOUS
<1>0. LaunchInv /\ UnsweptInv /\ UnbornInv
    BY DEF BrowserInv
<1>h. /\ NoChrome = 0 /\ Unborn = 0 /\ 0 \notin Chrome
      /\ server \in Nat \ {0} /\ server < Dead /\ Dead \in Nat
      /\ server < MaxServers => server + 1 < Dead
    BY BrowserFacts
<1> USE DEF BTypeOK, LaunchInv
<1>1. ASSUME NEW k \in BCall, Look(k) PROVE LaunchInv'
    BY <1>0, <1>h, <1>1 DEF Look, Hand
<1>2. ASSUME NEW k \in BCall, Lock(k) PROVE LaunchInv'
    BY <1>0, <1>h, <1>2 DEF Lock, Hand
<1>3. ASSUME NEW k \in BCall, Launch(k) PROVE LaunchInv'
    BY <1>0, <1>h, <1>3 DEF Launch, UnbornInv
<1>4. ASSUME NEW k \in BCall, Claim(k) PROVE LaunchInv'
    BY <1>0, <1>h, <1>4 DEF Claim
<1>5. ASSUME NEW k \in BCall, LaunchFails(k) PROVE LaunchInv'
    BY <1>0, <1>h, <1>5 DEF LaunchFails, Kill
<1>6. ASSUME NEW k \in BCall, Guard(k) PROVE LaunchInv'
    BY <1>0, <1>h, <1>6 DEF Guard
<1>7. ASSUME NEW k \in BCall, Done(k) PROVE LaunchInv'
    BY <1>0, <1>h, <1>7 DEF Done
<1>8. ASSUME NEW i \in Chrome, ShutDown(i) PROVE LaunchInv'
    BY <1>0, <1>h, <1>8 DEF ShutDown, Kill
<1>9. CASE Dismissed
    BY <1>0, <1>h, <1>9 DEF Dismissed, Remove
<1>10. CASE GoCold
    BY <1>0, <1>h, <1>10 DEF GoCold
<1>11. CASE Survey
    BY <1>0, <1>h, <1>11 DEF Survey
<1>12. CASE Reap
    BY <1>0, <1>h, <1>12 DEF Reap, Remove
<1>13. CASE Watch
    BY <1>0, <1>h, <1>13 DEF Watch
<1>14. CASE Crash
    BY <1>0, <1>h, <1>14 DEF Crash
<1>15. CASE Sweep
    BY <1>0, <1>h, <1>15 DEF Sweep, Kill
<1>16. CASE UNCHANGED bvars
    BY <1>0, <1>h, <1>16 DEF bvars
<1> QED
    BY <1>1, <1>2, <1>3, <1>4, <1>5, <1>6, <1>7, <1>8, <1>9, <1>10, <1>11,
       <1>12, <1>13, <1>14, <1>15, <1>16 DEF BNext

LEMMA UnsweptInvNext ==
    BTypeOK /\ BrowserInv /\ [BNext]_bvars => UnsweptInv'
<1> SUFFICES ASSUME BTypeOK, BrowserInv, [BNext]_bvars
             PROVE  UnsweptInv'
    OBVIOUS
<1>0. UnsweptInv /\ LaunchInv
    BY DEF BrowserInv
<1>h. /\ NoChrome = 0 /\ Unborn = 0 /\ 0 \notin Chrome
      /\ server \in Nat \ {0} /\ server < Dead /\ Dead \in Nat
      /\ server < MaxServers => server + 1 < Dead
    BY BrowserFacts
<1> USE DEF UnsweptInv
<1>1. ASSUME NEW k \in BCall, Look(k) PROVE UnsweptInv'
    BY <1>0, <1>h, <1>1 DEF Look, Hand
<1>2. ASSUME NEW k \in BCall, Lock(k) PROVE UnsweptInv'
    BY <1>0, <1>h, <1>2 DEF Lock, Hand
<1>3. ASSUME NEW k \in BCall, Launch(k) PROVE UnsweptInv'
    BY <1>0, <1>h, <1>3 DEF Launch
<1>4. ASSUME NEW k \in BCall, Claim(k) PROVE UnsweptInv'
    BY <1>0, <1>h, <1>4 DEF Claim
<1>5. ASSUME NEW k \in BCall, LaunchFails(k) PROVE UnsweptInv'
    BY <1>0, <1>h, <1>5 DEF LaunchFails, Kill
<1>6. ASSUME NEW k \in BCall, Guard(k) PROVE UnsweptInv'
    BY <1>0, <1>h, <1>6 DEF Guard
<1>7. ASSUME NEW k \in BCall, Done(k) PROVE UnsweptInv'
    BY <1>0, <1>h, <1>7 DEF Done
<1>8. ASSUME NEW i \in Chrome, ShutDown(i) PROVE UnsweptInv'
    BY <1>0, <1>h, <1>8 DEF ShutDown, Kill
<1>9. CASE Dismissed
    BY <1>0, <1>h, <1>9 DEF Dismissed, Remove
<1>10. CASE GoCold
    BY <1>0, <1>h, <1>10 DEF GoCold
<1>11. CASE Survey
    BY <1>0, <1>h, <1>11 DEF Survey
<1>12. CASE Reap
    BY <1>0, <1>h, <1>12 DEF Reap, Remove
<1>13. CASE Watch
    BY <1>0, <1>h, <1>13 DEF Watch
<1>14. CASE Crash
    BY <1>0, <1>h, <1>14 DEF Crash
<1>15. CASE Sweep
    BY <1>0, <1>h, <1>15 DEF Sweep, Kill
<1>16. CASE UNCHANGED bvars
    BY <1>0, <1>h, <1>16 DEF bvars
<1> QED
    BY <1>1, <1>2, <1>3, <1>4, <1>5, <1>6, <1>7, <1>8, <1>9, <1>10, <1>11,
       <1>12, <1>13, <1>14, <1>15, <1>16 DEF BNext

LEMMA UnbornInvNext ==
    BTypeOK /\ BrowserInv /\ [BNext]_bvars => UnbornInv'
<1> SUFFICES ASSUME BTypeOK, BrowserInv, [BNext]_bvars
             PROVE  UnbornInv'
    OBVIOUS
<1>0. UnbornInv /\ LaunchInv
    BY DEF BrowserInv
<1>h. /\ NoChrome = 0 /\ Unborn = 0 /\ 0 \notin Chrome
      /\ server \in Nat \ {0} /\ server < Dead /\ Dead \in Nat
      /\ server < MaxServers => server + 1 < Dead
    BY BrowserFacts
<1> USE DEF BTypeOK, UnbornInv
<1>1. ASSUME NEW k \in BCall, Look(k) PROVE UnbornInv'
    BY <1>0, <1>h, <1>1 DEF Look, Hand
<1>2. ASSUME NEW k \in BCall, Lock(k) PROVE UnbornInv'
    BY <1>0, <1>h, <1>2 DEF Lock, Hand
<1>3. ASSUME NEW k \in BCall, Launch(k) PROVE UnbornInv'
    BY <1>0, <1>h, <1>3 DEF Launch
<1>4. ASSUME NEW k \in BCall, Claim(k) PROVE UnbornInv'
    BY <1>0, <1>h, <1>4 DEF Claim
<1>5. ASSUME NEW k \in BCall, LaunchFails(k) PROVE UnbornInv'
    BY <1>0, <1>h, <1>5 DEF LaunchFails, Kill
<1>6. ASSUME NEW k \in BCall, Guard(k) PROVE UnbornInv'
    BY <1>0, <1>h, <1>6 DEF Guard
<1>7. ASSUME NEW k \in BCall, Done(k) PROVE UnbornInv'
    BY <1>0, <1>h, <1>7 DEF Done
<1>8. ASSUME NEW i \in Chrome, ShutDown(i) PROVE UnbornInv'
    BY <1>0, <1>h, <1>8 DEF ShutDown, Kill
<1>9. CASE Dismissed
    BY <1>0, <1>h, <1>9 DEF Dismissed, Remove
<1>10. CASE GoCold
    BY <1>0, <1>h, <1>10 DEF GoCold
<1>11. CASE Survey
    BY <1>0, <1>h, <1>11 DEF Survey
<1>12. CASE Reap
    BY <1>0, <1>h, <1>12 DEF Reap, Remove
<1>13. CASE Watch
    BY <1>0, <1>h, <1>13 DEF Watch
<1>14. CASE Crash
    BY <1>0, <1>h, <1>14 DEF Crash
<1>15. CASE Sweep
    BY <1>0, <1>h, <1>15 DEF Sweep, Kill
<1>16. CASE UNCHANGED bvars
    BY <1>0, <1>h, <1>16 DEF bvars
<1> QED
    BY <1>1, <1>2, <1>3, <1>4, <1>5, <1>6, <1>7, <1>8, <1>9, <1>10, <1>11,
       <1>12, <1>13, <1>14, <1>15, <1>16 DEF BNext

LEMMA LeftInvNext ==
    BTypeOK /\ BrowserInv /\ [BNext]_bvars => LeftInv'
<1> SUFFICES ASSUME BTypeOK, BrowserInv, [BNext]_bvars
             PROVE  LeftInv'
    OBVIOUS
<1>0. LeftInv /\ UnsweptInv
    BY DEF BrowserInv
<1>h. /\ NoChrome = 0 /\ Unborn = 0 /\ 0 \notin Chrome
      /\ server \in Nat \ {0} /\ server < Dead /\ Dead \in Nat
      /\ server < MaxServers => server + 1 < Dead
    BY BrowserFacts
<1> USE DEF BTypeOK, LeftInv, Up
<1>1. ASSUME NEW k \in BCall, Look(k) PROVE LeftInv'
    BY <1>0, <1>h, <1>1 DEF Look, Hand, UnsweptInv
<1>2. ASSUME NEW k \in BCall, Lock(k) PROVE LeftInv'
    BY <1>0, <1>h, <1>2 DEF Lock, Hand, UnsweptInv
<1>3. ASSUME NEW k \in BCall, Launch(k) PROVE LeftInv'
    BY <1>0, <1>h, <1>3 DEF Launch, UnsweptInv
<1>4. ASSUME NEW k \in BCall, Claim(k) PROVE LeftInv'
    BY <1>0, <1>h, <1>4 DEF Claim, UnsweptInv
<1>5. ASSUME NEW k \in BCall, LaunchFails(k) PROVE LeftInv'
    BY <1>0, <1>h, <1>5 DEF LaunchFails, Kill, UnsweptInv
<1>6. ASSUME NEW k \in BCall, Guard(k) PROVE LeftInv'
    BY <1>0, <1>h, <1>6 DEF Guard, UnsweptInv
<1>7. ASSUME NEW k \in BCall, Done(k) PROVE LeftInv'
    BY <1>0, <1>h, <1>7 DEF Done, UnsweptInv
<1>8. ASSUME NEW i \in Chrome, ShutDown(i) PROVE LeftInv'
    BY <1>0, <1>h, <1>8 DEF ShutDown, Kill, UnsweptInv
<1>9. CASE Dismissed
    BY <1>0, <1>h, <1>9 DEF Dismissed
<1>10. CASE GoCold
    BY <1>0, <1>h, <1>10 DEF GoCold
<1>11. CASE Survey
    BY <1>0, <1>h, <1>11 DEF Survey
<1>12. CASE Reap
    BY <1>0, <1>h, <1>12 DEF Reap
<1>13. CASE Watch
    BY <1>0, <1>h, <1>13 DEF Watch
<1>14. CASE Crash
    BY <1>0, <1>h, <1>14 DEF Crash, UnsweptInv
<1>15. CASE Sweep
    BY <1>0, <1>h, <1>15 DEF Sweep, Kill, UnsweptInv
<1>16. CASE UNCHANGED bvars
    BY <1>0, <1>h, <1>16 DEF bvars
<1> QED
    BY <1>1, <1>2, <1>3, <1>4, <1>5, <1>6, <1>7, <1>8, <1>9, <1>10, <1>11,
       <1>12, <1>13, <1>14, <1>15, <1>16 DEF BNext

LEMMA HeldInvNext ==
    BTypeOK /\ BrowserInv /\ [BNext]_bvars => HeldInv'
<1> SUFFICES ASSUME BTypeOK, BrowserInv, [BNext]_bvars
             PROVE  HeldInv'
    OBVIOUS
<1>0. HeldInv /\ LaunchInv /\ UnsweptInv /\ LeftInv
    BY DEF BrowserInv
<1>h. /\ NoChrome = 0 /\ Unborn = 0 /\ 0 \notin Chrome
      /\ server \in Nat \ {0} /\ server < Dead /\ Dead \in Nat
      /\ server < MaxServers => server + 1 < Dead
    BY BrowserFacts
<1> USE DEF BTypeOK, HeldInv
<1>1. ASSUME NEW k \in BCall, Look(k) PROVE HeldInv'
    BY <1>0, <1>h, <1>1 DEF Look, Hand
<1>2. ASSUME NEW k \in BCall, Lock(k) PROVE HeldInv'
    BY <1>0, <1>h, <1>2 DEF Lock, Hand
<1>3. ASSUME NEW k \in BCall, Launch(k) PROVE HeldInv'
    BY <1>0, <1>h, <1>3 DEF Launch
<1>4. ASSUME NEW k \in BCall, Claim(k) PROVE HeldInv'
    BY <1>0, <1>h, <1>4 DEF Claim, LaunchInv
<1>5. ASSUME NEW k \in BCall, LaunchFails(k) PROVE HeldInv'
    BY <1>0, <1>h, <1>5 DEF LaunchFails, Kill
<1>6. ASSUME NEW k \in BCall, Guard(k) PROVE HeldInv'
    BY <1>0, <1>h, <1>6 DEF Guard
<1>7. ASSUME NEW k \in BCall, Done(k) PROVE HeldInv'
    BY <1>0, <1>h, <1>7 DEF Done
<1>8. ASSUME NEW i \in Chrome, ShutDown(i) PROVE HeldInv'
    BY <1>0, <1>h, <1>8 DEF ShutDown, Kill
<1>9. CASE Dismissed
    BY <1>0, <1>h, <1>9 DEF Dismissed, Remove
<1>10. CASE GoCold
    BY <1>0, <1>h, <1>10 DEF GoCold
<1>11. CASE Survey
    BY <1>0, <1>h, <1>11 DEF Survey
<1>12. CASE Reap
    BY <1>0, <1>h, <1>12 DEF Reap, Remove
<1>13. CASE Watch
    BY <1>0, <1>h, <1>13 DEF Watch
<1>14. CASE Crash
    BY <1>0, <1>h, <1>14 DEF Crash, LeftInv, Up
<1>15. CASE Sweep
    BY <1>0, <1>h, <1>15 DEF Sweep, Kill
<1>16. CASE UNCHANGED bvars
    BY <1>0, <1>h, <1>16 DEF bvars
<1> QED
    BY <1>1, <1>2, <1>3, <1>4, <1>5, <1>6, <1>7, <1>8, <1>9, <1>10, <1>11,
       <1>12, <1>13, <1>14, <1>15, <1>16 DEF BNext

LEMMA UsedInvNext ==
    BTypeOK /\ BrowserInv /\ [BNext]_bvars => UsedInv'
<1> SUFFICES ASSUME BTypeOK, BrowserInv, [BNext]_bvars
             PROVE  UsedInv'
    OBVIOUS
<1>0. UsedInv /\ LaunchInv /\ UnsweptInv
    BY DEF BrowserInv
<1>h. /\ NoChrome = 0 /\ Unborn = 0 /\ 0 \notin Chrome
      /\ server \in Nat \ {0} /\ server < Dead /\ Dead \in Nat
      /\ server < MaxServers => server + 1 < Dead
    BY BrowserFacts
<1> USE DEF BTypeOK, UsedInv, Up
<1>1. ASSUME NEW k \in BCall, Look(k) PROVE UsedInv'
    BY <1>0, <1>h, <1>1 DEF Look, Hand
<1>2. ASSUME NEW k \in BCall, Lock(k) PROVE UsedInv'
    BY <1>0, <1>h, <1>2 DEF Lock, Hand
<1>3. ASSUME NEW k \in BCall, Launch(k) PROVE UsedInv'
    BY <1>0, <1>h, <1>3 DEF Launch
<1>4. ASSUME NEW k \in BCall, Claim(k) PROVE UsedInv'
    BY <1>0, <1>h, <1>4 DEF Claim
<1>5. ASSUME NEW k \in BCall, LaunchFails(k) PROVE UsedInv'
    BY <1>0, <1>h, <1>5 DEF LaunchFails, Kill, LaunchInv
<1>6. ASSUME NEW k \in BCall, Guard(k) PROVE UsedInv'
    BY <1>0, <1>h, <1>6 DEF Guard, LaunchInv
<1>7. ASSUME NEW k \in BCall, Done(k) PROVE UsedInv'
    BY <1>0, <1>h, <1>7 DEF Done
<1>8. ASSUME NEW i \in Chrome, ShutDown(i) PROVE UsedInv'
    BY <1>0, <1>h, <1>8 DEF ShutDown, Kill
<1>9. CASE Dismissed
    BY <1>0, <1>h, <1>9 DEF Dismissed, Remove
<1>10. CASE GoCold
    BY <1>0, <1>h, <1>10 DEF GoCold
<1>11. CASE Survey
    BY <1>0, <1>h, <1>11 DEF Survey
<1>12. CASE Reap
    BY <1>0, <1>h, <1>12 DEF Reap, Remove
<1>13. CASE Watch
    BY <1>0, <1>h, <1>13 DEF Watch
<1>14. CASE Crash
    BY <1>0, <1>h, <1>14 DEF Crash
<1>15. CASE Sweep
    BY <1>0, <1>h, <1>15 DEF Sweep, Kill, UnsweptInv
<1>16. CASE UNCHANGED bvars
    BY <1>0, <1>h, <1>16 DEF bvars
<1> QED
    BY <1>1, <1>2, <1>3, <1>4, <1>5, <1>6, <1>7, <1>8, <1>9, <1>10, <1>11,
       <1>12, <1>13, <1>14, <1>15, <1>16 DEF BNext

LEMMA BrowserTypeInit == BInit => BTypeOK
<1>1. 1 \in 1 .. MaxServers /\ 0 \in 0 .. MaxServers + 1 /\ 0 \in 0 .. MaxServers
    BY BrowsersAssumption
<1> QED
    BY <1>1 DEF BInit, BTypeOK, Unborn, NoChrome

(* However calls, the reaper, dismissals and deaths of the server fall      *)
(* together, every Chrome of the server that runs is somebody's, one left  *)
(* by a server before it is killed before it serves unless its claim was   *)
(* not on disk, and none is shut down under its user (session.rs), for any *)
(* number of calls, Chromes and servers.                                   *)
THEOREM NoneForgotten == BSpec => []NoChromeForgotten
<1>1. BInit => BTypeOK
    BY BrowserTypeInit
<1>2. BInit => BrowserInv
    BY BrowserFacts, BrowsersAssumption
       DEF BInit, BrowserInv, LaunchInv, UnsweptInv, UnbornInv, LeftInv, HeldInv,
           UsedInv, Up
<1>3. BTypeOK /\ BrowserInv /\ [BNext]_bvars => BrowserInv'
    BY LaunchInvNext, UnsweptInvNext, UnbornInvNext, LeftInvNext, HeldInvNext,
       UsedInvNext DEF BrowserInv
<1>4. BrowserInv => NoChromeForgotten
    BY DEF BrowserInv, LeftInv, HeldInv, UsedInv, NoChromeForgotten
<1> QED
    BY <1>1, <1>2, <1>3, <1>4, BTypeNext, PTL DEF BSpec

-----------------------------------------------------------------------------
(* A plan's network.                                                       *)

(* What a caller is making is a namespace that has been made.              *)
SpacesInv ==
    /\ made \in Nat /\ holders \subseteq 1 .. made /\ slirps \subseteq 1 .. made
    /\ caller \in [Caller -> [at : Making \cup {"idle", "in", "wells"}, space : Nat]]
    /\ \A c \in Caller : caller[c].at \in Making => caller[c].space \in 1 .. made

(* Unless two made one at once, whoever makes a network is alone, and      *)
(* there is none.                                                          *)
AloneInv ==
    ~collided => \A c \in Caller : caller[c].at \in Making =>
        /\ registry = 0
        /\ \A d \in Caller : caller[d].at \in Making => d = c

(* How far each step of the making has come.                               *)
MakingInv ==
    ~collided => \A c \in Caller :
        /\ caller[c].at \in Making => caller[c].space \in holders
        /\ caller[c].at = "forking" => caller[c].space \notin slirps
        /\ caller[c].at \in {"socket", "finishing", "registering"} =>
            caller[c].space \in slirps
        /\ caller[c].at \in {"forking", "socket"} => pidfile = 0
        /\ caller[c].at = "socket" => sock = 0 \/ sock = caller[c].space
        /\ caller[c].at \in {"finishing", "registering"} =>
            sock = caller[c].space /\ pidfile = caller[c].space

WorkingInv ==
    ~collided /\ registry # 0 =>
        /\ registry \in holders /\ registry \in slirps
        /\ sock = registry /\ pidfile = registry

Accounted(x) ==
    \/ x \in mislaid \/ x = registry \/ x = pidfile
    \/ \E c \in Caller : caller[c].at \in Making /\ caller[c].space = x

AccountedInv == ~collided => \A x \in holders \cup slirps : Accounted(x)

NetworkInv == SpacesInv /\ AloneInv /\ MakingInv /\ WorkingInv /\ AccountedInv


LEMMA SpacesInvNext ==
    ASSUME SpacesInv, [SNext]_svars
    PROVE  SpacesInv'
<1> USE DEF SpacesInv, Making
<1>1. ASSUME NEW c \in Caller, AlreadyThere(c) PROVE SpacesInv'
    BY <1>1 DEF AlreadyThere, At, MayAsk, Files, History
<1>2. ASSUME NEW c \in Caller, StartOver(c) PROVE SpacesInv'
  <2>1. /\ made \in Nat /\ made' = made + 1 /\ made' \in Nat
        /\ 1 .. made \subseteq 1 .. made' /\ made' \in 1 .. made' /\ made' \notin 1 .. made
      BY <1>2 DEF StartOver, SpacesInv
  <2>2. /\ caller' = [caller EXCEPT ![c] = [at |-> "forking", space |-> made']]
        /\ caller'[c] = [at |-> "forking", space |-> made']
        /\ \A d \in Caller : d # c => caller'[d] = caller[d]
      BY <1>2, <2>1 DEF StartOver, SpacesInv
  <2>3. /\ holders' \subseteq holders \cup {made'} /\ made' \in holders'
        /\ slirps' \subseteq slirps /\ made' \notin slirps'
        /\ registry = 0 /\ registry' = 0
        /\ pidfile' = 0
        /\ caller[c].at = "idle"
      BY <1>2, <2>1 DEF StartOver, Reclaimed, Files, MayAsk, SpacesInv
  <2> QED
      BY <2>1, <2>2, <2>3
<1>3. ASSUME NEW c \in Caller, StartSlirp(c) PROVE SpacesInv'
    BY <1>3 DEF StartSlirp, At, History
<1>4. ASSUME NEW c \in Caller, ForkFails(c) PROVE SpacesInv'
    BY <1>4 DEF ForkFails, At, Files, History
<1>5. ASSUME NEW c \in Caller, RememberPids(c) PROVE SpacesInv'
    BY <1>5 DEF RememberPids, At, SocketThere, History
<1>6. ASSUME NEW c \in Caller, NoSocket(c) PROVE SpacesInv'
    BY <1>6 DEF NoSocket, At, Files, History
<1>7. ASSUME NEW c \in Caller, RootBuilt(c) PROVE SpacesInv'
    BY <1>7 DEF RootBuilt, At, Files, History
<1>8. ASSUME NEW c \in Caller, RootNotBuilt(c) PROVE SpacesInv'
    BY <1>8 DEF RootNotBuilt, At, Files, History
<1>9. ASSUME NEW c \in Caller, Register(c) PROVE SpacesInv'
    BY <1>9 DEF Register, At, Files, History
<1>10. ASSUME NEW c \in Caller, WatchDoors(c) PROVE SpacesInv'
    BY <1>10 DEF WatchDoors, At, Files, History
<1>11. ASSUME NEW c \in Caller, OpenWells(c) PROVE SpacesInv'
    BY <1>11 DEF OpenWells, At, Files, History
<1>12. ASSUME NEW s \in Space, SlirpListens(s) PROVE SpacesInv'
    BY <1>12 DEF SlirpListens, Files, History
<1>13. ASSUME NEW p \in Port, NEW kind \in {"loop", "every"}, Serve(p, kind)
      PROVE  SpacesInv'
    BY <1>13 DEF Serve, Files, History
<1>14. ASSUME NEW p \in Port, StopServing(p) PROVE SpacesInv'
    BY <1>14 DEF StopServing, Files, History
<1>15. ASSUME NEW p \in Port, DropDoor(p) PROVE SpacesInv'
    BY <1>15 DEF DropDoor, Files, History
<1>16. ASSUME NEW p \in Port, AddDoor(p) PROVE SpacesInv'
    BY <1>16 DEF AddDoor, Files, History
<1>17. ASSUME NEW p \in Port, DoorRefused(p) PROVE SpacesInv'
    BY <1>17 DEF DoorRefused, Files, History
<1>18. CASE Poll
    BY <1>18 DEF Poll, Files, History
<1>19. CASE Sleep
    BY <1>19 DEF Sleep, Files, History
<1>20. CASE StopWatching
    BY <1>20 DEF StopWatching, Files, History
<1>21. ASSUME NEW settles \in BOOLEAN, Shutdown(settles) PROVE SpacesInv'
    BY <1>21 DEF Shutdown, Files, History
<1>22. CASE ServerRestarts
    BY <1>22 DEF ServerRestarts, Files, History
<1>23. CASE UNCHANGED svars
    BY <1>23 DEF svars
<1> QED
    BY <1>1, <1>2, <1>3, <1>4, <1>5, <1>6, <1>7, <1>8, <1>9, <1>10, <1>11,
       <1>12, <1>13, <1>14, <1>15, <1>16, <1>17, <1>18, <1>19, <1>20, <1>21,
       <1>22, <1>23 DEF SNext

LEMMA AloneInvNext ==
    ASSUME SpacesInv, AloneInv, [SNext]_svars
    PROVE  AloneInv'
<1> USE DEF SpacesInv, AloneInv, Making
<1>1. ASSUME NEW c \in Caller, AlreadyThere(c) PROVE AloneInv'
    BY <1>1 DEF AlreadyThere, At, MayAsk, Files, History
<1>2. ASSUME NEW c \in Caller, StartOver(c) PROVE AloneInv'
  <2>1. /\ made \in Nat /\ made' = made + 1 /\ made' \in Nat
        /\ 1 .. made \subseteq 1 .. made' /\ made' \in 1 .. made' /\ made' \notin 1 .. made
      BY <1>2 DEF StartOver, SpacesInv
  <2>2. /\ caller' = [caller EXCEPT ![c] = [at |-> "forking", space |-> made']]
        /\ caller'[c] = [at |-> "forking", space |-> made']
        /\ \A d \in Caller : d # c => caller'[d] = caller[d]
      BY <1>2, <2>1 DEF StartOver, SpacesInv
  <2>3. /\ holders' \subseteq holders \cup {made'} /\ made' \in holders'
        /\ slirps' \subseteq slirps /\ made' \notin slirps'
        /\ registry = 0 /\ registry' = 0
        /\ pidfile' = 0
        /\ caller[c].at = "idle"
      BY <1>2, <2>1 DEF StartOver, Reclaimed, Files, MayAsk, SpacesInv
  <2>4. ~collided' => ~collided /\ \A d \in Caller : caller[d].at \notin Making
      BY <1>2 DEF StartOver, SpacesInv
  <2> QED
      BY <2>2, <2>3, <2>4
<1>3. ASSUME NEW c \in Caller, StartSlirp(c) PROVE AloneInv'
    BY <1>3 DEF StartSlirp, At, History
<1>4. ASSUME NEW c \in Caller, ForkFails(c) PROVE AloneInv'
    BY <1>4 DEF ForkFails, At, Files, History
<1>5. ASSUME NEW c \in Caller, RememberPids(c) PROVE AloneInv'
    BY <1>5 DEF RememberPids, At, SocketThere, History
<1>6. ASSUME NEW c \in Caller, NoSocket(c) PROVE AloneInv'
    BY <1>6 DEF NoSocket, At, Files, History
<1>7. ASSUME NEW c \in Caller, RootBuilt(c) PROVE AloneInv'
    BY <1>7 DEF RootBuilt, At, Files, History
<1>8. ASSUME NEW c \in Caller, RootNotBuilt(c) PROVE AloneInv'
    BY <1>8 DEF RootNotBuilt, At, Files, History
<1>9. ASSUME NEW c \in Caller, Register(c) PROVE AloneInv'
    BY <1>9 DEF Register, At, Files, History
<1>10. ASSUME NEW c \in Caller, WatchDoors(c) PROVE AloneInv'
    BY <1>10 DEF WatchDoors, At, Files, History
<1>11. ASSUME NEW c \in Caller, OpenWells(c) PROVE AloneInv'
    BY <1>11 DEF OpenWells, At, Files, History
<1>12. ASSUME NEW s \in Space, SlirpListens(s) PROVE AloneInv'
    BY <1>12 DEF SlirpListens, Files, History
<1>13. ASSUME NEW p \in Port, NEW kind \in {"loop", "every"}, Serve(p, kind)
      PROVE  AloneInv'
    BY <1>13 DEF Serve, Files, History
<1>14. ASSUME NEW p \in Port, StopServing(p) PROVE AloneInv'
    BY <1>14 DEF StopServing, Files, History
<1>15. ASSUME NEW p \in Port, DropDoor(p) PROVE AloneInv'
    BY <1>15 DEF DropDoor, Files, History
<1>16. ASSUME NEW p \in Port, AddDoor(p) PROVE AloneInv'
    BY <1>16 DEF AddDoor, Files, History
<1>17. ASSUME NEW p \in Port, DoorRefused(p) PROVE AloneInv'
    BY <1>17 DEF DoorRefused, Files, History
<1>18. CASE Poll
    BY <1>18 DEF Poll, Files, History
<1>19. CASE Sleep
    BY <1>19 DEF Sleep, Files, History
<1>20. CASE StopWatching
    BY <1>20 DEF StopWatching, Files, History
<1>21. ASSUME NEW settles \in BOOLEAN, Shutdown(settles) PROVE AloneInv'
    BY <1>21 DEF Shutdown, Files, History
<1>22. CASE ServerRestarts
    BY <1>22 DEF ServerRestarts, Files, History
<1>23. CASE UNCHANGED svars
    BY <1>23 DEF svars
<1> QED
    BY <1>1, <1>2, <1>3, <1>4, <1>5, <1>6, <1>7, <1>8, <1>9, <1>10, <1>11,
       <1>12, <1>13, <1>14, <1>15, <1>16, <1>17, <1>18, <1>19, <1>20, <1>21,
       <1>22, <1>23 DEF SNext

LEMMA MakingInvNext ==
    ASSUME SpacesInv, AloneInv, MakingInv, [SNext]_svars
    PROVE  MakingInv'
<1> USE DEF SpacesInv, AloneInv, MakingInv, Making
<1>1. ASSUME NEW c \in Caller, AlreadyThere(c) PROVE MakingInv'
    BY <1>1 DEF AlreadyThere, At, MayAsk, Files, History
<1>2. ASSUME NEW c \in Caller, StartOver(c) PROVE MakingInv'
  <2>1. /\ made \in Nat /\ made' = made + 1 /\ made' \in Nat
        /\ 1 .. made \subseteq 1 .. made' /\ made' \in 1 .. made' /\ made' \notin 1 .. made
      BY <1>2 DEF StartOver, SpacesInv
  <2>2. /\ caller' = [caller EXCEPT ![c] = [at |-> "forking", space |-> made']]
        /\ caller'[c] = [at |-> "forking", space |-> made']
        /\ \A d \in Caller : d # c => caller'[d] = caller[d]
      BY <1>2, <2>1 DEF StartOver, SpacesInv
  <2>3. /\ holders' \subseteq holders \cup {made'} /\ made' \in holders'
        /\ slirps' \subseteq slirps /\ made' \notin slirps'
        /\ registry = 0 /\ registry' = 0
        /\ pidfile' = 0
        /\ caller[c].at = "idle"
      BY <1>2, <2>1 DEF StartOver, Reclaimed, Files, MayAsk, SpacesInv
  <2>4. ~collided' => ~collided /\ \A d \in Caller : caller[d].at \notin Making
      BY <1>2 DEF StartOver, SpacesInv
  <2> QED
      BY <2>2, <2>3, <2>4
<1>3. ASSUME NEW c \in Caller, StartSlirp(c) PROVE MakingInv'
    BY <1>3 DEF StartSlirp, At, History
<1>4. ASSUME NEW c \in Caller, ForkFails(c) PROVE MakingInv'
    BY <1>4 DEF ForkFails, At, Files, History
<1>5. ASSUME NEW c \in Caller, RememberPids(c) PROVE MakingInv'
    BY <1>5 DEF RememberPids, At, SocketThere, History
<1>6. ASSUME NEW c \in Caller, NoSocket(c) PROVE MakingInv'
    BY <1>6 DEF NoSocket, At, Files, History
<1>7. ASSUME NEW c \in Caller, RootBuilt(c) PROVE MakingInv'
    BY <1>7 DEF RootBuilt, At, Files, History
<1>8. ASSUME NEW c \in Caller, RootNotBuilt(c) PROVE MakingInv'
    BY <1>8 DEF RootNotBuilt, At, Files, History
<1>9. ASSUME NEW c \in Caller, Register(c) PROVE MakingInv'
    BY <1>9 DEF Register, At, Files, History
<1>10. ASSUME NEW c \in Caller, WatchDoors(c) PROVE MakingInv'
    BY <1>10 DEF WatchDoors, At, Files, History
<1>11. ASSUME NEW c \in Caller, OpenWells(c) PROVE MakingInv'
    BY <1>11 DEF OpenWells, At, Files, History
<1>12. ASSUME NEW s \in Space, SlirpListens(s) PROVE MakingInv'
    BY <1>12 DEF SlirpListens, Files, History
<1>13. ASSUME NEW p \in Port, NEW kind \in {"loop", "every"}, Serve(p, kind)
      PROVE  MakingInv'
    BY <1>13 DEF Serve, Files, History
<1>14. ASSUME NEW p \in Port, StopServing(p) PROVE MakingInv'
    BY <1>14 DEF StopServing, Files, History
<1>15. ASSUME NEW p \in Port, DropDoor(p) PROVE MakingInv'
    BY <1>15 DEF DropDoor, Files, History
<1>16. ASSUME NEW p \in Port, AddDoor(p) PROVE MakingInv'
    BY <1>16 DEF AddDoor, Files, History
<1>17. ASSUME NEW p \in Port, DoorRefused(p) PROVE MakingInv'
    BY <1>17 DEF DoorRefused, Files, History
<1>18. CASE Poll
    BY <1>18 DEF Poll, Files, History
<1>19. CASE Sleep
    BY <1>19 DEF Sleep, Files, History
<1>20. CASE StopWatching
    BY <1>20 DEF StopWatching, Files, History
<1>21. ASSUME NEW settles \in BOOLEAN, Shutdown(settles) PROVE MakingInv'
    BY <1>21 DEF Shutdown, Files, History
<1>22. CASE ServerRestarts
    BY <1>22 DEF ServerRestarts, Files, History
<1>23. CASE UNCHANGED svars
    BY <1>23 DEF svars
<1> QED
    BY <1>1, <1>2, <1>3, <1>4, <1>5, <1>6, <1>7, <1>8, <1>9, <1>10, <1>11,
       <1>12, <1>13, <1>14, <1>15, <1>16, <1>17, <1>18, <1>19, <1>20, <1>21,
       <1>22, <1>23 DEF SNext

LEMMA WorkingInvNext ==
    ASSUME SpacesInv, AloneInv, MakingInv, WorkingInv, [SNext]_svars
    PROVE  WorkingInv'
<1> USE DEF SpacesInv, AloneInv, MakingInv, WorkingInv, Making
<1>1. ASSUME NEW c \in Caller, AlreadyThere(c) PROVE WorkingInv'
    BY <1>1 DEF AlreadyThere, At, MayAsk, Files, History
<1>2. ASSUME NEW c \in Caller, StartOver(c) PROVE WorkingInv'
    BY <1>2 DEF StartOver, MayAsk, Reclaimed, Files, History
<1>3. ASSUME NEW c \in Caller, StartSlirp(c) PROVE WorkingInv'
    BY <1>3 DEF StartSlirp, At, History
<1>4. ASSUME NEW c \in Caller, ForkFails(c) PROVE WorkingInv'
    BY <1>4 DEF ForkFails, At, Files, History
<1>5. ASSUME NEW c \in Caller, RememberPids(c) PROVE WorkingInv'
    BY <1>5 DEF RememberPids, At, SocketThere, History
<1>6. ASSUME NEW c \in Caller, NoSocket(c) PROVE WorkingInv'
    BY <1>6 DEF NoSocket, At, Files, History
<1>7. ASSUME NEW c \in Caller, RootBuilt(c) PROVE WorkingInv'
    BY <1>7 DEF RootBuilt, At, Files, History
<1>8. ASSUME NEW c \in Caller, RootNotBuilt(c) PROVE WorkingInv'
    BY <1>8 DEF RootNotBuilt, At, Files, History
<1>9. ASSUME NEW c \in Caller, Register(c) PROVE WorkingInv'
    BY <1>9 DEF Register, At, Files, History
<1>10. ASSUME NEW c \in Caller, WatchDoors(c) PROVE WorkingInv'
    BY <1>10 DEF WatchDoors, At, Files, History
<1>11. ASSUME NEW c \in Caller, OpenWells(c) PROVE WorkingInv'
    BY <1>11 DEF OpenWells, At, Files, History
<1>12. ASSUME NEW s \in Space, SlirpListens(s) PROVE WorkingInv'
    BY <1>12 DEF SlirpListens, Files, History
<1>13. ASSUME NEW p \in Port, NEW kind \in {"loop", "every"}, Serve(p, kind)
      PROVE  WorkingInv'
    BY <1>13 DEF Serve, Files, History
<1>14. ASSUME NEW p \in Port, StopServing(p) PROVE WorkingInv'
    BY <1>14 DEF StopServing, Files, History
<1>15. ASSUME NEW p \in Port, DropDoor(p) PROVE WorkingInv'
    BY <1>15 DEF DropDoor, Files, History
<1>16. ASSUME NEW p \in Port, AddDoor(p) PROVE WorkingInv'
    BY <1>16 DEF AddDoor, Files, History
<1>17. ASSUME NEW p \in Port, DoorRefused(p) PROVE WorkingInv'
    BY <1>17 DEF DoorRefused, Files, History
<1>18. CASE Poll
    BY <1>18 DEF Poll, Files, History
<1>19. CASE Sleep
    BY <1>19 DEF Sleep, Files, History
<1>20. CASE StopWatching
    BY <1>20 DEF StopWatching, Files, History
<1>21. ASSUME NEW settles \in BOOLEAN, Shutdown(settles) PROVE WorkingInv'
    BY <1>21 DEF Shutdown, Files, History
<1>22. CASE ServerRestarts
    BY <1>22 DEF ServerRestarts, Files, History
<1>23. CASE UNCHANGED svars
    BY <1>23 DEF svars
<1> QED
    BY <1>1, <1>2, <1>3, <1>4, <1>5, <1>6, <1>7, <1>8, <1>9, <1>10, <1>11,
       <1>12, <1>13, <1>14, <1>15, <1>16, <1>17, <1>18, <1>19, <1>20, <1>21,
       <1>22, <1>23 DEF SNext

LEMMA AccountedInvNext ==
    ASSUME NetworkInv, [SNext]_svars
    PROVE  AccountedInv'
<1> USE DEF NetworkInv, SpacesInv, AloneInv, MakingInv, WorkingInv, AccountedInv, Accounted, Making
<1>1. ASSUME NEW c \in Caller, AlreadyThere(c) PROVE AccountedInv'
    BY <1>1 DEF AlreadyThere, At, MayAsk, Files, History
<1>2. ASSUME NEW c \in Caller, StartOver(c) PROVE AccountedInv'
    BY <1>2 DEF StartOver, MayAsk, Reclaimed, Files, History
<1>3. ASSUME NEW c \in Caller, StartSlirp(c) PROVE AccountedInv'
    BY <1>3 DEF StartSlirp, At, History
<1>4. ASSUME NEW c \in Caller, ForkFails(c) PROVE AccountedInv'
    BY <1>4 DEF ForkFails, At, Files, History
<1>5. ASSUME NEW c \in Caller, RememberPids(c) PROVE AccountedInv'
    BY <1>5 DEF RememberPids, At, SocketThere, History
<1>6. ASSUME NEW c \in Caller, NoSocket(c) PROVE AccountedInv'
    BY <1>6 DEF NoSocket, At, Files, History
<1>7. ASSUME NEW c \in Caller, RootBuilt(c) PROVE AccountedInv'
    BY <1>7 DEF RootBuilt, At, Files, History
<1>8. ASSUME NEW c \in Caller, RootNotBuilt(c) PROVE AccountedInv'
    BY <1>8 DEF RootNotBuilt, At, Files, History
<1>9. ASSUME NEW c \in Caller, Register(c) PROVE AccountedInv'
    BY <1>9 DEF Register, At, Files, History
<1>10. ASSUME NEW c \in Caller, WatchDoors(c) PROVE AccountedInv'
    BY <1>10 DEF WatchDoors, At, Files, History
<1>11. ASSUME NEW c \in Caller, OpenWells(c) PROVE AccountedInv'
    BY <1>11 DEF OpenWells, At, Files, History
<1>12. ASSUME NEW s \in Space, SlirpListens(s) PROVE AccountedInv'
    BY <1>12 DEF SlirpListens, Files, History
<1>13. ASSUME NEW p \in Port, NEW kind \in {"loop", "every"}, Serve(p, kind)
      PROVE  AccountedInv'
    BY <1>13 DEF Serve, Files, History
<1>14. ASSUME NEW p \in Port, StopServing(p) PROVE AccountedInv'
    BY <1>14 DEF StopServing, Files, History
<1>15. ASSUME NEW p \in Port, DropDoor(p) PROVE AccountedInv'
    BY <1>15 DEF DropDoor, Files, History
<1>16. ASSUME NEW p \in Port, AddDoor(p) PROVE AccountedInv'
    BY <1>16 DEF AddDoor, Files, History
<1>17. ASSUME NEW p \in Port, DoorRefused(p) PROVE AccountedInv'
    BY <1>17 DEF DoorRefused, Files, History
<1>18. CASE Poll
    BY <1>18 DEF Poll, Files, History
<1>19. CASE Sleep
    BY <1>19 DEF Sleep, Files, History
<1>20. CASE StopWatching
    BY <1>20 DEF StopWatching, Files, History
<1>21. ASSUME NEW settles \in BOOLEAN, Shutdown(settles) PROVE AccountedInv'
    BY <1>21 DEF Shutdown, Files, History
<1>22. CASE ServerRestarts
    BY <1>22 DEF ServerRestarts, Files, History
<1>23. CASE UNCHANGED svars
    BY <1>23 DEF svars
<1> QED
    BY <1>1, <1>2, <1>3, <1>4, <1>5, <1>6, <1>7, <1>8, <1>9, <1>10, <1>11,
       <1>12, <1>13, <1>14, <1>15, <1>16, <1>17, <1>18, <1>19, <1>20, <1>21,
       <1>22, <1>23 DEF SNext

LEMMA NetworkInductive == SSpec => []NetworkInv
<1>1. SInit => NetworkInv
    BY DEF SInit, NetworkInv, SpacesInv, AloneInv, MakingInv, WorkingInv, AccountedInv,
       Making
<1>2. NetworkInv /\ [SNext]_svars => NetworkInv'
    BY SpacesInvNext, AloneInvNext, MakingInvNext, WorkingInvNext, AccountedInvNext
       DEF NetworkInv
<1> QED
    BY <1>1, <1>2, PTL DEF SSpec

(* Unless two callers made it at once, the registered network of a plan    *)
(* works, and unless a create failed half way either, every process of     *)
(* every network ever made is in the registry, in the making or in the     *)
(* pidfile (namespaces/mod.rs, ensure; namespaces/net.rs,                  *)
(* reclaim_previous).                                                      *)
THEOREM NoNetworkForgotten == SSpec => []NoSpaceForgotten
<1>1. NetworkInv => NoSpaceForgotten
    BY DEF NetworkInv, WorkingInv, AccountedInv, Accounted, NoSpaceForgotten
<1> QED
    BY <1>1, NetworkInductive, PTL

-----------------------------------------------------------------------------
(* All of them.                                                            *)

LEMMA STypeNext == STypeOK /\ SpacesInv /\ [SNext]_svars => STypeOK'
<1> SUFFICES ASSUME STypeOK, SpacesInv, [SNext]_svars
             PROVE  STypeOK'
    OBVIOUS
<1>0. /\ MaxSpaces \in Nat /\ made \in 0 .. MaxSpaces
      /\ \A c \in Caller : caller[c].at \in Making => caller[c].space \in Space
    BY NetworksAssumption DEF STypeOK, SpacesInv, Space
<1> USE DEF STypeOK, Making, Files, Inside, History, NoDoor
<1>1. ASSUME NEW c \in Caller, AlreadyThere(c) PROVE STypeOK'
    BY <1>1 DEF AlreadyThere, At
<1>2. ASSUME NEW c \in Caller, StartOver(c) PROVE STypeOK'
  <2>1. made + 1 \in Space
      BY <1>0, <1>2 DEF StartOver, Space
  <2> QED
      BY <1>2, <2>1 DEF StartOver, Reclaimed
<1>3. ASSUME NEW c \in Caller, StartSlirp(c) PROVE STypeOK'
    BY <1>0, <1>3 DEF StartSlirp, At, Blow
<1>4. ASSUME NEW c \in Caller, ForkFails(c) PROVE STypeOK'
    BY <1>0, <1>4 DEF ForkFails, At, Blow
<1>5. ASSUME NEW c \in Caller, RememberPids(c) PROVE STypeOK'
    BY <1>0, <1>5 DEF RememberPids, At
<1>6. ASSUME NEW c \in Caller, NoSocket(c) PROVE STypeOK'
    BY <1>0, <1>6 DEF NoSocket, At, Blow
<1>7. ASSUME NEW c \in Caller, RootBuilt(c) PROVE STypeOK'
    BY <1>7 DEF RootBuilt, At
<1>8. ASSUME NEW c \in Caller, RootNotBuilt(c) PROVE STypeOK'
    BY <1>8 DEF RootNotBuilt, At, Blow
<1>9. ASSUME NEW c \in Caller, Register(c) PROVE STypeOK'
    BY <1>0, <1>9 DEF Register, At, Emptied
<1>10. ASSUME NEW c \in Caller, WatchDoors(c) PROVE STypeOK'
    BY <1>10 DEF WatchDoors, At, Unread
<1>11. ASSUME NEW c \in Caller, OpenWells(c) PROVE STypeOK'
    BY <1>11 DEF OpenWells, At
<1>12. ASSUME NEW s \in Space, SlirpListens(s) PROVE STypeOK'
    BY <1>12 DEF SlirpListens
<1>13. ASSUME NEW p \in Port, NEW kind \in {"loop", "every"}, Serve(p, kind) PROVE STypeOK'
    BY <1>13 DEF Serve
<1>14. ASSUME NEW p \in Port, StopServing(p) PROVE STypeOK'
    BY <1>14 DEF StopServing, Blow
<1>15. ASSUME NEW p \in Port, DropDoor(p) PROVE STypeOK'
    BY <1>15 DEF DropDoor, Blow
<1>16. ASSUME NEW p \in Port, AddDoor(p) PROVE STypeOK'
    BY <1>16 DEF AddDoor, Blow
<1>17. ASSUME NEW p \in Port, DoorRefused(p) PROVE STypeOK'
    BY <1>17 DEF DoorRefused, Blow
<1>18. ASSUME Poll PROVE STypeOK'
    BY <1>18 DEF Poll, Unread, ListeningInside, ToDrop
<1>19. ASSUME Sleep PROVE STypeOK'
    BY <1>19 DEF Sleep, Unread, ListeningInside, ToDrop
<1>20. ASSUME StopWatching PROVE STypeOK'
    BY <1>20 DEF StopWatching, Unread, ListeningInside, ToDrop
<1>21. ASSUME NEW settles \in BOOLEAN, Shutdown(settles) PROVE STypeOK'
    BY <1>21 DEF Shutdown, Emptied
<1>22. ASSUME ServerRestarts PROVE STypeOK'
  <2> DEFINE lost == {caller[c].space : c \in {d \in Caller : caller[d].at \in {"forking", "socket"}}}
  <2>1. lost \subseteq Space
      BY <1>0
  <2>2. mislaid' = mislaid \cup lost
      BY <1>22 DEF ServerRestarts
  <2> HIDE DEF lost
  <2>3. mislaid' \subseteq Space
      BY <2>1, <2>2
  <2> QED
      BY <1>22, <2>3 DEF ServerRestarts, Unread
<1>23. ASSUME UNCHANGED svars PROVE STypeOK'
    BY <1>23 DEF svars
<1> QED
    BY <1>1, <1>2, <1>3, <1>4, <1>5, <1>6, <1>7, <1>8, <1>9, <1>10, <1>11, <1>12,
       <1>13, <1>14, <1>15, <1>16, <1>17, <1>18, <1>19, <1>20, <1>21, <1>22, <1>23 DEF SNext

WorkersInv ==
    /\ part = "questions" => QTypeOK
    /\ part = "errands" => ETypeOK
    /\ part = "browsers" => BTypeOK
    /\ part = "networks" => STypeOK /\ SpacesInv
    /\ part = "jobs" => HandlesTypeOK /\ CallTypeOK

(* Whichever of the workers runs, every variable of it keeps to the values *)
(* its code gives it, for any number of calls, tabs, errands, Chromes,     *)
(* servers, ports, namespaces, commands and lines.                         *)
THEOREM WorkersTypeCorrect == Spec => []WorkersTypeOK
<1>1. Init => WorkersInv
  <2>1. QInit => QTypeOK
      BY DEF QInit, QTypeOK
  <2>2. BInit => BTypeOK
      BY BrowserTypeInit
  <2>3. SInit => STypeOK /\ SpacesInv
    <3> SUFFICES ASSUME SInit PROVE STypeOK /\ SpacesInv
        OBVIOUS
    <3>1. SpacesInv
        BY DEF SInit, SpacesInv, Making
    <3>2. /\ caller \in [Caller -> [at : Making \cup {"idle", "in", "wells"}, space : Space \cup {0}]]
          /\ doors \in [Port -> {NoDoor, "direct", "relay"}]
          /\ serving \in [Port -> {"none", "loop", "every"}]
        BY DEF SInit
    <3>3. watcher \in [at : {"none", "asleep", "busy", "leaving"}, space : Space \cup {0},
                       add : SUBSET Port, drop : SUBSET Port]
        BY DEF SInit, Unread
    <3> QED
        BY <3>1, <3>2, <3>3 DEF SInit, STypeOK
  <2>4. JInit => HandlesTypeOK /\ CallTypeOK
      BY JobsAssumption DEF JInit, NoJob, NoOp, HandlesTypeOK, CallTypeOK, Handle, Job, Signal
  <2> QED
      BY <2>1, <2>2, <2>3, <2>4, ETypeInit DEF Init, WorkersInv
<1>2. WorkersInv /\ [Next]_vars => WorkersInv'
  <2> SUFFICES ASSUME WorkersInv, [Next]_vars PROVE WorkersInv'
      OBVIOUS
  <2>1. /\ part' = part
        /\ part = "questions" => [QNext]_qvars
        /\ part = "errands" => [ENext]_evars
        /\ part = "browsers" => [BNext]_bvars
        /\ part = "networks" => [SNext]_svars
        /\ part = "jobs" => [JNext]_jvars
      BY DEF Next, vars
  <2> QED
      BY <2>1, QTypeNext, ETypeNext, BTypeNext, STypeNext, SpacesInvNext, HandlesTypeNext, CallTypeNext
         DEF WorkersInv
<1>3. WorkersInv => WorkersTypeOK
    BY DEF WorkersInv, WorkersTypeOK, HandlesTypeOK, CallTypeOK, JTypeOK, Handle
<1> QED
    BY <1>1, <1>2, <1>3, PTL DEF Spec
=============================================================================
