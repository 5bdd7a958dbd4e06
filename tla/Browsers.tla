------------------------------- MODULE Browsers -------------------------------
(***************************************************************************)
(* One plan's browser (kingdom-browser, session.rs): the session map and   *)
(* the lock held through a launch, calls that use the session under a      *)
(* shared guard, the three ways it ends - the plan's, the reaper's, and    *)
(* the sweep of the next server over what a dead one left running - and    *)
(* the profile directory with the claim the sweep reads.                   *)
(***************************************************************************)
EXTENDS Naturals, FiniteSets

CONSTANTS
    BCall,       \* tool calls of the plan that browse
    MaxChromes,  \* Chromes launched in a behaviour
    MaxServers   \* servers that run one after another

ASSUME BrowsersAssumption == MaxChromes \in Nat /\ MaxServers \in Nat \ {0}

Chrome == 1 .. MaxChromes
NoChrome == 0
Unborn == 0
Dead == MaxServers + 1

VARIABLES
    server,   \* the server running, by number
    swept,    \* it has swept, and serves
    chrome,   \* chrome[i]: the server that launched it, Unborn or Dead
    session,  \* sessions: the plan's entry, or NoChrome
    launcher, \* the calls holding the map's write lock through a launch
    call,     \* call[k]: where a call stands
    with,     \* with[k]: the session it was handed
    closing,  \* sessions taken out of the map and not yet shut down
    claim,    \* the server named in the profile's claim, 0 for none
    cold,     \* the session's clock has run past the idle window
    watched,  \* somebody watches its screencast
    reaping,  \* the reaper's survey listed the plan
    unnamed   \* Chromes whose claim was not on disk when their server died

bvars == <<server, swept, chrome, session, launcher, call, with, closing, claim,
           cold, watched, reaping, unnamed>>

BInit ==
    /\ server = 1 /\ swept = FALSE
    /\ chrome = [i \in Chrome |-> Unborn]
    /\ session = NoChrome /\ launcher = {}
    /\ call = [k \in BCall |-> "idle"] /\ with = [k \in BCall |-> NoChrome]
    /\ closing = {} /\ claim = 0
    /\ cold = FALSE /\ watched = FALSE /\ reaping = FALSE
    /\ unnamed = {}

Up(i) == chrome[i] \notin {Unborn, Dead}
Kill(s) == [i \in Chrome |-> IF i \in s THEN Dead ELSE chrome[i]]

\* A session is handed out, its clock wound.
Hand(k) ==
    /\ call' = [call EXCEPT ![k] = "holding"]
    /\ with' = [with EXCEPT ![k] = session]
    /\ cold' = FALSE

-----------------------------------------------------------------------------
(* session: look, and launch under the write lock if there is none.        *)

Look(k) ==
    /\ swept /\ call[k] = "idle" /\ launcher = {}
    /\ IF session # NoChrome
       THEN Hand(k)
       ELSE /\ call' = [call EXCEPT ![k] = "wanting"]
            /\ UNCHANGED <<with, cold>>
    /\ UNCHANGED <<server, swept, chrome, session, launcher, closing, claim, watched, reaping, unnamed>>

LockWithoutLooking(k) ==
    /\ call[k] = "wanting" /\ launcher = {}
    /\ launcher' = {k}
    /\ claim' = 0
    /\ call' = [call EXCEPT ![k] = "launching"]
    /\ UNCHANGED <<server, swept, chrome, session, with, closing, cold, watched, reaping, unnamed>>

\* The lock taken, it looks again; then the profile is emptied.
Lock(k) ==
    /\ call[k] = "wanting" /\ launcher = {}
    /\ IF session # NoChrome
       THEN Hand(k) /\ UNCHANGED <<launcher, claim>>
       ELSE /\ launcher' = {k}
            /\ claim' = 0
            /\ call' = [call EXCEPT ![k] = "launching"]
            /\ UNCHANGED <<with, cold>>
    /\ UNCHANGED <<server, swept, chrome, session, closing, watched, reaping, unnamed>>

\* Chrome starts, and only then is the profile claimed.
Launch(k) ==
    /\ call[k] = "launching"
    /\ \E i \in Chrome :
        /\ chrome[i] = Unborn /\ \A j \in 1 .. i - 1 : chrome[j] # Unborn
        /\ chrome' = [chrome EXCEPT ![i] = server]
        /\ with' = [with EXCEPT ![k] = i]
    /\ call' = [call EXCEPT ![k] = "claiming"]
    /\ UNCHANGED <<server, swept, session, launcher, closing, claim, cold, watched, reaping, unnamed>>

Claim(k) ==
    /\ call[k] = "claiming"
    /\ claim' = server
    /\ session' = with[k] /\ cold' = FALSE
    /\ launcher' = {}
    /\ call' = [call EXCEPT ![k] = "holding"]
    /\ UNCHANGED <<server, swept, chrome, with, closing, watched, reaping, unnamed>>

\* The launch fails, before or after there was a process to kill.
LaunchFails(k) ==
    /\ call[k] \in {"launching", "claiming"}
    /\ chrome' = Kill({with[k]})
    /\ launcher' = {}
    /\ call' = [call EXCEPT ![k] = "idle"] /\ with' = [with EXCEPT ![k] = NoChrome]
    /\ UNCHANGED <<server, swept, session, closing, claim, cold, watched, reaping, unnamed>>

\* The operation itself, under the session's shared guard.  The guard can be
\* had of a session already shut down: the operation then fails.
Guard(k) ==
    /\ call[k] = "holding"
    /\ call' = [call EXCEPT ![k] = IF Up(with[k]) THEN "using" ELSE "failed"]
    /\ UNCHANGED <<server, swept, chrome, session, launcher, with, closing, claim, cold,
                   watched, reaping, unnamed>>

Done(k) ==
    /\ call[k] \in {"using", "failed"}
    /\ call' = [call EXCEPT ![k] = "idle"] /\ with' = [with EXCEPT ![k] = NoChrome]
    /\ UNCHANGED <<server, swept, chrome, session, launcher, closing, claim, cold,
                   watched, reaping, unnamed>>

-----------------------------------------------------------------------------
(* close: out of the map first, then shut down when no call uses it.       *)

Remove ==
    /\ closing' = closing \cup ({session} \ {NoChrome})
    /\ session' = NoChrome

Dismissed ==
    /\ swept /\ launcher = {} /\ session # NoChrome
    /\ Remove
    /\ UNCHANGED <<server, swept, chrome, launcher, call, with, claim, cold, watched, reaping, unnamed>>

\* The profile is emptied with it, whoever may be using it by now.
ShutDown(i) ==
    /\ i \in closing /\ \A k \in BCall : with[k] = i => call[k] # "using"
    /\ closing' = closing \ {i}
    /\ chrome' = Kill({i})
    /\ claim' = 0 /\ watched' = FALSE
    /\ UNCHANGED <<server, swept, session, launcher, call, with, cold, reaping, unnamed>>

\* The clock of a session nobody asked for runs on, even under a long call.
GoCold ==
    /\ session # NoChrome /\ ~cold
    /\ cold' = TRUE
    /\ UNCHANGED <<server, swept, chrome, session, launcher, call, with, closing, claim,
                   watched, reaping, unnamed>>

SurveyWatched ==
    /\ swept /\ launcher = {} /\ ~reaping
    /\ session # NoChrome /\ cold /\ watched
    /\ reaping' = TRUE
    /\ UNCHANGED <<server, swept, chrome, session, launcher, call, with, closing, claim,
                   cold, watched, unnamed>>

\* reap_idle decides under the shared lock ...
Survey ==
    /\ swept /\ launcher = {} /\ ~reaping
    /\ session # NoChrome /\ cold /\ ~watched
    /\ reaping' = TRUE
    /\ UNCHANGED <<server, swept, chrome, session, launcher, call, with, closing, claim,
                   cold, watched, unnamed>>

\* ... and closes what it listed, whatever has become of it since.
Reap ==
    /\ reaping /\ launcher = {}
    /\ Remove
    /\ reaping' = FALSE
    /\ UNCHANGED <<server, swept, chrome, launcher, call, with, claim, cold, watched, unnamed>>

\* A viewer attaches to a browser that is there, never launching one.
Watch ==
    /\ swept /\ session # NoChrome /\ launcher = {}
    /\ watched' = ~watched
    /\ UNCHANGED <<server, swept, chrome, session, launcher, call, with, closing, claim,
                   cold, reaping, unnamed>>

-----------------------------------------------------------------------------
(* A server dies and another starts: its memory goes, its Chromes stay.    *)

Crash ==
    /\ server < MaxServers
    /\ server' = server + 1 /\ swept' = FALSE
    /\ session' = NoChrome /\ launcher' = {} /\ closing' = {}
    /\ call' = [k \in BCall |-> "idle"] /\ with' = [k \in BCall |-> NoChrome]
    /\ cold' = FALSE /\ watched' = FALSE /\ reaping' = FALSE
    /\ unnamed' = unnamed \cup {i \in Chrome : Up(i) /\ claim # chrome[i]}
    /\ UNCHANGED <<chrome, claim>>

\* sweep_orphans: a profile claimed by a server that is dead is freed of
\* whoever holds it; one without a claim is left alone while it is held.
Sweep ==
    /\ ~swept /\ swept' = TRUE
    /\ IF claim # 0 /\ claim # server
       THEN chrome' = Kill({i \in Chrome : Up(i)}) /\ claim' = 0
       ELSE UNCHANGED <<chrome, claim>>
    /\ UNCHANGED <<server, session, launcher, call, with, closing, cold, watched, reaping, unnamed>>

BNext ==
    \/ \E k \in BCall :
        Look(k) \/ Lock(k) \/ Launch(k) \/ Claim(k) \/ LaunchFails(k) \/ Guard(k) \/ Done(k)
    \/ \E i \in Chrome : ShutDown(i)
    \/ Dismissed \/ GoCold \/ Survey \/ Reap \/ Watch
    \/ Crash \/ Sweep

\* The reaper wakes for ever, calls end (each is bounded by its timeout), and
\* time passes.
BFair ==
    /\ WF_bvars(GoCold) /\ WF_bvars(Survey) /\ WF_bvars(Reap) /\ WF_bvars(Sweep)
    /\ \A i \in Chrome : WF_bvars(ShutDown(i))
    /\ \A k \in BCall :
        WF_bvars(Lock(k) \/ Launch(k) \/ Claim(k) \/ LaunchFails(k) \/ Guard(k) \/ Done(k))

BSpec == BInit /\ [][BNext]_bvars /\ BFair

-----------------------------------------------------------------------------
BTypeOK ==
    /\ server \in 1 .. MaxServers /\ swept \in BOOLEAN
    /\ chrome \in [Chrome -> 0 .. MaxServers + 1]
    /\ session \in Chrome \cup {NoChrome} /\ launcher \subseteq BCall
    /\ call \in [BCall -> {"idle", "wanting", "launching", "claiming", "holding",
                           "using", "failed"}]
    /\ with \in [BCall -> Chrome \cup {NoChrome}]
    /\ closing \subseteq Chrome /\ claim \in 0 .. MaxServers
    /\ cold \in BOOLEAN /\ watched \in BOOLEAN /\ reaping \in BOOLEAN
    /\ unnamed \subseteq Chrome

(* No Chrome of the server that is running is held by nobody: it is the    *)
(* plan's session, being launched, or being shut down, however calls,      *)
(* reaper and dismissal interleave ("would orphan one Chrome process").    *)
(* And one that outlived its server is killed before the next one serves,  *)
(* unless its claim was not on disk by then: it was being launched, or the *)
(* shutting down of its predecessor had emptied the profile under it. Nor  *)
(* is one shut down under a call that is using it.                         *)
NoChromeForgotten ==
    \A i \in Chrome :
        /\ chrome[i] = server =>
            \/ i = session \/ i \in closing
            \/ \E k \in BCall : call[k] = "claiming" /\ with[k] = i
        /\ swept /\ Up(i) /\ chrome[i] # server => i \in unnamed
        /\ ~Up(i) => ~\E k \in BCall : call[k] = "using" /\ with[k] = i

(* A browser nobody uses or watches any more is closed in the end.         *)
IdleBrowserCloses ==
    <>[](\A k \in BCall : call[k] = "idle") /\ <>[](~watched)
        => []<>(session = NoChrome)
=============================================================================
