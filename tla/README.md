# kingdom-ide in TLA+

Kingdom is a server over which a person ("the King") and language models ("the
court") work on repositories.  A *plan* is one conversation with a model, with
a git worktree to work in; a *turn* is one run of the model's loop over a plan.
This directory models the parts of the program that keep state which several
tasks, requests, processes or tabs touch, checks the models with TLC, and proves
their safety properties with TLAPS.  Paths below are
relative to `src/crates/`; `app` is `kingdom-app/src`, `core` is
`kingdom-core/src`.

## Inventory

| Component | State | Operations | What is hard | What makes it correct | Modelled in |
|---|---|---|---|---|---|
| Turn registry, `app/turns.rs` | one entry per plan: a token and a halt signal | begin, is_running, halt, stand_down, guard drop | guards of two turns overlap; a turn may end anywhere | the entry is the newest living turn's | `Turns`, `Chamber` |
| Turn loop, `app/turn.rs` | round, attempt, the rest of a batch of calls, the remit of the round | converse, settle, stopped, halted | every await is a point where the King or another turn acts | it ends however it is stopped; leaves neither a busy mark, an open call nor a stranded word | `Chamber` |
| Plan record, `core/model.rs` | status, busy mark, queue, transcript, proposal, notes, outcome | queue, hear_queued, say, propose, approve, annotate, delete_entry, settle, ... | fields that must agree are written by different tasks | words keep their order; notes are heard once; a reply stays whole | `Plan`, `Margins` |
| Requests, `app/api.rs` | the one `Mutex` over the kingdom | say, draft_plan, stop_plan, approve_plan, send_notes, finish_plan, begin_plan, ... | checks made under one lock, acted on under the next; tabs that show an older state | a request does to what it finds what it meant for what was shown | `Chamber`, `Margins`, `Endings`, `Errands`, `Questions` |
| Plan store, `app/store.rs` | one JSON file per plan, numbers | save, load, reconcile, next_number, file_plan | failed saves, crashes, numbers counted from the same start | no plan is written over by another; a restart leaves a plan that can go on | `Kingdoms`, `Plan`, `Endings` |
| Worktrees, `app/worktree.rs` | checkouts, branches, a repository the King uses too | merge, archive, commit_pending | git commands one after another, one of which fails | nothing is lost; the record says what git did | `Endings` |
| Proposing, `app/tools/propose_plan.rs` | the draft file, the standing proposal | propose, revise, set aside, approve, file | the draft may change under a proposal | what is filed is what was read | `Margins` |
| Questions, `app/tools/ask_user_question.rs` | a channel per open question | run, answer, abandon | an answer races the patience, the halt and another tab | one tab at most is told its answer landed, and then it is not reported as never given | `Questions` |
| Subagents, `app/turn.rs` spawn_subagents | child plans, their turns, their browsers | record, send, collect, dismiss; Stop over all of them | the parent halted or out of patience while children run | the parent is never kept for ever; Stop reaches them; no browser left by a collected one | `Errands` |
| Wells, `app/services/` | shared containers, who draws on them | reconcile, raise, require, stop | passes spawned, not awaited; daemon outages; containers by hand | a well runs while, and only while, somebody draws on it | `Wells` |
| Networks, `app/namespaces/` | holder, slirp, socket, pidfile, doors, relays | ensure, watch, shutdown, reclaim_previous | two callers make one at once; processes outlive the server | no process is forgotten; doors follow what listens | `Networks` |
| Mounts, `app/services/mod.rs`, `namespaces/mount.rs` | manifests, a recorded choice, the root of a sealed plan | mount_candidates, the panel's boxes, mounts_for_plan, with_allowed | three readings of files anybody edits | a plan has what its panel showed and what its court is told | `Fences` |
| Events, `app/events.rs`, `watch.rs`, the browser's watches | two broadcast channels, sockets | publish, pulse, watch, reconnect | lag, loss, restart, several sockets, a fetch in flight | a quiet tab shows what is recorded | `Wire` |
| Browser sessions, `kingdom-browser` | sessions, Chromes, profile claims | session, close, reap_idle, sweep_orphans | launches race; a call races the reaper; the server dies | no Chrome is forgotten or closed under a call | `Browsers` |
| King's terminal, `app/terminal.rs` | shells, scrollback, attached sockets | open, attach, pump, shutdown | two sockets open at once; attaching while output comes | nothing missed or twice; a living shell is listed | `Shells` |
| Bash jobs, `app/tools/bash.rs` | handles, three threads per command | run, wait, kill, forget | a command outlives its call; an ending published before the output is read | a report that says ended is whole | `Jobs` |
| File tools, `app/tools/patch.rs` | a file and a clipboard | patch | several edits placed on one old text | all at once or not at all | `Patches` |
| Source panel, `components/source_view.rs`, `app/edit.rs` | buffer, stash, stamps | edit, save, delete, turn to another file | the court patches while the King types | a save takes no work that was not shown | `Editors` |
| Model providers, `app/llm/` | a conversation, a budget | shedding, messages, answer_from, retries | a request too large, a reply empty, a gateway unwell, mixed | only what must go goes; asked again no larger | `Requests`; what an answer may be is a choice in `Chamber` |
| Review, `app/review.rs` | notes against lines | annotate_file, send_file_notes | as for proposals | notes are heard once | `Margins`; diffs not |
| tmux, skills, prompts, settings, mock data, rendering, city map | -- | -- | -- | -- | no, see "Not modelled" |

Components meet in three places: the kingdom's lock, under which every change
to a plan goes through `api::update` (change, save, publish); the registry of
turns, a lock of its own, which `say` and `send_notes` read while they hold the
kingdom's; and what outlives a plan or a server: git, files, processes,
containers.

## Modules

The core, composed step by step:

- `Plan` -- one plan's record and the methods of `Plan` that change it, as
  operators on records, with `store::reconcile`.  The King's words are numbers
  in the order he says them; of the transcript it keeps those and the tool calls
  without a result.
- `Turns` -- the registry alone, the abstract specification the loop is held to.
- `Chamber` -- a plan, its turns, the King's requests, the closing of the plan,
  and the server: `INSTANCE Plan`, one action per critical section or resolved
  await.  `pc[t]` names the await a turn stands at:

  | `pc` | in `turn.rs` |
  |---|---|
  | `spawned` | `tokio::spawn` in `draft_plan`, not polled yet |
  | `opening` | registered; opening the model, raising namespaces, waiting for services |
  | `round` | top of the loop |
  | `asking` | `model.take_turn`, raced against the halt |
  | `spoke` | reply recorded by `settle`, lock let go, queue not yet looked at |
  | `acting`, `calling` | between calls of a batch; `invoke`, raced against the halt |
  | `failing` | on the way to `settle(Err)` |
  | `leaving` | result returned, guard not dropped yet |
  | `crashed`, `wrecked` | panicked; told, or not, to the request that spawned it |

- `ChamberProperties` -- what holds, and below the line what the code's comments
  say and does not hold.  `MCChamber` -- for TLC.
- `ChamberProofs` -- its theorems.

One module per other component, each with its `Init`, `Next`, fairness where it
promises progress, and type invariant under a letter of its own (`QInit`,
`EInit`, ...), so that they can be extended together:

| Module | Letter | Actions, and what they stand for |
|---|---|---|
| `Questions` | Q | a call parks, an answer comes through another request in two steps, patience and halt end the wait, the server dies |
| `Errands` | E | one action per step of `spawn_subagents` and of `stop_plan`; a subagent's turn is entered, marked, browses, ends |
| `Endings` | N | one action per git command of `merge` and `archive`, each of which may fail; the King's own switch and merge; the document filed; a crash between any two |
| `Browsers` | B | look, lock, launch, claim, guard, use; survey, reap, close, shut down; crash and the sweep of the next server |
| `Wire` | W | an update publishes to the room and pulses the rail; sockets subscribe, take a snapshot, lag, are lost, reconnect; a fetch reads now and lands later; the port watcher publishes what it read before |
| `Wells` | L | passes over the population they were spawned with, one at a time, scope by scope, service by service; `require`; the daemon, containers and other hands |
| `Kingdoms` | K | begin_plan's four critical sections, turns that write on, opening and leaving a kingdom in three, records that cannot be read, saves that fail, crashes |
| `Networks` | S | `ensure` as two checks around its awaits, each step of `create` and its failure, the watcher's poll and the doors it then opens and shuts, shutdown, restart and reclaiming |
| `Shells` | T | look up, start, list, attach; the pump records and sends; an ending; a slow socket |
| `Jobs` | J | the shell, its group and strays; drain, reap, publish to whoever is subscribed; the calls that wait and signal |
| `Requests` | R | a talk adds to a conversation; a round assembles a request, the gateway answers, refuses or fails, the loop asks again; what was said always rides, so it is weighed and no more |
| `Editors` | D | the King opens, types, stashes, saves in three steps, deletes; the court patches in two |
| `Patches` | P | a call of up to two requests lands or is refused; every operation, placement and clash |
| `Margins` | M | a turn writes to the record while requests made of an earlier state of it arrive: notes (a set, their order decides nothing), sends, approvals, deletions, a closing |
| `Fences` | F | the panel opens, its offers land, boxes are ticked; a plan begins, its root is built and lost, its court is briefed; manifests and folders change |

Their theorems: `TasksProofs` (of `Questions`, `Errands`, `Jobs`, `Browsers`,
`Networks`), `RecordsProofs` (`Endings`, `Wells`, `Kingdoms`), `KingProofs` (`Shells`,
`Editors`, `Wire`, `Margins`), `LoopsProofs` (`Fences`, `Requests`) and `PatchesProofs`
(`Patches`).  `Recursions` has the lemmas by which the last two reason about what is
computed step by step.  `SafetyProofs` puts those of `MCSafety` together.

`MCSafety` extends those that promise safety only, `MCProgress` those that
promise progress.  Apart from the plan's record, which is `Chamber`'s and
`Margins`', these components share no state, so a behaviour of the composed
modules is of one of them: `part` is chosen at the start and the others rest.
That keeps every property of theirs in two runs, without the product of
state spaces that never meet.

Definitions called "Mutant", and those whose names say what is wrong with them
(`DismissOnlyLate`, `PulsesOnce`, ...), are broken variants of the definition
they stand before.  No specification uses them; each is a plausible bug that
the property it was written for is known to catch.

### What is abstracted

Saving succeeds in `Chamber`, so the plan in memory is the plan on disk; saves
that fail are `Kingdoms`'.  git lands or refuses as one step in `Chamber`; its
commands are `Endings`'.  A request too large and a transient failure are counted
together in `Chamber` (`AskAgain`); they are told apart in `Requests`.  Turns
follow one another in `Margins`; overlapping ones are `Chamber`'s.  A plan not in
the open kingdom is left alone by every update, as in the code (`present`).
Times are not modelled: a timer may fire whenever it is set.  Texts are numbers,
sets of changes, or in `Patches` sequences over three letters; sizes in `Requests`
are small numbers in the proportions of the code's.  Titles, summaries, timestamps,
token counts and wording are left out.

## Runs

| Run | Bounds | Shows |
|---|---|---|
| `chamber_words` | 2 turns that may overlap, 3 things said, 1 round of up to 2 calls, 1 retry, 1 mishap, 2 closing requests | no word lost, repeated or out of order; a busy plan has somebody at work; open calls are those a tool is working on; the register names the newest turn and refines `Turns`; of two closings one lands |
| `chamber_halt` | 2 turns, 2 words, 3 rounds | while words wait the newest turn will look for them or was cut short; a halted turn ends though model and tools never answer; queued words are heard unless a turn failed, was stopped or ran out of rounds |
| `kingdom_safety` | below | the safety of `Endings`, `Wire`, `Wells`, `Kingdoms`, `Shells`, `Requests`, `Editors`, `Patches`, `Margins`, `Fences` |
| `kingdom_progress` | below | the safety and the progress of `Questions`, `Errands`, `Browsers`, `Networks`, `Jobs` |

In the chamber the interesting cases need two turns (an older guard over a newer
entry), a third word (one in the log, one queued, one said meanwhile) and a third
round for the queue to be heard and the rounds not be spent; a closing race needs
two requests.  Nothing in the code counts higher than "another one".  Of behaviours
with several turns and words the constraint `Narrow` (`MCChamber`) spends none on closing
the plan or on asking again, which the behaviours with one turn cover, and has a third
word said only to a plan with one turn.

| Module | Bounds | Why they are enough |
|---|---|---|
| `Endings` | 2 requests, 1 fault | the second request meets what the first left half done |
| `Wire` | 3 plans, 2 changes, a channel of 2, 1 upset | one change in the snapshot and one queued behind it; two queued in one watch while the other brings the newer; two pulses and a change make a channel of 2 lag |
| `Wells` | 2 agents, 3 services in 2 scopes, 3 passes, 1 mishap | two passes out of order and one after them |
| `Kingdoms` | 2 plans, 2 folders, 2 openings, 2 failures, 3 of them together | a number needs one plan to take it and one to take it again |
| `Shells` | 2 sockets, 2 shells, 2 chunks, 1 kept, 1 unheard | one chunk in the replay and one live; the scrollback and the channel overflow |
| `Requests` | 3 replies with calls, budgets from 24 down to 5, gateways that read 4 or 12 | one reply that is live, one recent, one neither |
| `Editors` | 2 files, 1 text typed, 1 patch, 4 acts | opening, editing, leaving and saving |
| `Patches` | files of up to 3 letters, up to 2 where a call makes two requests | two edits meet, touch or lie apart |
| `Margins` | 1 note, 3 requests of which 2 under way, 2 drafts, replies of 2 calls | a proposal, a revision of it, and a request made of the first |
| `Fences` | a toolchain of 2 folders and an extra, 1 folder declared per manifest, 2 edits, touches among them, 1 tick | both manifests declare, or one does and then goes |
| `Questions` | 2 calls, 2 tabs | two tabs at one question |
| `Errands` | 2 subagents | one collected, one given up on |
| `Browsers` | 2 calls, 2 Chromes, 2 servers | two launches race; one after a closing; one left to the next server |
| `Networks` | 1 port, 2 networks, 1 failure or restart | two callers make one each |
| `Jobs` | 2 commands, 1 line | one ends while another begins |

`CHECK_DEADLOCK FALSE` is set in every run, since each system may stop: with the
King silent, every task over and every bound spent nothing is left to do.

Eight runs end in a counterexample, each a sentence of the code's own comments
that does not hold:

| Run | The code says | What happens |
|---|---|---|
| `said_one_turn` | a second loop over a busy plan is refused, it "would also run the same commands twice" (`api.rs:1780`) | `say` between the spawn and the registration of a turn clears the busy mark, and the next `draft_plan` starts a second loop; the gap between a recorded reply and the look at the queue does the same |
| `said_outcome` | status and outcome "cannot disagree" (`model.rs:1370`) | a turn drafted while git closes the plan writes its own status over `Merged`; notes sent to a settled plan do as well |
| `said_orphans` | a call left in flight is closed on load (`store.rs:285`) | a panic leaves the plan `Failed`, and `reconcile` closes the calls of `Drafting` plans only |
| `said_as_found` | a refused merge "leaves the city exactly as it was" (`worktree.rs:206`) | `git merge --abort` after a merge refused because the King has one of his own unconcluded aborts his |
| `said_seen` | the stamp makes a save "refuse rather than overwrite work the King never saw" (`source_view.rs:57`) | text taken from the stash is saved under the stamp just fetched, over a patch that landed meanwhile |
| `said_deletes` | there is "no third case where it silently names something else" (`api.rs:2079`) | an earlier deletion moves every later entry, and another entry goes |
| `said_approves` | filing puts "the text the King actually read safely on disk" (`api.rs:1956`) | the draft on disk is filed, which the court may have changed since; an approval may also meet a revision |
| `said_remembered` | `wait` works "for a caller that arrives *after* the process is already dead" (`bash.rs:422`) | the channel has no receiver of its own, so an ending sent while no call waits is dropped; the command reads as running for ever |

Exceptions the passing properties make, each the code's own doing: the grant that
`approve_plan` says for the King does not hear the queue first, and may overtake
words left in it (`WordsInOrder`); a plan whose newest message a lagging socket lost
is repaired by that plan's next change only, and so is one of which a watch brought an
older state over the newer another had brought, and was then lost (`QuietTabsAreTrue`); a pass over the
population may stop the well of an agent opened after it was spawned
(`NoWellTakenAway`); plans are kept apart as long as kingdoms change only while
nothing is at work, those whose record the last reading skipped excepted
(`EveryPlanIsKept`); two callers that make a network, or start a
shell, at once leave one behind (`NoSpaceForgotten`, `ShellsAreListed`); a Stop finds
no turn for a subagent sent but not yet registered, and knows nothing of those recorded
after it looked (`StopReachesErrands`); that a killed command ends and is reaped is not
that anybody hears of it (`KilledJobEnds`, `said_remembered`); an ended command whose
ending was lost is reported as running (`ReportsAreWhole` is about reports that say it
ended); an answer
that comes in the moment a wait ends is acknowledged and lost (`AnswerLandsOnce`);
a row of which the project declares only a part may be unticked and yet given in
part (`FenceIsAsTicked`).

### Fairness

Nothing is assumed of the King, of git, of a gateway or of mishaps.

- `Chamber`: a task that is ready is run by tokio, hence weak fairness on the steps
  a turn takes by itself (`SpecOwn`).  The halt arm of each `select!` is `biased`
  first, so a halted turn never takes an answer instead.  `Answered`, an assumption
  of `QueueAttended` alone, adds that models and tools answer: requests and tools
  have timeouts, and retries are bounded.  Whether a word is attended to is only
  claimed of turns that follow one another: of two that overlap, the later may fail
  while the earlier parks the plan as answered.
- `Questions`: the call that waits is attended to, by an answer or by its timer.
- `Errands`: the parent's and Stop's own steps, the deadline, and subagents that
  enter the register and, once halted, end; a subagent left alone need not end.
- `Browsers`: the reaper's two steps and the clock, and the steps of a call that is
  under way; that calls cease is an assumption of the property.
- `Networks`: the watcher's loop.
- `Jobs`: the threads that drain, reap and publish.

## Proofs

For every value of the constants (`ChamberAssumption`: the bounds are naturals,
rounds and batches at least 1):

- `TypeCorrect`: `Spec => []TypeOK`.  `TypeOK` is not inductive by itself: a round
  counter stays within its cap because a turn inside a round has that round left,
  and `left` is not decremented below 0 because a turn about to call has one.
  `RoundsAndCalls` says so; `TypeInv` is the conjunction.
- `RegisterNamesTheNewest`: `Spec => []EntryIsNewest`, inductive relative to
  `TypeInv`: a guard takes its own entry only.
- `ChamberImplementsTurns`: `Spec => ChamberRefinesTurns`.  `Alive` and `Begun` are
  read off `pc`; every action is `Begins`, `Halts`, `StandsDown`, `Drops`, `Dies` or
  a stutter of the registry.
- `BusyPlansAreWorkedOn`: `Spec => []BusyMeansSomebodyWorks`.  A turn between
  recording its reply and looking at the queue has already cleared the mark, so it
  must not count as the one at work (`AtWork`), or the induction fails when it
  leaves.
- `CallsAreSettled`: `Spec => []CallsSettled`, by an invariant that holds whenever
  there has been no mishap: the log's open calls are the turns standing at
  `calling`.  Each action that takes a turn to or from there begins or settles its
  call.
- `WordsAreKept` and `WordsStayInOrder`: `Spec => []WordsKept` and
  `Spec => []WordsInOrder`, proved together as `WordsInv`.  The words in the log and
  in the queue are read as one sequence, to which an action does one of four things:
  nothing (hearing the queue moves its border only), a new word at the end
  (`receive`, on either path), a new word in the middle (the grant), or one word
  out (`unqueue`).  The lemmas `Insertion`, `LastInOrder`, `GrantInOrder` and `Removal`
  say what each does.  `GrantedOnce` is the strengthening: a grant needs a
  remit that is not yet `Full`, and gives it, so there is one exception to the order
  and never a second.

- `PlansEndOnce`: `Spec => []EndedOnce`, by `EndedInv`: while the checkout stands no
  ending is recorded or waits to be, so the one request whose git command takes the
  checkout away is alone until it has recorded what it did.
- `WordsAreAttended`: `Spec => []WordsHaveAnEar`, beside `EntryIsNewest`.  Words can be
  queued whenever anybody is registered, so the invariant (`EarInv`) speaks of the turn
  registered and not only of words that wait: it will still look for words, or was cut
  short, or is in its last round.  A turn that answered is neither, which is why it must
  be out of the register in the very step that found the queue empty.  `cut` in `Chamber`
  is history, for this property alone.

Beside the core, each from the module's own specification (`QSpec`, `ESpec`, ...), for
every value of its constants; the assumptions say that bounds are naturals, that there
is a server (`BrowsersAssumption`), that a channel holds something (`ShellsAssumption`,
`WireAssumption`), that sizes, budgets and attempts are at least 1 and the budget's floor
is not above it (`RequestsAssumption`), that the court has a draft to write (`MarginsAssumption`), and that the
plans begun are finitely many (`KingdomsAssumption`).

- `OneAnswerLands` (`Questions`): while a question's sender is in the map nobody was told
  an answer landed; and an answer that landed in time stays in the channel until its call
  takes it (`QuestionOK`, `InTimeOK`).
- `CollectedAreDismissed` and `StopReachesThemAll` (`Errands`): what is collected is over,
  and dismissals pass over the errands in order, so none is skipped (`CollectedInv`); what
  a Stop listed is still to be halted, was halted, or had no turn (`StopInv`).  What was
  recorded after it looked is outside the theorem.
- `WholeReports` (`Jobs`): readers meet the end of a pipe only when nobody can write to it
  any more, and the reaper runs after them (`ReaperInv`); a handle is given up only when
  finished (`HandleInv`).
- `NoneForgotten` (`Browsers`): one call at a time launches, a Chrome no other call has
  heard of (`LaunchInv`); a server that has yet to sweep has done nothing else
  (`UnsweptInv`); and the claim on disk is that of every Chrome left behind (`LeftInv`).
- `NoNetworkForgotten` (`Networks`): unless two collided, whoever makes a network is alone
  (`AloneInv`), and each step of the making has what the steps before it left
  (`MakingInv`).
- `NothingIsLost` and `TheRecordIsTrue` (`Endings`), from one invariant: past the commit
  the checkout holds nothing that is not on the branch (`CommittedInv`), and the checkout
  may go only once the work has landed or is saved (`WorkInv`); the document stays with
  the request from its first step to its last (`DocumentInv`).
- `RegistryFollowsTheLiving` and `NoWellIsTakenAway` (`Wells`): what a pass knows at each
  stage (`StageInv`), what it will stop and what it leaves (`SweptInv`), and that the
  newest pass is over the plans now alive (`NewestInv`).  `RaisedInv` carries the half
  that is about failures: as long as nothing went wrong, a scope a pass is done with has
  all its services, or one that is late.
- `NoPlanIsOverwritten` (`Kingdoms`): as long as kingdoms change with nothing at work, the
  plan on disk under a number is the one that was begun with it (`DiskInv`), the plan in
  memory under it is the same (`RailedInv`), and a number taken and not yet recorded is
  below the counter and nobody else's (`NumberInv`).  A kingdom being opened is what its
  disk says but for the records that reading skipped, counted on from the highest number
  it read (`AssembledInv`).  A plan skipped may lose its record to the next one begun, and
  the theorem says that no other is lost with it: a number given out stands on no record
  the last reading found (`Free`).  That a kingdom read
  from disk has every record that can be read once, and that the next number is above them all, are
  lemmas (`LoadedFacts`, `NextNumberFacts`); they rest on least elements of sets of
  naturals (`LeastNumber`) and on a map between finite sets of one size (`RankedFacts`).
- `NoShellIsLost` (`Shells`): a start that was not doubled is the only one
  (`OneStartInv`).  `PanelsMissNothing`: what is drawn and what is due, taken as one
  sequence, only ever grows at its end: by the next chunk while the pump reads, then once
  by the end (`Shown`; `WholeGrows`, `HeardStream`, `ScrollbackWhole`).
- `TheCourtIsToldTrue` (`Fences`): fence and briefing are the same function of the
  manifests and the recorded choice, and `current` falls whenever one of its arguments
  may have changed.
- `TheFenceIsWhatWasTicked` (`Fences`): a merged list names the folders of what was merged
  and no others, and one that was ticked or dropped likewise (`MergedFacts`, `OnlyFacts`,
  `TickedFacts`); what is offered names the project's folders that are there
  (`CandidateFacts`).  The invariant (`PickerInv`) follows the panel through its stages: it
  shows what is offered until something changes, the plan records what it showed, and the
  fence has that.  A definition fell to this proof: `DeclaredAt` had been written as a
  `CASE` with arms that overlap, of which TLC takes the first and the logic takes either.
- `SavesRespectTheCourt` (`Editors`): what the King types, and what he sent away, holds no
  work of the court he has not seen; nor does its stamp, unless his text came from the
  stash (`TypedInv`, `SentInv`).
- `QuietMeansTrue` (`Wire`): the last message of a plan a channel holds is the plan as it
  is recorded (`WaitsInv`; for the rail, as good as that); where a room shows something
  older, the newest is on its way in one of its watches, or every watch that lacks it is
  known to, or will be given it when it opens (`RoomInv`).  The proof could not be made
  of the property as it first stood: with a channel of 2, one watch brings the newest
  state, the other an older one over it, and that other is lost before its own copy of
  the newest.  The run had a channel of 1 and could not show it.  The code repairs
  this with the plan's next change only, as it does a loss by lag; `missed` now says so
  (`Undoes`), and the run has a channel of 2.
- `EveryNoteIsHeardOnce` and `RepliesAreNotTorn` (`Margins`), from one invariant
  (`MarginsInv`).  `Places` lists where a note is; every step either leaves the places of
  all notes alone up to renumbering (`StaysPut`), or empties one place and puts what was
  there in another (`Lands`), and `HeardOnce` turns either into the property.  A note
  asked for is asked for by one request and has no fate yet (`AskedInv`), so a late
  `annotate` puts it where it is nowhere.  For replies, a turn past its first call has
  one of its reply in the record, or the King erased them all (`BegunInv`): that is what
  lets a later call go without thinking.  Deleting a line renumbers those after it; `Left`,
  `From` and `To` say how, and `StrikingPlaces` and `StrikingCarries` that nothing else
  changes.

- `NothingNeededIsShed` (`Requests`): the steps of shedding are one list (`StepsAre`), the
  step taken is the first to fit or the last (`SheddingFits`), and of each step it is known
  what it has given up (`StepFacts`, `LastStep`).  `AskingShrinks` is an action property:
  every step sheds what the steps before it shed, so a smaller budget makes a request no
  larger (`StepWeight`, `LessBudgetLessWeight`); a request is one attempt more than the last,
  or one halving of its budget, and of both there are only so many (`AsksCounted`,
  `HalvingsFacts`).
- `EditsLandAtOnce` (`Patches`): every list of edits has one order in which they are made.
  Made one after the other from the end of the file, they leave what stands when the edits
  made so far are put at once: one more edit is one more text spliced in before all of
  them (`PutBefore`), and it does not fit exactly when it clashes with one of them.
  `PatchTypeCorrect` needs the same invariant (`PatchInv`).
- `WorkersTypeCorrect` and `RecordsTypeCorrect`: the type invariants of the components of
  `MCProgress` and `MCSafety`, put together from one theorem per component
  (`EndingsTypeCorrect`, `WireTypeCorrect`, ...).  Most follow from the invariants above; the
  rest, the bounds on what is counted or queued, is inductive beside them (`WellsBounds`,
  `ShellBounds`, `WireBounds`, `FenceBounds`).
- `ComponentsAreSafe`: a step of `MCSafety` is a step of one component and a stutter of
  all others (`StepsApiece`), so its behaviours are behaviours of each (`EachItsOwn`), and
  every property the run `kingdom_safety` checks holds of the whole for every value of
  every constant.

What loops compute is proved by induction all the same, though the library's induction
theorems cannot be used (they take an operator as a parameter, which no installed prover
instantiates): the lemmas of `Recursions` say it of sets and functions.  If 0 is in a set and
each number up to a bound brings the next, all are (`UpTo`); a function that goes on from a
first value exists and is the recursive one (`GoesOn`, `Recursion`); flattening a list of
lists adds one after the other (`Joined`, `FlattenIsJoined`).  Each recursive function of
`Fences`, `Requests` and `Patches` is then reasoned about as the function it is.

Only model-checked: liveness under fairness (`HaltHeeded`, `QueueAttended`, `QuestionsEnd`,
`ErrandsAwaitedNotForEver`, `IdleBrowserCloses`, `DoorsFollowServers`, `KilledJobEnds`),
which is beyond TLAPS, as is `ENABLED`.  Every invariant and every action property of the
passing runs is proved.  The eight sentences that do not hold are, of course,
counterexamples of TLC's.

## Seen in the code and stated by no property

Met while translating; a sentence each, so that a reader of the code need not meet
them again.

- `Fences`: a row half chosen shows ticked, and pressing it removes instead of adding
  the other half.  A folder typed before the offers have landed keeps the defaults from
  being seeded.  A plan started with its isolation remembered and the panel never
  opened records no choice, and its root follows the manifests.  What a project
  declared stays ticked when another project is chosen.  A folder written under `~` and
  in full is bound as whichever comes first, not the more permissive.  The briefing
  reads the project's manifest anew while the root stands.
- `Margins`: unsent notes go when the court revises its proposal.  If the first call of
  a reply is deleted before the second has begun its thinking is lost (`model.rs:1417`).
- `Patches`: occurrences of an anchor that overlap count as one (`patch.rs:625`), though
  the tool says an anchor must stand once.
- `Editors`: closing the panel loses the stash, which `source_view.rs:40` says survives;
  text typed since a save was pressed is marked saved; a late fetch for one file may land
  under the name of another; a save pressed twice is refused by its own first; temporary
  names are shared; mixed line endings are rewritten.
- `Kingdoms`: `assemble` says that a restart "cannot reissue an id that a plan on disk is
  already using" (`api.rs:408`); a record that cannot be read is skipped (`store.rs:234`),
  not counted, and written over by the plan that is given its number.  The counter is
  called monotonic (`api.rs:32`); opening a kingdom sets it back under a plan that has its
  number and is not recorded yet, and the next plan is written over it.
- `Errands`: subagents recorded after Stop read its list, or spawned and not registered
  when it looked for them, run on when their parent is halted, against the comment at
  `api.rs:1685`.
- `Kingdoms`, `Plan`: `begin_plan` itself leaves a note in the log, which `store.rs:280`
  counts as having begun.
- `Browsers`: `reap_idle` does not look again under the write lock, as its comment says
  `close` does (`session.rs:824`).
- `Networks`, `Shells`: a terminal opened on a finished plan makes its network anew
  (`terminal.rs:247`); concurrent reservations of a debugging port strand a door.
- `Jobs`: a halted `run` leaves a command without a handle anybody was told
  (`bash.rs:361`); an over-long line empties the ring.
- `Wells`: an adopted container's address goes by its place in the manifest
  (`docker.rs:398`); declaring and withdrawing are unlocked reads and writes of one file.
- `Wire`: a room's own socket writes the rail's attention mark too, from the plan it was
  handed (`app.rs:254`); the model leaves that mark to the pulses.  The snapshot a room gets when it reconnects lacks its subagents (`watch.rs:68`).
- `Endings`: what a background command writes between `commit_pending` and the removal of
  the checkout is lost; `fresh_branch`'s filter of taken names changes nothing.
- `Requests`: "the remaining pictures, oldest first" (`copilot.rs:743`), but the loop counts
  the wrong way: no step of it helps, and then every picture goes.  A request refused as too large that already fits the tighter budget is sent
  again as it was.

## Not modelled

- tmux panes: one-shot commands to a server that keeps the state itself.
- Listing changed files and drawing diffs (`review.rs`), reading files and folders: they
  ask git or the disk and keep nothing.
- Skills, prompts, settings, permissions beyond the two remits of a decree: text.
- The catalogue of models, credentials, the wire formats of providers other than what
  `Requests` says of assembling and reading.
- The script that builds a sealed plan's filesystem, the addresses of wells, what a web
  page does: text for a shell, arithmetic, other programs.
- `declare_mount` and `withdraw_mount` beyond their effect (`EditsHost`, `EditsCity`); no
  screen calls them.
- Folders inside one another in `Fences`; several clipboards and re-indenting in `Patches`.
- Mock data, fixtures, tests, style sheets, rendering.
- The city map: `kingdom-citymap` is another project's code taken in whole, some 27,000
  lines of layout and drawing on which the rest does not rely.

The map names about a tenth of the implementation's lines.  Most of what is left is that
city map, rendering, tests within the source files, and prose: documentation comments are
close to half of most files here.

## What is left

1. Abstract specifications worth stating: an ending that lands once or not at all,
   implemented by `Endings`; a question answered, expired or abandoned exactly once.
2. Larger instances of `Networks`, a second port, two sealed plans.
3. In `Patches` several clipboards and re-indenting; in `Fences` folders inside one another.
