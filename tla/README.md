# CallLens QA Portal: TLA+ models and proofs

CallLens (this repository) is a Django portal with Celery workers. VICIdial dialers report calls by
HTTP callbacks; the portal keeps one row per call, finds and downloads its recording, has QA analysts
review it and team leaders act on the reports, and lets Project Managers correct the business fields.
Around the calls stand the administration (companies, branches, dialers, teams, accounts), a
notification inbox, an AI assistant over the figures, a shared Grafana viewer and live updates in the
browser. This directory models the parts where those actors meet on the same rows, and the pure rules
(scorecard, lists, reports of the dialer) on which they decide.

All paths below are under `src/backend/apps/` unless they start with `src/`.

## 1. Inventory

| Component | Code | State | Operations | Modelled in |
|---|---|---|---|---|
| Ingestion | `calls/webhooks.py` | `CallEvent` rows | Start Call and disposition callbacks | `CallEvent`, `CallLifecycle`, `CallMatching` |
| Stale sweep, agent identity | `calls/tasks.py` 168-325 | the same rows | `mark_stale_calls` every minute, `resolve_stale_agent_identity` | `CallEvent`, `CallLifecycle` |
| Call editor | `calls/serializers.py` 366-449, `calls/views.py` 1574-1611 | disposition and business flags | a patch by a Project Manager | the same, `PresetResolution`, `RecordingPipeline` |
| Preset resolution | `calls/tasks.py` 78-165, `calls/preset_lookup.py`, `notifications/services.py` 316-377 | `preset`, the missing-preset notification | `resolve_sale_preset`, retried | `PresetResolution`, `DialerReports` |
| Recording pipeline | `calls/tasks.py` 39-75, 328-586, `calls/services.py` | lookup and download status, files | `resolve_recording`, `fetch_recording`, retried | `RecordingPipeline`, `DialerReports` |
| QA review | `calls/views.py` 115-465, 957-1122 | `Review`, `ReviewWorkflowEvent`, two notifications | reserve, release, draft, submit, report actions | `ReviewWorkflow` |
| Scorecard | `calls/scorecard.py`, `calls/serializers.py` 112-174 | the evaluation fields of a review | draft, submission, evidence of a criterion | `Scorecard` |
| Team assignment | `tenancy/services.py`, `tenancy/api_serializers.py` 162-271 | `Team`, the team of a call, the unknown-team notification | prefix lookup, saving a team | `TeamAssignment` |
| Administration | `tenancy/api_serializers.py`, `tenancy/models.py` | users, teams, branches, dialers, assignments | validated writes by several administrators | `Organisation` |
| Visibility | `calls/views.py` 66-106, 1443-1489, `access/report_scope.py`, `dashboard/views.py` | none | who finds which call and report | `Visibility` |
| Report library | `calls/views.py` 468-905 | none | list, segments, score rules, cards | `ReportLibrary` |
| Call library, playback | `calls/views.py` 1124-1440 | none; the recording file | list, filter dialog, byte ranges | `CallLibrary` |
| AI assistant | `ai_assistant/` | conversations, a cache lock | one chat turn; one investigation | `Conversation`, `Investigation` |
| Inbox and live updates | `notifications/services.py`, `views.py`, `admin_views.py`, `src/frontend/src/components/AppShell.tsx` | notification rows, readers, what a portal shows | queue, resolve, announce, mark, reload | `Inbox` |
| Analysis workspaces | `notifications/consumers.py`, `calls/views.py` 170-262, `src/frontend/src/components/AnalysisWorkspaceModal.tsx` | presence rows, channel groups, open tabs | connect, heartbeat, disconnect, reserve, release | `Workspace` |
| Accounts and sessions | `accounts/` | one account's row, sessions, its picture | sign-in, passwords, reset link, picture | `Account` |
| Grafana viewer | `analytics/tasks.py`, `analytics/grafana.py` | columns of `Company`, an external user | a retried synchronisation | `GrafanaViewer` |
| Sales analytics, dashboards | `analytics/services/sales.py`, `dashboard/` | none | read-only SQL | not modelled |
| Feedback, database metrics | `feedback/`, `tenancy/db_metrics*.py` | messages; cached counters | single writes | not modelled |
| Frontend, deployment | `src/frontend`, containers | what two components above show | | otherwise not modelled |

**Interactions.** The callback commits a row and, in `on_commit` hooks, publishes
`resolve_recording` and, for a SALE, `resolve_sale_preset`. `resolve_recording` publishes
`fetch_recording`. The sweep publishes the identity task. The editor publishes the preset lookup or
resolves its notification. All of them write the same row: the web handlers under `select_for_update`,
the tasks with conditional or plain updates and no lock held over a request to VICIdial. The team
administration writes the team of rows that callbacks are creating. A review needs a downloaded
recording, so a callback that resets the recording blocks the reviewer. Workflows queue and resolve
notifications in their own transactions and announce them after the commit; the browser combines what
it is told with lists it asks for. Every list, page and answer of the AI assistant starts from a scope
that the administration may be changing.

**Hard behaviour.** Callbacks repeated, missing, late, concurrent or out of order; a sweep and an
editor that change a row between two of them; at-least-once task delivery, worker deaths, time limits
and lost publications; a read before a slow request and a write after it; two lock orders (the call
row for QA analysts, the review row for leaders); a lock in a cache that expires under its holder;
validation and write of two administrators that cross; messages sent after their commits that overtake
each other; rows saved whole from old copies; external accounts outside every transaction.
`PROJECT.json` lists each hazard at its line, with the properties about it.

**What makes each component correct.**

* Ingestion: the outcome of a call is the last one given; recording work starts once, exactly for
  finalized calls; flags exist only under SALE; a call has one row and a row one call.
* Sweep and identity: only undispositioned calls go stale; a late disposition wins.
* Preset: a lookup never overrides a person; a missing preset is reported, and the report does not
  outlive its reason; what is read from a dialer's report is about this call.
* Recording: one downloader, complete files, a final status for every recording.
* Review: whose turn it is, the stamps and the notifications agree; submitted work is never deleted.
* Scorecard: what is stored is what the stored sheet gives; a better mark never lowers the rating.
* Team assignment: no call waits for a team it could have; someone is told of those that wait.
* Administration and visibility: rows that are validated one at a time fit together; nobody sees
  another company's calls; pages written apart agree.
* AI assistant: turns of one conversation do not interleave; an answer is about the scope it names.
* Inbox and workspaces: what asks for attention is not marked away; in the end a screen shows what the
  database says.
* Accounts: a temporary password must be changed; a picture that is named exists.
* Grafana viewer: it converges to the company's row, and is gone when analytics is off.

## 2. Modules

| Module | Models | Main correspondence |
|---|---|---|
| `CallEvent` | the row and every handler's effect on it, as operators | `MergeStart`, `MergeFinal` = `merge_start`, `merge_final`; `FinalPublishes` = the `on_commit` hooks; `SweepSelects`, `MarkStale` = `mark_stale_calls`; `ApplyIdentity` = the identity merge; `ValidPatch`, `EditRow` = `CallEditorSerializer.validate` |
| `CallLifecycle` | those handlers as transactions on a table of calls | `StartCall`, `FinalDisposition`, `MarkStaleCalls`, `IdentityLookup`, `IdentitySave`, `EditCall`; `Publish` loses a suffix of the hooks when the process dies |
| `CallPromise` | what the portal may rely on when it reads a call: the abstract specification | `Hear`, `Abandon`, `Decide`, `Correct`, `TakeOver`; implemented by `CallLifecycle` |
| `CallMatching` | which row a callback finds | `Match` = the queries of `receive_vicidial` in order; `Receive`, `Insert`, `UnlockedMerge` = the three ways through `get_or_create` |
| `PresetResolution` | the preset task step by step | `Begin`, `Lookup`, `Store`, `Refresh`, `Resolve`, `Notify`, `Ack` are the statements of `resolve_sale_preset` |
| `RecordingPipeline` | both recording tasks and the files | `ResolveStart` ... `FoundRecording`; `FetchStart`, `Claim`, `Mark`, `RefreshFirst`, `OpenTemp`, `WriteTemp`, `ReplaceTemp`, `Save`, `TryAgain`, `RecordFailure` |
| `DialerReports` | wall times around a change of the clock; the choice of a recording and of a preset | `localize_wall_time`, `choose_recording`, `preset_lookup.py` |
| `ReviewWorkflow` | one call's review | `Reserve`, `ReleaseCheck`/`ReleaseEvents`/`ReleaseDelete`, `Draft`, `Submit`, `ReportAction` |
| `ReportLibrary` | list and cards over every state of `ReviewWorkflow` | `Listed` = `_report_filters`; `Cards` = `ReviewReportSummaryView` |
| `Scorecard` | drafts, submissions and evidence of one report | `Settled`, `Calculated` = `calculate_evaluation`; `RatingFor` = `rating_for`; `Evaluated` = `ReviewSerializer.validate`; `ValidPatches` = `_validate_evidence` |
| `TeamAssignment` | a branch's teams and the calls that wait for one | `LookUpTeam`, before the transaction; `MergeInto` = a row found and locked; `FindNone`, `Create`, `Get`, `MergeCopy` = the way through `get_or_create`, whose merge works on an unlocked copy; `SaveTeam`, `SaveCommit` are the two statements of saving a team |
| `Organisation` | users, teams, branches, dialers, assignments | `ValidateUser`/`SaveUser`/`RefuseUser`, `ValidateTeam`/`SaveTeam`, `SaveBranch`, `SaveDialer`: validation and write are separate steps |
| `Visibility` | who sees what over every state of `Organisation` | `SeesCall` = `scoped_calls`; `SeesReport` = `scoped_reports`; `FindsInEditor` = `_editor_scoped_calls` |
| `CallLibrary` | the call list, the dialog of its filters, playback | `ListsCall`, `OfferedAgents`, `OfferedTeams`; the steps of `RecordingView` around `stat` and `open` |
| `Conversation` | turns of the chat endpoint, the lock, expiry, deletion, pruning | one action per access to the database or the cache in `AIChatView.post` |
| `Investigation` | one question to the third AI engine | `Round`, the `Ask...` tools, `ShowPrimary`, `QueryPrimary`, `GiveUp` = `run_ai` and its `finalize` |
| `Inbox` | notification rows, their recipients and readers, live messages, the bell of each portal | `Queue`, `Resolve`, `Close`, `Announce`; `Broadcast` or `Lose` after the commit; `Hear`, `Reconnect`, `Load`, `FindRows` are the browser's |
| `Workspace` | connections, heartbeats and reservations of the workspaces on one call | `Connect`, `Heartbeat`, `Disconnect`, `Roster`, `Send` = `AnalysisPresenceConsumer`; `BroadcastReservation` = `_broadcast_reservation` |
| `Account` | one account's row, sessions and picture | sign-in, change and reset of passwords, whole-row saves, upload and removal |
| `GrafanaViewer` | the viewer's account in Grafana and the task that keeps it | one action per request of `sync_grafana_viewer` |
| `CallEvent_proofs` | lemmas about the handlers' effect on one row, for the four proof modules after it | |
| `CallLifecycle_proofs`, `CallPromise_proofs`, `PresetResolution_proofs`, `RecordingPipeline_proofs` | theorems about the modules they are named after | section 5 |
| `Arrival_proofs` | theorems about `CallMatching`, `TeamAssignment`, `CallLibrary` and `DialerReports` | section 5 |
| `ReviewWorkflow_proofs` | theorems about `ReviewWorkflow`, `ReportLibrary`, `Organisation`, `Visibility` and `Scorecard` | section 5 |
| `Services_proofs` | theorems about `Conversation`, `Investigation`, `Inbox`, `Account` and `GrafanaViewer` | section 5 |

**How they compose.** `CallLifecycle`, `PresetResolution` and `RecordingPipeline` extend `CallEvent`: a
handler that several of them need is one operator, applied to a table of rows in the first and to one
row, between the steps of a task, in the others. `ReportLibrary` extends `ReviewWorkflow` and
`Visibility` extends `Organisation`: they add readers to every state the writers can produce.
`MCReviewWorkflow`, `MCCallMatching`, `MCPresetResolution` and `MCServices` check several modules in one
run. The modules of such a run share no variable, so that a behaviour of all is a shuffle of one
behaviour of each; instead of every interleaving, a variable `part` chooses at the start which module
moves, and the others rest. The other `MC*` modules only give constants their values.

A definition commented "Mutant" is a plausible bug in the definition after it; no specification uses it.

**Conventions.** `row.biz` is the set of business flags that are set, a typed or looked-up preset
among them; what the text of a preset is does not matter. An agent's name or team is represented by
where it came from. A variable marked *history* is read by properties only. Bounds are constants named
`Max...` and stand only in guards.

**Abstractions to know.**

* SALE aliases are SALE already; a callback's disposition is never a provisional word on the outcome
  side (`FinalDispositionsAssumption`: VICIdial's `no_agent` URL reports outcomes).
* In `CallLifecycle` a callback finds its call's row; `CallMatching` shows when that is so. There, a
  call's identifiers are cleaned; several calls may connect one agent with one lead.
* `CALL_INGESTION_LIFECYCLE.md` lists the matching order as uniqueid, call_id, agent_log_id; the code, and the model,
  use call_id, agent_log_id, uniqueid. Without conflicting identifiers the order does not matter.
* VICIdial's answers, and what the language model asks for, are nondeterministic choices. So is a file
  two workers wrote to: `"mixed"`.
* `DialerReports`: one clock change a day; the dialer's time zone is taken to be the portal's branch's,
  and the lookup of a preset compares wall times, as the code does. Of a call whose Start Call was
  missed, that is dated in the repeated hour and reported closer to the other one, the code cannot know
  the start; `ReportedOfThisCall` asks nothing about its preset (`StartKnown`).
* Two workers that both read an empty `recording_uuid` would use two files; the model gives them one,
  the worse case.
* In `ReviewWorkflow`, project assignments of a leader are abstracted to whether his account is active.
* In `TeamAssignment`, teams are not renamed or moved, and one is saved at a time; `Organisation` has
  the moves. Edits through Django's own admin site are not modelled.
* `Scorecard` has two headings with four criteria whose maxima add up to the boundaries of the coverage
  tiers; the forty questions and their wording are data.
* `Workspace`: messages of a channel group arrive in the order they were sent, so they are shown when
  they are sent; the same announcement of a reservation to the call lists of the project's analysts is
  left out, and so is a submission, which announces the reservation unchanged.
* `Account`: throttling, cookies and the audit log are left out. An upload names a new file and the old
  one is removed by the request that replaced it, if at all: pictures that nothing names may remain.

## 3. Runs

| Run | Bounds | What it shows |
|---|---|---|
| `lifecycle` | 1 call, outcomes SALE and DROP, 3 callbacks, 2 edits of at most one flag each way | outcome, flags, recording eligibility and pipeline starts, in any order of handlers; a provisional call settles; every step is one of `CallPromise` |
| `arrival` | 3 calls, two of them of one lead and agent, 2 requests, 4 callbacks, three, two and one sets of identifiers; 2 teams with one leader, 3 calls, 3 callbacks, 3 saves; tables of 3 calls; files of 0, 1 and 3 blocks, 2 replacements; reports of 2 lines around a change of the clock (an hour has 5 instants) | rows are calls but for what only the lead can tell, one pipeline per call, final stays final; no call waits for a team it could have, and only a stale copy takes a team away; offers find calls and calls are offered; replies hold what they announce; what is read from a report is about the call |
| `preset` | 2 workers, 1 retry, 2 dispositions, 2 edits, 1 crash or time limit; 2 tabs opened twice in all, 3 connection names, 1 fault or 2 reservations | a late lookup does no harm; a missing preset is filled, left or reported; workspaces list each other and show who holds the call |
| `recording` | 2 workers, 1 retry, 2 dispositions, 1 edit, 1 fault | one downloader, complete files, downloads kept, every recording settles |
| `review` | 2 analysts, 2 leaders, a superuser, 2 reservations, 6 report actions; 2 administrators, 2 users, 2 companies, 2 branches, 2 dialers, a team, 3 requests; 4 criteria, 3 patches of evidence | turns, stamps and notifications agree, submitted work is kept, cards match lists; rows fit together and scopes agree after crossing saves; reports are whole and ratings fair |
| `services` | 2 turns in 2 conversations, 1 expiry, 1 kill, 2 scope changes; 2 workers, 1 save, 1 fault; 7 contracts, 2 rounds, 5 calls; 3 users, 3 notifications of which one changes hands, 3 commits, 1 reload or 1 mark; 2 browsers, 2 passwords or 2 pictures, 1 save by an administrator | history is whole and under one scope; the viewer converges or is gone; answers fit their contract; attention is kept and the bell is right; temporary passwords are changed and pictures exist |
| `unstarted`, `duplicates`, `notice`, `released`, `narrowed`, `reset` | the same or smaller | each is a counterexample to a sentence of the documentation or the code, see section 4 |

**Why the bounds are enough.** Rows of different calls never meet in `CallLifecycle` (the proofs need
no bound at all), so one call suffices. The longest stories there are start, sweep, disposition and a
duplicate around two edits. A matching conflict needs two calls of a lead, two requests, and three callbacks
before the fourth that meets the result; the third call, of another lead, stays out of it. Of these
calls one is known by identifiers that any two of its callbacks share, though not always the same one;
one only by some of its callbacks; and one by its lead alone. Two workers are the fewest that can share a file or a message,
and a third would repeat the second; a retry counter only decides "last or not", so one retry has both
cases. One fault at any step covers each recovery path; two would repeat the same redelivery. Six
report actions cover return, resubmit and return again with a detour. Three saves can make a leader's
name ambiguous and unambiguous again; three requests of two administrators are one that is overtaken,
the one that overtakes it and one that builds on the result. Two turns are the fewest that interleave
and the lock that one loses is the other's. Two rounds let the model confirm a name after it used it.
Three commits let a notification be queued, resolved and queued again around one mark, or be queued
for one leader, for another, and for the first again. A dead
connection needs a second name for the tab that dials again and a third for the other analyst.
Deadlock is not checked: every bound ends somewhere, and a portal that nobody calls is idle.

**Symmetry** is used in `review` (analysts, leaders) and `arrival` (the two calls with the same team
prefix, the two request threads), which check no liveness.

**Fairness.** `ProvisionalSettles` assumes that time passes and that Celery Beat's 60-second schedule
(`src/backend/config/settings.py` 228-232) sweeps each waiting call: weak fairness suffices because a
waiting row stays selected. `MissingPresetReported` and `RecordingSettles` assume that workers run what
the broker delivers (`WF` on each worker's steps, not on a particular choice of message or answer) and
that a committed request runs its hook. `ViewerConverges` assumes the ten-minute resynchronisation of the
same schedule (line 233) and running workers. `WorkspacesAgree` assumes that an open workspace dials
every three seconds and beats every twenty (`AnalysisWorkspaceModal.tsx` 160, 183), that handlers end,
and that a row nobody touches ages. Callbacks, edits, users, crashes and time limits are never obliged
to happen. Where a publication dies with its process, or a time limit ends a task outside its own error
handling, nothing in the code picks the work up again: the properties name those cases (`lost`,
`abandoned`) instead of assuming them away. In the composed runs the fairness of a module that rests
asks nothing of the others, because no fair action is enabled in its initial state; `services` has one
fair module only, and its property is about that.

**Provisos.** Several invariants except a set of calls or rows (`reopened`, `predecided`, `raced`,
`rivals`, `crossed`, `overtaken`, `merged`, `unheard`, `released`, `overruled`, `excused`, `late`, `outdated`,
`drifted`, `slipped`, `astray`, `undone`, `displaced`, `rebranded`, `stripped`). Each is a
history variable set by the exact event that makes the code give the guarantee up; what remains is
checked for every other case, and the mutants show that it still catches bugs. Some
of them are worth knowing, for what they give up is reachable in the runs:

* `reopened`: an edit back to NEW lets the sweep take a finalized call, because its filter
  (`calls/tasks.py:278`) does not look at `finalized_at`.
* `crossed`: when a disposition comes before anything is stored that it could be recognised by, and
  another call of that lead and agent is awaited, `pending_match` (`calls/webhooks.py:281-305`) attaches it
  to that call's row, which then holds two calls. `RowsAreCalls` says that this is the only way.
* `SavesTeamless`, in `TeamKept`: a disposition that knows no team, and went through `get_or_create` to the
  row of another request, saves that row as it read it (`calls/webhooks.py:423`, 447), without the team
  that a save of a team gave the call in between.
* `astray`: a leader who is replaced keeps the report in the bell until the next list, because only the
  new recipients are told (`notifications/services.py:125`, 355); so does everybody when a process dies
  between the commit of a row and its message.
* `Parameters`, in `AnswerFitsContract`: the overview of calls received has no project parameter
  (`ai_assistant/tools.py:72`, dropped at `ai_assistant/investigation.py:527`). A question about "our project"
  is answered over all projects, and the project is kept as a filter for the next turn; the comment at
  `ai_assistant/investigation.py:741` says "Resolve singular "our project" without assuming it means all
  projects." The property says what the kept filters and the answer have in common: the parameters the
  tool has.

## 4. Disagreements between code and documentation

1. `unstarted`: a Project Manager gives a NEW call an outcome; the disposition that follows finds it
   neither provisional nor stale (`calls/webhooks.py:366`) and starts no pipeline, against
   `CALL_INGESTION_LIFECYCLE.md:37`.
2. `duplicates`: `get_or_create` (`calls/webhooks.py:447`) returns an existing row unlocked; two
   dispositions both finalize it, against `CALL_INGESTION_LIFECYCLE.md:37`.
3. `notice`: a disposition that leaves SALE (`calls/webhooks.py:393`) or a warning from a stale read
   (`calls/tasks.py:145`) leaves the notification open, against
   `CALL_EDITOR_AND_PRESET_LOOKUP.md:37`.
4. `released`: release and report action lock different rows, so a returned review can be deleted
   (`calls/views.py:242`), against the answer at `calls/views.py:255`.
5. `narrowed`: any dialer the model finds by its exact name narrows the question
   (`ai_assistant/investigation.py:638`), so that a question about all is answered, as complete, for
   one, against the comment at `ai_assistant/investigation.py:648`.
6. `reset`: the confirmation of a reset link saves the password and then deletes
   `user.session_set` (`accounts/views.py:190`), a relation that no model defines: the transaction fails
   and the password stays, against the handler's own answer at `accounts/views.py:193`.

## 5. Proofs

Every safety property that a passing run checks is also a theorem, for every value of the constants
and without the bounds of the run. Each theorem is about the specification of its own module (`Spec`,
`TeamSpec`, `LibrarySpec`, `PlaybackSpec`, `ReportsSpec`, `OrgSpec`, `CardSpec`, `ChatSpec`, `AskSpec`,
`InboxSpec`, `AccountSpec`, `ViewerSpec`). A behaviour of a composed run moves
one module and leaves the others as they start, so that the theorem and the run speak of the same steps.

Few of the properties are inductive. Each proof module names a stronger invariant `...IInv`, which was
first checked by TLC, shows by one lemma per action that every step keeps it, and derives the theorems
by `PTL`. The rest of this section says what had to be added, and why.

**One row.** `CallEvent_proofs` shows that the row operators keep `Coherent` (type and CHECK constraints)
and what each of them changes, resets and publishes. The lifecycle, preset and recording proofs use these
lemmas and never look inside an operator again.

**Lifecycle** (`TypeCorrect`, `FlagsCoherent`, `PipelineFollows`, `OutcomeKept`, `DispositionWins`).
`IInv` adds what each handler relies on without checking it: a finalized call that was never reopened
shows a decided outcome and is not stale (otherwise a duplicate disposition would find it pending and
start the pipeline again), and a call not yet finalized still shows a pending word unless the editor
decided it (otherwise its disposition would start nothing). `DispositionWins` is an action property that
follows from `IInv` in the state before the step.

**The promise** (`Implements`). `CallLifecycle!Spec` implements `CallPromise!PromiseSpec` under the
refinement mapping `Promise`. A call is *unheard* without a row, *awaited* or *abandoned* with a pending
row that is not or is stale, *decided* once finalized, and *taken over* once the editor decided it first
or reopened it. With `IInv` as the invariant of the unprimed state each action maps to one step of the
promise or to a stutter: a Start Call to `Hear` or nothing, a disposition to `Decide` or `Correct`, the
sweep to `Abandon` of the set it selected, an edit to `Correct`, `TakeOver` or nothing, the identity
task to nothing.

**Preset** (`OpenNoticesFit`, `LateLookups`). `WrittenInv`: the row holds a preset exactly if someone
wrote one since it was last cleared. `NoticeInv`: an open warning over a row that is complete is about
to be resolved by a hook, a message or a worker on its way (`Resolving`), or is one of the exceptions
(`excused`, `lost`). The property only speaks of quiet states; this is what holds in the others.

**Recording** (`DownloadsComplete`, `DownloadStays`). `ClaimInv`: until `released`, whoever streams
streams alone, and the row says downloading, or skipped where a lookup gave up or the sweep came by;
neither can be claimed. `FileInv` follows the one file from opening to its final name. Without
`ClaimInv` two workers could write it and neither status nor file would mean anything.

**Arrival.** `CallMatching` (`RowsFitCalls`, `PipelineOnce`, `FinalStays`): the theorems assume nothing of
leads or identifiers. What lead and agent cannot tell is in the properties: `crossed` notes the pair when a
disposition comes that has no row to be recognised by while another call of its lead is awaited
(`Crossing`), `Mistaken` are the calls of such pairs, and `Linked` are the calls of which any two callbacks
share an identifier. `KeyInv` says of every row, and of every copy that a request holds, that its identifiers are those of calls it took callbacks of (`Sound`),
any two of them a noted pair, and of a final row of one call that it has all that one of that call's
callbacks carried (`OfOneCall`), by which the next of a linked call finds it. `OneRow`, `RivalInv` and
`InsertInv`: a linked call has one row, and whoever is about to insert does it under that row's key, or the
call is one of the `rivals`. `PipelineInv`: a pipeline that was started has its final row.
`TeamAssignment` (`WaitingRight`, `TeamStays`): `HeardInv`, `SeenInv` and `AdminInv` say that what a callback, before or inside its transaction, or a save between its two
statements, remembers of teams and calls is what it would find now, unless a save overtook it;
`TeamStays` goes through the actions one by one and leaves `MergeCopy` of a disposition as the only one that can lose a team.
`CallLibrary` (`OptionsFit`, `RangesServed`): the list proof is about
every table of calls: a column of no more values than the limit is offered whole, up to the least
spelling of each word; the playback proof keeps what a reply announced, a fact of the header and of the
size that was read, apart from what it sent, a fact of the file that was opened. `DialerReports`
(`ReportsOfCall`): nothing but the answer changes, so the theorem is about the two choices, for reports of
any length. `Localized`: what is read out of a wall time shows that time and lies no further from the
reference than the instant it came from, so that the call's own recording has the distance zero and
another one can only tie with it if it shows the same time (`OwnRecordingChosen`). `WindowOnTheWall`
and `WallForward`: where the start can be known the window begins at what the wall showed then, and away
from a clock set back the wall only goes forward, so that every transfer of the call lies in the window
and the last of them on the wall is the last that happened (`OwnPresetFound`).

**Review.** `ReviewWorkflow` (`TurnsAgree`, `StampsKept`, `NoticesFit`, `SubmittedStays`): two facts about the
superuser, whose report actions reach a review that is not submitted and may come between the steps of
a release, make the invariants inductive. `UnsubmittedReview`: a review in progress was never submitted,
and if its leader status moved, the superuser moved it (otherwise its first submission would leave a
moved report without a notification that needs action). `ReleasedReview`: a review being released
exists and was never submitted, although its status may have become "revision required" meanwhile.
`ReportLibrary` (`CardsCount`) follows from the first of them. `Organisation` (`TablesFit`): `RequestsFit` says
that a request that was validated and is not `late` is valid in the present tables; it is what makes
validation and write, two steps that others cross, as good as one. `Visibility` (`ScopesHold`) follows
from that. `Scorecard` (`ReportsWhole`): evaluating what an evaluation stored changes nothing, and evidence
patches that are compared with their neighbours only do not overlap at all. `RatingsFair`: the quotient of
points earned and points possible only grows with a mark (`SumMonotone`, `PercentGrows`), also across a
heading that was missed and is assessed instead (`SumOfMore`); and because the points possible are whole and at most
a hundred, two decimals cannot round a share below a threshold up to it (`ThresholdsMet`).
`Total` is a fold; that it is the sum is proved (`TotalIsSum`, `SumSteps`) from a set without a smallest
counterexample (`Subsets`), which needs no induction theorem.

**Services.** `Account` (`TemporaryPasswords`, `PicturesStored`): `RowsInv` says of the saved row, and of every
copy a request will save, that a temporary password comes with its flag and that password and picture
were given out; `NameInv` that a picture about to be named is stored and nobody else's. `Conversation`
(`HistoriesWhole`, `OneScope`): `LockInv` says whose the lock is, `WaitInv` and `ReadWhole` what a turn that waits
for it or has it must have read, `ScopeInv` and `KeptInv` in which scope it works. `GrafanaViewer`
(`NoViewerWhenOff`): `KnownInv` says that every account is the company's, or lost, or about to be remembered
by a task; `OffInv` that the tasks of a company switched off remove it. `Investigation` (`AnswersFit`,
`PrimaryTried`): `ReserveInv`, two attempts are left until the finalizer has its turn; `Grounded`, what was
resolved was confirmed by a directory, inherited or the question's. `Inbox`
(`AttentionStays`, `BellsRight`): `VersionInv` says that a queued row of any kind but unknown teams is addressed
to somebody, and an announcement still to those whose marks are on their way; `Follows`, that a portal
hears of a row and is not `astray`; `StrangerInv`, that whoever a row is not, or no longer, addressed to does
not have it unless `astray`; `LastWord`, once the row's transactions have announced their work, that the last
message on its way says how the row is; `RowRight` is the property for one row, while others move.
The run has no missing-preset notification; the theorems are about those too.

**Assumptions.** All are named in the module that declares the constants and are evaluated by TLC in the
runs. Those that are more than types: SALE is an outcome and the pending words are not
(`FinalDispositionsAssumption`); analysts, leaders and the superuser are different accounts, since an
account has one role (`ReviewAssumption`); the tables an administrator finds fit together
(`FirstAssumption` of `Organisation`); there are finitely many teams (`TeamAssumption`); the case of a word
says nothing about blanks around it, and a team's name is neither empty nor has blanks around it
(`LibraryAssumption`); a call talks no longer than it lasts, and a lead's recordings have different
numbers (`ReportsAssumption`); there are finitely many criteria, whose maxima are whole points and add up
to a hundred, as `calls/scorecard.py` has it (`ScorecardAssumption`); a model value that stands for
"none" is no other value.

**Only model-checked.** Liveness (`ProvisionalSettles`, `MissingPresetReported`, `RecordingSettles`,
`WorkspacesAgree`, `ViewerConverges`): fairness and `ENABLED` are outside the prover. So is what the composed
runs add to the modules: that their modules do not disturb each other is how the runs are built, not a
theorem.

## 6. Plan

1. Done: the call lifecycle with its abstract promise, refinement and proofs; the review workflow with
   its proofs; matching; preset; recording; teams; scorecard; report and call library; administration
   and visibility; conversations and investigation; inbox, workspaces, accounts; the Grafana viewer.
2. Proofs: done for every safety property of a passing run (section 5). Next: what the modules could
   promise each other, such as an abstract review beside `CallPromise`.
3. Models next: the cleaning of identifiers in `event_key` against the stored columns; renaming a team;
   creation of companies and campaigns; a table with several calls beside `CallPromise`.

## 7. Not modelled, and why

Sales analytics and the dashboards are read-only SQL without a rule of their own. The first two AI
engines, the recognition of intents in a question's words and the rendering of answers are text
processing; parsing of reports, interpretation of questions and wording appear as nondeterministic
answers. Feedback and database metrics are single writes without interaction. Throttling, cookies and
the audit log decide nothing here. Free-text search, ordering and paging of lists are left out. Of the
frontend only what the notification bell and the analysis workspace make of messages is modelled; the
deployment decides no rule of the workflow.
