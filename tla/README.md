# pm-ai, modelled in TLA+

`pm-ai` keeps a project manager's memory: it harvests meetings and issues, keeps
meeting records and ledgers as files, makes summaries with a local model or with
Claude, and answers commands. All of it runs in one daemon that serves several
terminals at once. The hard part is not any single computation but that requests,
timers, model calls and shutdown happen at the same time over one SQLite store
and a tree of files, and that the process may stop or die between any two steps.

The modules here model that concurrent core: the writer and the requests that use it,
the daemon's life, the summaries, the harvest, the transcripts it fetches, the commands
it finds in them, the proposals it stages, the commitments it records, and the files all
of it is kept in. TLC checks them on small instances; TLAPS proves the safety properties
of all of them, and that the writer implements its abstract promise, for every value of
the constants. Paths below are relative to `src/pm_ai/`.

## Contents

1. [Inventory](#1-inventory)
2. [Modules and how they correspond to the code](#2-modules-and-how-they-correspond-to-the-code)
3. [Runs: what is checked, and what it shows](#3-runs-what-is-checked-and-what-it-shows)
4. [Bounds](#4-bounds)
5. [Fairness](#5-fairness)
6. [Proofs](#6-proofs)
7. [Where the code and its own words differ](#7-where-the-code-and-its-own-words-differ)
8. [Not modelled](#8-not-modelled)
9. [Plan](#9-plan)
10. [Running it](#10-running-it)

## 1. Inventory

### Components

| component | code | state | operations | what makes it correct |
|---|---|---|---|---|
| Writer thread | `app/concurrency.py` `WriterThread`, `StorageService.claimed_step` | a queue of steps, the flags stopping, closing, closed, halted; one open transaction | `call`, `call_async`, `stop_accepting`, `close` | each step has one fate, its caller is told it truly; nothing is written after a halt or to a store another process migrated; every caller is answered |
| Jobs and the request path | `app/prompts.py` `RequestPath`, `requests` table | one row a job: queued, running, done, failed | `prompt`, `_run_job`, the two halves of a summary job, restart and shutdown passes, prune | a 202 names a job that is written down; one run per deduplicated key; no row is left behind; a settled row stays settled |
| Daemon life | `app/daemon.py` | the lifetime lock, the phase of start and stop | start, restart pass, serve, halt, stop, drain | order of the stop; the stop ends; one daemon at a time |
| Meeting summaries | `app/pipelines.py` (`summary_steps`, `_written`, `SummaryJobs`), `meeting_summaries` table | state, version, lease; the record, decisions and staged items | offer, request, reset, take lease, settle, time out | a job that was revoked writes nothing; "summarized" is said of a whole summary only; what was asked of Claude is not replaced unasked |
| Model pools, I/O pool | `app/concurrency.py` `ModelPool`, `IOPool` | queued and running calls, the stopping flag | submit, shutdown | one call at a time a pool; nothing handed on once the shutdown began |
| Harvest | `app/pipelines.py` `harvest_once`, `app/ticks.py` `HarvestTimers`, cursor and coverage in `storage/service.py` | a cursor and covered-until per connector and account, the ledgers' lines, last success and failure | attempt, fetch, persist, save cursor, abandon, record failure | the position never passes what is in the ledger; an abandoned attempt never writes again; a failed attempt is no success |
| Timers | `app/ticks.py`, `core/cadence.py` | when each connector is due | tick, doubling wait, provider floor | every due connector is harvested; no provider is asked before it allows |
| Transcripts | `core/transcript_acquisition.py`, `connectors/transcripts/graph_transcripts.py`, `ingest_captures` in `app/pipelines.py`, the transcript tables | per part of a meeting a row and a capture file; per meeting a state, a count of ingestions, and whether it was asked after its window | select, repair, ask, claim, capture, mark, note, offer, ingest | no capture without a row; parts in time order; what is to be tried again is asked about; every part is tried |
| Proposals | `app/proposals.py`, `domain/proposals.py`, `proposals` table | a row: staged, approved, rejected, expired, superseded; its version, values, what it replaces | stage, rewrite, approve, reject, edit, expire | what was shown is approved; an edit keeps what was rewritten meanwhile; what is past is frozen; one live replacement |
| Skill execution | `skills/registry.py`, `executed` table | a row a key: in flight, settled, failed; a lock per entity | ask, claim, call, settle, log | a provider is called once a key; what is said to be done was; a change is known before it is made |
| Commitments | `core/commitment_log.py`, `app/commitments.py` | an append-only ledger per scope; the state is a fold of it | record an approval, mark, due date, undo, catch up at a start | no line twice; the state told is the one in force; an approval is recorded in the end |
| Claims | `platform/claims.py`, `StorageService.exclusive` | a lock file per artifact | exclusive, hold for life | one holder whatever the spelling of the path |
| File publication | `storage/service.py` `_publish`, `_make_visible` | staged file, target | stage, fsync, rename or link, best-effort fsync of the directory; append | old or new file whole under its name, also after a power failure; what was told written stays, where the directory was synced |
| Records, rendering | `core/meeting_records.py`, `core/rendering.py` | none | parse, print | text level |
| Connectors, models, keychain, crypto, surfaces | `connectors/`, `models/`, `platform/`, `surfaces/` | none that lasts | HTTP and OS calls, printing | outside |

### How they interact

* **Requests** arrive on the event loop. A handler hands the job's row to the
  **writer** (`call_async`), awaits it, hands the job to the **I/O pool** and
  answers 202 with its id. The client then follows the job's stream.
* A **job's worker** moves its row queued -> running -> done or failed, every
  move a step of the writer, and calls the pipelines in between.
* A **summary** runs as a generator of stages. Reading and writing stages run on
  the I/O pool, calls on one of two one-thread **model pools**; between stages
  nothing is held, so everything it read may be stale. It is fenced by a version
  and a lease in its row.
* **Timers** run on the loop, one harvest attempt at a time; each fetch runs on a
  thread of its own under a deadline and may be abandoned while still running.
* **Stop**: the server closes, the loop ends, the writer stops accepting, the
  shutdown pass runs as the writer's last step, the writer and the pools close.
  **Halt**: the writer found the schema moved or a transaction that will not end;
  it refuses everything and asks the server to exit.
* **Another process** (a second terminal without the daemon, or a newer version)
  shares the store: it holds SQLite's write lock for a while, and may migrate it.
* The **harvest** runs the **transcripts**' acquisition and then the ingestion of each
  stored part. Ingestion finds commands: those of an enrolled kind run a **skill** at
  once, the others are staged as **proposals**; so are the items of a summary.
* An **approval** of a proposal is a row, and only then a line of the **commitments**'
  ledger; a daemon that starts looks for approvals that have no line and appends it
  (the catch-up). Ledgers, captures, records and configuration are **files**, each
  rewritten under its **claim** and published by one rename or link.

### What is hard to test

A withdrawal that races the start of a step; a step handed over as the thread
returns; two halves of a job ending in either order on two threads; a row moved
while its job was waiting for a model; a crash between a row, its worker and the
202; a harvest abandoned with a step already in the writer's queue; a second
failure that rewrites what the first recorded; a transcript listed after a later one
was stored; a proposal rewritten while the PM edits it, or edited again after its
replacement expired; a kill between a provider's answer and the row that says so; an
approval whose process dies before its ledger line; an append cut short, and the clock
set back before the next; a power failure between a rename and the fsync of its
directory. `PROJECT.json` lists each at its line, with the property that covers it or
the reason why none does.

## 2. Modules and how they correspond to the code

### `WriterThread`

The variables are the fields of `WriterThread` (`stopping`, `closing`, `closed`,
`halted`, `queue`), the thread's position (`thread`, `current`), the fields of each
`_Step` (`kind`, `started`, `done`), what its caller does (`mode`, `caller`), and
the store (`tx`, `lock`, `version`). An action is one critical section under the
writer's lock, or one change of the transaction:

| action | code |
|---|---|
| `HandOver` | `call`/`call_async` up to the wait: `_submit`, `_refuse` |
| `StartTimeout`, `Cancelled`, `TakesAnswer` | the three ways the wait ends; `_withdraw` under the lock |
| `Pop`, `Return` | `_run`: the next step marked started, refused if halted; the thread's end |
| `Opens`, `FindsVersionMoved` | `_open_for_step`: BEGIN IMMEDIATE, then the version, then the statement |
| `RaisesUnopened`, `ReturnsUnopened` | a step that never reached the store, or found it locked |
| `Commits`, `RollsBack`, `GetsStuck` | how `claimed_step` ends, and `_execute` with it |
| `StopAccepting`, `Close`, `Closed` | `stop_accepting` and the two locked parts of `close` |
| `OtherLocks`, `OtherUnlocks` | another process (environment) |

The caller's bound (`start_within`) and its side (thread or loop) are kept because
the code treats them differently: a thread with a bound waits for *started* alone,
and so is told busy, not stopped, of a step that was refused before it started.
The length of the wait is not modelled: it may end at any moment.

### `ClaimedSteps`

The abstract promise: a step has one fate, its caller is told at most one thing
that agrees with that fate, and its writes are kept only if it was applied.
`WriterThread` defines the mapping (`FateOf`) and instantiates it; the run
`writer` checks `KeepsItsPromise == Promise!Spec`, and `WriterThreadProofs` proves it.

### `JobRequests`

The `requests` table (`row`, `key`), the daemon's life (`phase`, `lives`, `halted`,
`asked`, `marked`), each HTTP request (`reply`), each worker (`worker`, `attempts`,
`outcome`), and which of them has a step in the writer's queue (`handed`). A step
of the writer is one action; that a step is whole or nothing and the shutdown's
step comes last are what `WriterThread`'s theorems say. `phase` follows
`_serve_locked`: starting (restart pass), pruning, serving, stopping (listener
closing), loop ended, draining (`stop_accepting` was called), closing.

`Crash` may happen in any phase and drops all that is not in the store. `lives`
counts starts, so runs see rows of an earlier life.

### `Summaries`

One meeting's row with its version, lease and three outputs (`record`, `decided`,
`items` name the job that made them), and the jobs. `stage` is where a job is in
`summary_steps`/`_written`/`_settled` and on which pool: begun, queued and calling
on the model pool, called and cleared in `_drive`, leasing .. settling on an I/O
worker. A request commits the row first (`Request`, then "asked") and starts its job in
a step of its own (`Starts`, the in-flight mark); others may come between. Every write is guarded as in the code by the row's version or the job's
lease, read in the same step (`AtFence`); what a job does otherwise (`LosesLease`,
`LeavesRow`, `BreaksUnexpectedly`) is an action each.

`wish` and `revoked` are ghosts: what the PM last asked for, and the jobs that were
running when the row was moved under them.

### `Harvest`

One connector instance. What lasts is the position (`cursor`), per event the number
of its lines (`log`) and whether its natural key is in `seen`, the meetings with a
record (`recorded`), and the stamps `failure`, `success`, `previous`: the numbers of
the attempts they name (0: none), so "later" can be said without a clock. What an
attempt holds is `stage`, what it has yet to write, and `saved`; each attempt's
transcript thread is in `thread`, with `abandoned` the identities its attempt marked.
The provider's events are numbered in the order its cursor passes them; a connector
may return more than its new cursor passes, and again what it returned before.

| action | code |
|---|---|
| `Start` | `HarvestTimers._attempt`: one attempt at a time |
| `Fetched`, `Fails` | the bounded fetch returns, raises, or its deadline passes |
| `PutsRecord`, `RefusesRecord`, `FindsRecordsBusy`, `SavesBusy` | the loop over `MeetingRecords.put` in `_harvest`; `_record_busy_meetings` |
| `Appends`, `CommitsAppend`, `CommitRefused` | `persist_events` of one scope, in the two halves a crash can part |
| `Saves` | `save_cursor` with `_write_failure`: position, failure and stamps, one commit |
| `BeginsTranscripts`, `StepReturns`, `EndsSaved`, `NoBudget`, `Deadline` | the bounded steps after the save, and how each ends |
| `RecordsFailure` | `record_failed` and `record_harvest_failure`, `after_save` or not |
| `Refused` | `REFUSED` and `STOPPED`: nothing recorded |
| `ThreadBegins`, `ThreadHands`, `StepRuns`, `StepDone`, `ThreadEnds` | the thread: `tracked`, `_hand`, `guarded` on the writer |
| `StopAccepting`, `ShutdownMarks`, `Restarts` | the stop, `_mark_unfinished`, the end of the process at any point |

A claimed step is one action except where its parts matter: `persist_events` appends
to a file, which no rollback undoes, before it commits. Attempts are counted by
`attempt`, and `thread[n]` is attempt `n`'s thread, the ingestion reusing the name of
the fetch's, which has ended by then. Ghosts: `dropped` (refused records), `torn`
(how often an event's lines were appended and not committed), `late` (threads whose
deadline passed, marked or not).

### `Transcripts`

One calendar meeting with `N` transcripts, numbered by when they were created. The
provider's side is `listed` (per transcript: not begun, going on, listed, expired) and
`over`, whether the placement window ended. The store's side is `rows`
(`transcript_parts`), `disk` (the captures), `state` and `attempts`
(`transcript_state`, `transcript_ingest_attempts`) and `asked` (`transcript_part_asks`).
`run` is what one acquisition run holds: where it is, what the provider gave it, the part
it is storing. Ghosts: `told`, what was last said of a transcript that was not stored;
`tried`, how many ingestions of each part were recorded as failed.

| action | code |
|---|---|
| `Begins`, `Finishes`, `Expires`, `WindowEnds` | the meeting and its provider (environment) |
| `Selects` | `_select_in`: the meeting is asked about, or is done |
| `Repairs`, `Repaired` | a pending row whose capture is on the disk is marked stored; the rest is asked for |
| `Asks`, `AsksNobody` | `_Run._match`: the listing, the transcripts that clash or go on, the downloads |
| `Claims`, `WritesCapture`, `MarksIt` | `record_pending_part`, `write_capture`, `mark_part_stored`, of one part after the other |
| `Settles`, `Notes` | the outcome of the run; `record_part_ask` |
| `Offers`, `Ingests`, `Records` | `ingest_captures`, its cap, `record_transcript_state` |
| `CutOff` | a kill, or the harvest's deadline |

### `Proposals`

`rows[<<r, n>>]` is the row of item `r` (`n = 0`) or of its `n`-th replacement: state,
version, values, whether it is past its window and what it replaces. `desk[d]` is one
request of one process: what it read, computed from it and asks for. Reading and writing
are two actions because the desk holds no claim between them; a version ties them.

| action | code |
|---|---|
| `AsksChange`, `AsksEdit` | the read in `ProposalDesk._change`, `_edit`, and the values computed from it |
| `Changes`, `Edits` | `change_proposal`, `edit_proposal`: refusals, the row, the replacement of an expired one |
| `Reloads` | a version conflict without `--if-version`: read again, once |
| `Abandons` | the process is killed, or finds the store busy |
| `WindowCloses`, `Sweeps` | time passes; `expire_overdue` |
| `Summarizes` | `stage_summary_items`: new items, rewritten ones, dropped ones, in one transaction |

### `Skills`

`job[t]` is the ingestion of transcript `t` and its place among the commands said in it;
`executed` the ledger of keys; `lock` the lock of each entity that
`SkillRegistry.invoke` takes; `logged` and `ingested` the event log's lines and the
parts marked. `provider` is what was called and applied outside, and `said` what pm-ai
says it did with each command: both ghosts of what a PM could find out.

| action | code |
|---|---|
| `Starts`, `Skips` | a part is ingested; a command of a kind that is not enrolled |
| `Locks`, `Asks`, `Claims` | the entity's lock, `was_executed`, `begin_execution` |
| `FailsBefore`, `Calls`, `Returns` | the skill raises before it calls; the call; its answer, or none |
| `SettlesAsFailed`, `Settles`, `Logs` | `fail_execution`, `settle_execution`, the event's line |
| `Stages`, `Finishes` | `stage_unless_acted`, `mark_part_ingested` |
| `Dies` | the daemon is killed, at any point |

### `Commitments`

The ledger of one commitment: a sequence of lines with kind, instant and how the line
ends (whole, cut short, or whole but without its newline). What a reader makes of it is a
few operators over the lines that count (`Counted`, `Undoes`, `MarkOf`, `State`), which
are `parse_ledger`, `fold` and `_undone_marks`. `approved` is the instants of the approved
proposals, `desk` the processes of the PM, `keeper` the starting daemon, `clock` the
clock that stamps lines.

| action | code |
|---|---|
| `Approves`, `ApprovesAgain` | an approval in the store, of an item or of its edit |
| `ReadsToRecord` | `CommitmentRecorder`: the ledger is read, the line it lacks prepared |
| `Asks`, `ReadsToWrite` | `CommitmentDesk._write`: a mark, a due date or an undo, decided from what was read |
| `Appends`, `AppendsInPart` | `_compare_and_append`, whole, or cut short by a failing disk |
| `DaemonStarts`, `Lists`, `Prepares`, `CatchesUp`, `CatchesUpInPart`, `DaemonEnds` | `catch_up`, `_catch_up_scope`, and a kill anywhere in it |
| `Abandons`, `ClockIsSetBack` | a process dies; the clock that stamps the next line is set back |

### `Files`

`seen[f]` is what a reader finds, as the set of writers whose entry it holds; `kept[f]`
the set of what the disk may hold after the power failed. Every write adds to `kept`,
an fsync of the directory takes the older away, where it succeeds: `_fsync_dir` is
best-effort, and what it swallows leaves `kept` as it was. Two ghosts say whose entries that
concerns: `unsynced`, the writers shown in a directory that did not sync and that no write of
the file has synced since, and `lost`, those of them the power took. `sidecar` maps a lock file's name, which
depends on how the path is spelled, to an inode, and `lock` says who holds an inode.

| action | code |
|---|---|
| `Opens`, `Claims` | `_open_lock_file`, `flock`: two system calls another process may come between |
| `Stages`, `SyncsStaged`, `Publishes` | `_publish`: the staged file, its fsync, `os.replace` or `os.link` (`_make_visible`) |
| `SyncsDirectory` | `_fsync_dir`: synced, or not, and nothing is said |
| `Ends` | the writer is told it is written; the end of `exclusive` |
| `Fails` | a step up to the publication raises, or a creator's unlink of the staged name, or the rest of the body that holds the claim; never the fsync of the directory |
| `Dies`, `PowerFails` | a process is killed; all are, and what was not synced may be gone |

## 3. Runs: what is checked, and what it shows

| run | properties | shows |
|---|---|---|
| `writer` | `KeepsItsPromise`, `NeverWritesMovedStore`, `EveryCallerIsTold`, `CloseReturns` | two steps meet withdrawal, halt, stop, rollback and another process in every order; nobody waits for ever, `close` returns, also for a step queued as the thread returns |
| `jobs` | `OneRunPerKey`, `NoOtherRowIsStranded`, `CleanStopSettles`, `StartedJobsSettle`, `StopEnds` | two jobs over two lives with duplicates, busy stores, halts, stops and crashes |
| `summaries` | `TypeOK`, `SummarizedIsWhole`, `RevokedNeverWrites`, `ClaudeIsNotReplacedUnasked`, `MeetingIsFreed` | two overlapping jobs of a meeting, local or Claude, with new parts, resets, timeouts, stops and restarts |
| `harvest` | `PositionIsBacked`, `NoSuccessOfFailed`, `AbandonedNeverWritesAgain`, `AttemptsEnd` | two attempts at two events in two scopes, under every failure, deadline, stop and kill |
| `transcripts` | `TypeOK`, `CapturesHaveRows`, `TimeOrder`, `AskedAgain`, `EveryPartIsTried` | three transcripts, listed late, overlapping and expiring, while runs store, are cut off and repaired |
| `proposals` | `TypeOK`, `EditsKeepRewrites`, `OneLiveReplacement`, `PastIsFrozen`, `ShownIsApproved` | two desks, re-summaries and the sweep at an item and its replacements |
| `twolive` | `OneLiveInChain` | expected violation, section 7 |
| `skills` | `TypeOK`, `CalledOnce`, `ExecutedDidHappen`, `AppliedIsClaimed` | two transcripts that say one command twice, ingested at once and again, over failures and kills |
| `commitments` | `TypeOK`, `EachLineOnce`, `ToldIsInForce`, `ActsOnShown` | two desks and a starting daemon at one ledger, with appends cut short and the clock set back |
| `recorded` | `ApprovedIsRecorded` | a desk that may die between the approval and its line, or in the middle of it |
| `revised` | `RevisedKeepsState` | expected violation, section 7 |
| `files` | `TypeOK`, `NothingLost`, `NeverTorn` | threads of two processes rewrite one file through two spellings and create another, with kills and a power failure. `NothingLost` excepts one case, the code's own: a directory that did not sync, the writer told "written", and the power failing before another write of the file synced it |

Some properties proved in section 6 are checked by no run any more, because a theorem
says more and each run is kept to the questions it alone answers: `TypeOK` of the writer
and the jobs, `HTypeOK` of the harvest, `BusyMeansNothingWritten`, `AnswerAgreesWithStore`,
`NothingWrittenAfterHalt`, `ShutdownStepRunsLast`, `AcceptedIsRecorded`, `SettledIsFinal`,
`CitesARecord`, `OneLinePerEvent`, `OneAtATime`, `StoredStays`.

`OneLinePerEvent` is not "one line an event", which is false by design (the docstring
of `persist_events` names the window): it says that the *only* extra lines are those
of an append whose commit was refused or killed, one for each time.
`AbandonedNeverWritesAgain` leaves out the threads that could not be marked (section 7,
number 9), and the stop: a thread abandoned by the end of the daemon has until its
process ends.
`NoOtherRowIsStranded` deserves a word: the plain statement, that a serving daemon
has no unfinished row nobody will move, is false (section 7, numbers 3 and 4). The
property checked says those two ways are the *only* ones, over both lives, so a
third way, or a restart pass that misses a row, would be found.
`OneLiveReplacement` is what the code keeps of "at most one live": of the replacements
made directly of *one* row; over a whole chain it is false (`twolive`).
`ApprovedIsRecorded` has one way out the code has: a line cut short that names the
commitment and is not the last must be mended by hand before anything is appended.
`ToldIsInForce` looks at the moment a desk's append is told as recorded, and
`RevisedKeepsState` at what a later append of the daemon makes of it.

Every property of a passing run has a mutant in `PROJECT.json`: a plausible bug in
one mapped definition under which TLC finds that property violated. The mutated
forms stand in the modules just before the definition they replace, commented
"a mutant". They are not part of any specification.

## 4. Bounds

* `writer`: 2 steps (an inversion needs two), the three kinds, and the modes "call",
  "call within" and "async within": a wait without a bound, and one with a bound from
  each side. "async" without a bound differs from the last by having no timeout, which
  only helps liveness to fail for a caller whose answer never comes, and "call" covers
  that caller. No symmetry, since liveness is checked. 293,344 states. That nothing
  depends on there being two steps is what the proofs say.
* `jobs`: 2 jobs, one deduplicated key and one summary key, `StateAttempts = 2`
  (the code's bound is larger; what matters is that the last try differs from the
  first), `MaxLives = 2`: a row of one life met by the next.
* `summaries`: 2 jobs (each name used once; the row's version numbers are unbounded
  in the model and bounded by the moves), `MaxTimeouts = 2`, the first value at
  which a timeout may or may not be the last, `MaxMoves = 2`.
* `harvest`: 2 events, one in each scope, so that a crash can fall between the scopes;
  2 attempts, the second meeting what the first left (a position, torn lines, a
  recorded failure, a thread still running); one step a transcript thread. No bound
  on kills and restarts.
* `transcripts`: 3 parts, of which 2 and 3 may overlap and 1 cannot be ingested: an
  earlier one can be listed after a later one, a later one be pending or stored as an
  earlier one is claimed, and the cap of ingestions (2, the code's is larger) be met by
  one part while another is fine. 2 faults: one leaves something, one hits its repair.
  429,797 states.
* `proposals`: one item, 2 desks (interchangeable, so symmetry), 2 replacements, two
  values of each field, versions up to 2: an item rewritten twice while a desk holds
  what it read. 475,586 states. `twolive` takes one desk and 3 replacements.
* `skills`: 2 transcripts, 3 keys of which one is said in both and one of a kind not
  enrolled, 2 entities, of which two keys share one. No bound on kills and replays.
  176,585 states.
* `commitments`: 2 desks, 3 instants, 3 lines, one edit, an undo window of 1 instant and
  one fault, an append cut short or the clock set back: enough for a mark, its undo, and
  a revision whose instant is not where the ledger has its line. 655,726 states.
  `recorded`: one desk and 4 lines, 38,735 states. `revised`: 5 instants, an undo window
  of 4, no faults.
* `files`: 3 rewriters and 2 creators in 2 processes (two rewriters of one process are
  interchangeable), 2 spellings, one try each, one power failure. 1,220,712 states. (With two tries each of 2 rewriters
  and 2 creators, 10 million, the invariants hold too.)

The bounds `MaxLives`, `MaxMoves` and the like are guards of the actions that would
count on for ever, are CONSTANTS, and are commented `bound`.

`CHECK_DEADLOCK FALSE` is set everywhere since every system modelled here may stop:
the writer is closed, the last life of the daemon ended, all jobs were used.

## 5. Fairness

No run assumes fairness for a client, a PM, another process, a crash or a stop.

* `WriterThread`: weak fairness of the thread (it loops on a condition variable that
  every append notifies), of `close` once the thread is joined, and of each caller's
  timeout or answer. The steps end because each is a claimed step that waits for
  nothing but the store, and the store's lock wait is 100 ms.
* `JobRequests`: weak fairness of the pools, of commands (each declares its bound,
  a summary its model's deadline) and of the stop once begun; strong fairness of
  `Settles` alone: a settling move is handed over again while the store is busy, so
  the store must not be busy *every* time. Nothing makes anyone start the daemon or
  stop it; the halt's request to the server, once it reached it, is followed.
* `Summaries`: weak fairness of each job's next stage. A call ends by its deadline.
* `Harvest`: weak fairness of the attempt (`Goes`: it fetches, writes, and its bounded
  steps return or are abandoned, each by a deadline the code sets) and of the writer
  running what a thread handed it. None of the threads: an abandoned one may hang for
  ever, and `AttemptsEnd` must hold all the same.
* `Transcripts`: weak fairness of the run's steps (`Steps`), the selection among them: a
  timer begins runs again and again while the daemon lives. Faults are bounded, so some
  run comes to its end. None of the meeting: a transcript may never be listed.
* `Commitments` (`recorded`): weak fairness of `DaemonStarts`, strong fairness of
  `Lists`, `Prepares` and `CatchesUp`: the PM starts the daemon again and again, and not
  every start is killed or beaten by another append at the same place. None of the
  desks, which may die anywhere.
* `Proposals`, `Skills`, `Files`: no fairness, since only safety is asked of them.

## 6. Proofs

### `WriterThreadProofs`

`WriterThreadProofs` proves, for **any** set of steps, any kinds and modes, under
the two assumptions of `WriterThread` (`NoStep` is no step; the kinds and modes are
the code's), with no bound on anything:

| theorem | says |
|---|---|
| `Invariance` | `Spec => []IInv` |
| `TypeCorrect` | `Spec => []TypeOK` |
| `BusyIsHonest` | `Spec => []BusyMeansNothingWritten` |
| `AnswersAreHonest` | `Spec => []AnswerAgreesWithStore` |
| `HaltIsFinal` | `Spec => NothingWrittenAfterHalt` |
| `MovedStoreIsSafe` | `Spec => NeverWritesMovedStore` |
| `ShutdownIsLast` | `Spec => ShutdownStepRunsLast` |
| `PromiseIsKept` | `Spec => KeepsItsPromise` |

None of the properties is inductive by itself. That a withdrawn step never starts
needs that it is not in the queue, which needs that no step is twice in the queue
(removing one occurrence would leave another), which needs that only a step not yet
handed over is appended. That a committed step was not committed to a moved store
needs that the daemon holds the write lock whenever a transaction is open, so that
the version read after BEGIN IMMEDIATE cannot move before COMMIT: this is the reason
the code reads the version *inside* the transaction. `IInv` collects these facts as
named conjuncts, and the step proof takes one action at a time.

`ShutdownIsLast` rests on a fact about the queue that a test could hardly state:
behind a shutdown's step in the queue there is no ordinary one.

`PromiseIsKept`, that the writer implements `ClaimedSteps`, has one lemma per group of
actions, each saying which abstract step the concrete one is: handing over is `HandOver`;
a withdrawal is `GiveUp` of a pending step, or `Tell` of one refused before; the end of a
step is `Apply` or `GiveUp`; closing is `RefuseAll`; popping is a stutter unless the writer
halted. The invariant is needed where a fate must not change twice: that a popped,
withdrawn or running step is not answered yet, and is not in the queue once it left it.

### `HarvestProofs`

`HarvestProofs` holds the proofs of a harvest: of the transcripts it acquires
(`Transcripts`) and of its attempts (`Harvest`, whose `HInit`, `HNext`, `HSpec` and
`HTypeOK` bear a prefix, since the module extends both).

Of `Transcripts`, for **any** number of parts, any that overlap or cannot be read, any cap
and any number of faults, from `TranscriptsAssumption` alone:

| theorem | says |
|---|---|
| `Invariance` | `Spec => []IInv` |
| `TypeCorrect` | `Spec => []TypeOK` |
| `CapturesAreHeld` | `Spec => []CapturesHaveRows` |
| `PartsInTimeOrder` | `Spec => []TimeOrder` |
| `AgainIsAsked` | `Spec => []AskedAgain` |
| `StoredIsKept` | `Spec => StoredStays` |

A run works from what it read at its start, over several writes and a request to the
provider. `RunInv` says what it may still rely on at each place: the stored parts are those
the meeting held and those the run has stored; what is left to store is later than every one
of them, which is why a part can take the number after the last; and no capture waits for
its mark but the one in hand, so that a capture left behind by a kill is always found by the
repair before anything is claimed. `OrderInv` says of *all* rows, the pending ones too, that
their numbers follow their transcripts, and no number passes its transcript's: that is why
numbers never run out. `CapInv` bounds the ingestions of a meeting.

Of `Harvest`, for **any** number of events, any division into scopes and any number of
attempts, from `ProviderAssumption` and `BoundsAssumption` alone:

| theorem | says |
|---|---|
| `AttemptInvariance` | `HSpec => []AttemptInv` |
| `AttemptTypeCorrect` | `HSpec => []HTypeOK` |
| `NothingIsSkipped` | `HSpec => []PositionIsBacked` |
| `CitationsResolve` | `HSpec => []CitesARecord` |
| `DuplicatesAreTorn` | `HSpec => []OneLinePerEvent` |
| `FailureIsShown` | `HSpec => []NoSuccessOfFailed` |
| `AbandonedIsHarmless` | `HSpec => AbandonedNeverWritesAgain` |

`AttemptInv` has three parts beside the types. `LedgerInv`: an event's lines are its
torn ones plus one if its key is committed or about to be, and what the attempt has
not yet written (`toRecord`, `toPersist`, `appending`) is exactly what stands between
the position it wants to save and the ledger; that is why an attempt killed anywhere
leaves a position that is backed. `StampInv`: the stamps are in order, and an attempt
that reached its save and was clean has stamped itself with the one before kept, so
taking it back leaves a success below the failure. `ThreadInv`: only the attempt in
flight has a thread that is neither ended nor abandoned nor late. Each has its own
step lemma; `TypeStep` needs all three, since a success put back must be one.

### `JobRequestsProofs`

For **any** jobs, deduplication keys, bound on attempts and number of lives, from
`KeysAssumption`, `JobsAssumption` and `AttemptsAssumption`:

| theorem | says |
|---|---|
| `Invariance` | `Spec => []IInv` |
| `TypeCorrect` | `Spec => []TypeOK` |
| `RepliesAreRecorded` | `Spec => []AcceptedIsRecorded` |
| `RunsAreSingle` | `Spec => []OneRunPerKey` |
| `RowsAreHeld` | `Spec => []NoOtherRowIsStranded` |
| `StopSettles` | `Spec => []CleanStopSettles` |
| `SettledStays` | `Spec => SettledIsFinal` |

`IInv` adds three parts to the properties. `RequestInv` ties a request to its row and to
the step it handed over: no row before its step ran, and a request that waits only while
the loop runs. `WorkerInv` ties a worker to its row: until the shutdown pass the row is
where the worker believes it is, and a start is handed over a bounded number of times.
`LifeInv` says what each phase leaves behind it: before it serves the daemon has no
worker, no waiting request and no step, and no row is unfinished once the restart pass
ran; after the shutdown pass the writer holds nothing. `RunsAreSingle` rests on all of
them: the look-up and the insert are one step of the writer, a worker never outlives
its row unless the daemon is closing, and what an earlier life left was settled before
the first request of this one.

### `SummariesProofs`

For **any** jobs, number of timeouts and moves of the row, from `JobsAssumption` and
`BoundsAssumption`:

| theorem | says |
|---|---|
| `Invariance` | `Spec => []IInv` |
| `TypeCorrect` | `Spec => []TypeOK` |
| `SummariesAreWhole` | `Spec => []SummarizedIsWhole` |
| `RevokedIsFenced` | `Spec => RevokedNeverWrites` |
| `ClaudeIsKept` | `Spec => ClaudeIsNotReplacedUnasked` |

`FenceInv` is about versions alone: no job is ahead of the row; one level with it finds
the row waiting and is the maker last asked for; a revoked one is behind for good, since
versions only grow. `LeaseInv` says that the outputs the holder of the lease has come
past are its own. `WritesAreFenced` then says that every output is changed by a job
level with the row, which gives `RevokedIsFenced` and `ClaudeIsKept` at once. The two
parts meet in `LeaseStep`: while a lease is held the row is waiting, so nobody changes
an output under a row that says "summarized".

### `SkillsProofs`

For **any** transcripts, commands in them, keys and entities, from the assumption of
`Skills`, with no bound on kills and replays:

| theorem | says |
|---|---|
| `Invariance` | `Spec => []IInv` |
| `TypeCorrect` | `Spec => []TypeOK` |
| `CallsAreSingle` | `Spec => []CalledOnce` |
| `OneCallAnEntity` | `Spec => []OneAtATime` |
| `ExecutedHappened` | `Spec => []ExecutedDidHappen` |
| `AppliedHasItsClaim` | `Spec => []AppliedIsClaimed` |

`KeyInv` is about each key alone: what the ledger says of it bounds what the provider can
have done (no row, no call; settled, applied). `JobAt` is what a job within a call relies
on, such as that its key is in flight and not yet called. That other jobs do not take it
away follows from the locks: two jobs within calls hold the locks of different entities,
so have different keys, and a step changes the row of its own key only. After a kill the
locks are gone and the rows stay, which is where `KeyInv` alone has to do.

### `FilesProofs`

For **any** writers, processes, files, spellings and number of tries and power failures:

| theorem | says |
|---|---|
| `Invariance` | `Spec => []IInv` |
| `TypeCorrect` | `Spec => []TypeOK` |
| `WrittenStays` | `Spec => []NothingLost` |
| `WholeFiles` | `Spec => []NeverTorn` |

`ClaimInv`: a rewriter past its claim holds the lock of the inode that is its file's one
sidecar, whatever spelling it came by, so that two rewriters of a file are never past it
together. `DataInv` is about the entries that stand (`Stands`: told written, and not lost
to the power): the file that is seen holds them, what a rewriter prepared holds them, and
so does *every* content the disk may still hold, of a writer that is not in `unsynced`. A
write whose directory is synced takes all of its file out of `unsynced`, and may, since what
is then left on the disk is what is seen. A power failure ends `unsynced`: who was in it is
still in its file or in `lost`.

### `ProposalsProofs`

For **any** items, values, desks, number of replacements and versions:

| theorem | says |
|---|---|
| `Invariance` | `Spec => []IInv` |
| `TypeCorrect` | `Spec => []TypeOK` |
| `EditsKeep` | `Spec => []EditsKeepRewrites` |
| `OneReplacementLives` | `Spec => []OneLiveReplacement` |
| `ClosedIsFrozen` | `Spec => PastIsFrozen` |
| `ApprovedAsShown` | `Spec => ShownIsApproved` |

`ChainInv`: a row that was replaced is closed, or past its window, and what replaced it
has its date. `DeskInv`: while a row is at the version a desk read, what the desk computed
is computed from what the row holds. `RowsKeep` says how any step may change any row
(`Changed`): a version never goes down, and as long as it stays so does the date. With it
each step lemma looks at the desk that moved alone.

### `CommitmentsProofs`

For **any** number of desks, proposals, tries and lines, any window of undo, any set-backs
of the clock and any appends cut short, from `CommitmentsAssumption` alone:

| theorem | says |
|---|---|
| `Invariance` | `Spec => []IInv` |
| `TypeCorrect` | `Spec => []TypeOK` |
| `OnceHolds` | `Spec => []EachLineOnce` |
| `ShownIsActedOn` | `Spec => ActsOnShown` |
| `ToldHolds` | `Spec => ToldIsInForce` |

The desks and the catch-up share only the ledger, and each decides from what it has read.
`Fits` says of lines that they may be appended to the ledger *as it is*: a `pending` or
`revised` line whose entry is not there; a mark, a due date or an undo dated later than all
that counts, and decided on the state the fold gives now. `DeskInv` and `KeeperInv` say that
what a process is about to append fits the ledger for as long as no other has appended; the
comparison in `_compare_and_append` is what makes that enough, since an append by another
voids it and sends the process back to read. `LedgerInv` says what follows of the ledger:
no entry is in it twice (`OnceInv`), and, while every line has its newline, none is dated
earlier than those before it, but for the lines of approvals (`LateInv`).

`ToldHolds` then goes into the fold. Of a mark it must be shown that the marks before it
come to the same state as before (`SameMarks`), that no undo begins or ceases to hold
because of it (`UndoesAsBefore`), and that it comes last (`NewMark`); of an undo, that
nothing that counts lies between it and its mark, which is `LateInv` for the mark, the
newest line when the undo was decided.

`MarkOf` goes through the instants one by one, and what it computes is an induction over
them. The library's induction theorems cannot be instantiated here, but the least number of
a set can be had from the well-foundedness of `<` (`LeastExists`): what is proved of the
fold is proved by the least instant at which it would be wrong.

### Model-checked only

* The liveness properties (`EveryCallerIsTold`, `CloseReturns`, `StartedJobsSettle`,
  `StopEnds`, `MeetingIsFreed`, `AttemptsEnd`, `ApprovedIsRecorded`, `EveryPartIsTried`):
  liveness under fairness is out of the prover's reach.

Every other property of a passing run is a theorem as well.

## 7. Where the code and its own words differ

Two are runs that TLC must find violated, quoting the words they are about.

1. **A revision by the catch-up undoes an undo** (`revised`). A `revised` line takes the
   instant its proposal was approved, and an undo is dropped when another line of the
   commitment sorts between it and its mark. Marked done, an edit approved whose process
   dies before its line, the mark undone; the next start appends the line between the
   two, and the commitment is fulfilled again though the PM was told his undo was
   recorded. Story 15c says that a `revised` line never changes the state.
2. **Two live replacements of one item** (`twolive`). `edit_proposal` of an expired row
   looks for a live one only down the chain of the row it edits. An item whose replacement
   expired is edited again, and then the expired replacement: two are live, where the
   architecture says "at most one live one".

The others have a configuration each beside the runs; TLC finds its property violated.

3. **A start given up leaves a dead queued row** (`JobRequests_giveup.cfg`).
   `RequestPath._move` gives a non-final move up after `_STATE_ATTEMPTS` tries; the row
   stays queued with no worker, and deduplication hands its id to every later request,
   which is what the comment in `prompt` says must not happen.
4. **A summary whose refresh raises leaves a running row** (`JobRequests_refresh.cfg`).
   `_summary_job` catches `ConfigRefused` only; an `OSError` escapes to a log line.
5. **A halt while the daemon starts stops nothing** (`JobRequests_halt.cfg`). The server
   is put in the holder after the prunes; a writer that halts before asks an empty holder.
6. **An answer handed on after the shutdown began** (`Summaries_handoff.cfg`). The check
   and the hand-over are two steps; the method that would make them one has no caller.
7. **A waiting row no harvest offers** (`Summaries_waiting.cfg`). A stopped summary of
   Claude leaves a row the harvest leaves out, while its PM is told it will be offered
   again.
8. **A success taken back that the attempt never stamped** (`Harvest_takeback.cfg`). The
   save of a failed result stamps none, but an abandonment after it undoes the last
   stamp, so `doctor` loses an earlier success.
9. **A thread that cannot be marked** (`Harvest_unmarked.cfg`). A deadline that passes
   before the new thread noted its identity marks nothing, and all its steps are accepted.
10. **"Tried again next run", and it is not** (`Transcripts_again.cfg`).
    `record_pending_part` of a later part raises in a run begun after the window ended:
    the run says that the part "could not be claimed" and is tried again
    (`core/transcript_acquisition.py:518-523`), but there is no pending row of it, the
    run's ask is recorded, and `_select_in` (211-216) asks no more.
11. **An action that ran is staged** (`Skills_ran.cfg`). The settling write fails, the
    part is ingested again, the key in flight raises `ReconciliationRequired` and the
    command is staged as a proposal; `skills/registry.py:44` says of such an action that
    it is "never to be retried or staged as one".

Met while modelling, and about no property: an earlier transcript that is listed after a
later one became pending makes `_stored` break off in every run, so the pending one is
not fetched until the earlier one is gone; a commitment line that lacks only its newline
is told as "nothing was written" and counts from the next append on; the text recorded
for an abandoned step says that "nothing after it was saved" (`app/pipelines.py:690`),
while a step already running on the writer when the deadline passed is committed. And, by
design: `_fsync_dir` is "best-effort" (`storage/service.py:691`), so a write whose directory
could not be opened or synced is told as done, and a power failure soon after may bring the
old file back.

## 8. Not modelled

Text (parsing and printing of records, ledgers and markdown), HTTP and OS clients,
encryption and the surfaces are out: their correctness is about data TLC cannot
usefully enumerate. They are most of the code's lines, which is why the definitions map
a small share of it. Every component left out, wholly or in part, is listed in
`PROJECT.json` with its reason.

Within the modelled parts:

* writer and jobs: a rollback *inside* a step whose error the step then swallows; event
  streams of jobs (what a terminal sees, in which order); the render slots; inline
  commands; the start-up permission walk;
* summaries: the spend records of Claude's calls; member updates appended under a
  summary's lease; a title match tried again;
* harvest: coverage windows and their pruning, work rows of GitLab, the merging of
  records, the timers' waits;
* transcripts: captures put in by hand, the Plaud source, several meetings of one link
  beyond the refusal they get;
* proposals and skills: proposals that carry an executor, digests, cards, permissions;
* commitments: owner lines, the index rebuilt from the ledger, listings;
* files: a directory shared by several files (a sync for one is a sync for all; modelled
  as one directory a file, which keeps more of what may be lost), an fsync that reports
  an error and drops what it had to write, the fallback where hard links are missing, modes, directories of the enclave;
  a thread that takes a claim twice, which is refused.

## 9. Plan

Order of the modules, most important behaviour first. Those marked done exist.

| module | models | composes or refines | state |
|---|---|---|---|
| `WriterThread` | the writer | implements `ClaimedSteps` | done, proved |
| `JobRequests` | rows and lives | takes its steps from `WriterThread` | done, proved |
| `Summaries` | the fenced row | | done, proved |
| `Harvest` | attempts, ledgers, position | | done, proved |
| `Proposals` | proposal rows, chains, sweep | | done, proved |
| `Skills` | idempotency keys around a provider | | done, proved |
| `Files` | lock files, publication, power loss | | done, proved |
| `Commitments` | ledger, fold, catch-up | takes approvals from `Proposals` | done, proved |
| `Transcripts` | parts, captures, ingestion | runs as a bounded step of `Harvest` | done, proved |
| `JobStream` | a job's events and the client's stream | extends `JobRequests` | to do: the last event a client sees is the row's final state |
| `Cadence` | the waits as functions, the timers' loop | checked against a reference definition | to do: doubling capped; provider floor kept over a restart |
| `CommitmentIndex` | the index rebuilt from the ledgers, owner lines | a refinement of the fold | to do |

One run per question is the rule: a module joins with one passing run that carries all
its properties, and each property with a mutant.

## 10. Running it

    tlc -workers 2 -config WriterThread.cfg MCWriterThread
    tlapm WriterThreadProofs.tla
    tlapm JobRequestsProofs.tla
    tlapm SummariesProofs.tla
    tlapm HarvestProofs.tla
    tlapm ProposalsProofs.tla
    tlapm SkillsProofs.tla
    tlapm FilesProofs.tla
    tlapm CommitmentsProofs.tla

Each run's module and configuration are listed in `PROJECT.json`.
