------------------------------ MODULE Harvest ------------------------------
(***************************************************************************)
(* The scheduled harvest of one connector instance: its attempts (_harvest,*)
(* harvest_once and record_failed in src/pm_ai/app/pipelines.py, run by    *)
(* HarvestTimers in src/pm_ai/app/ticks.py), the threads its bounded steps *)
(* run on and may be abandoned on, and what StorageService keeps of it: the*)
(* position, the ledger lines, the failure and the attempts that worked.   *)
(*                                                                         *)
(* An attempt asks the provider for what lies past its position, writes the*)
(* meeting records, then the events that cite them, then the position, and *)
(* after that fetches and ingests transcripts.  Each write is a step of the*)
(* writer.  The provider's events are numbered in the order its cursor     *)
(* passes them.                                                            *)
(***************************************************************************)
EXTENDS Naturals

CONSTANTS LastEvent,    \* the provider's events are 1..LastEvent
          Personal,     \* those filed into the personal scope
          MaxAttempts,  \* bound: how many attempts are made
          MaxWrites     \* bound: how many steps an attempt's transcripts take

ASSUME ProviderAssumption == LastEvent \in Nat /\ Personal \subseteq 1..LastEvent
ASSUME BoundsAssumption   == MaxAttempts \in Nat /\ MaxWrites \in Nat

Events   == 1..LastEvent
Attempts == 1..MaxAttempts

VARIABLES
    cursor,                 \* cursors.token
    log,                    \* how many lines of event_log each event has
    seen,                   \* the seen table
    recorded,               \* the events whose meeting has a record
    failure,                \* the attempt harvest_failures holds, or 0
    success, previous,      \* harvest_runs.last_success, .previous_success
    attempt,                \* how many attempts were begun
    stage,                  \* where the one in flight is
    toRecord, toPersist,    \* what it has still to write of its result
    appending,              \* the events whose lines are appended, uncommitted
    next, clean,            \* the result's cursor; it reports no failure
    saved,                  \* it saved its position: _Running.saved, .after_save
    thread,                 \* the thread of each attempt's transcript steps
    abandoned,              \* _Running.abandoned holds that thread
    taken,                  \* how many of its steps the writer has run
    phase,                  \* whether the daemon serves or stops
    dropped,                \* ghost: the events whose record was refused
    torn,                   \* ghost: how often an event's append was not committed
    late                    \* ghost: the threads whose deadline passed

ledger   == <<log, seen, recorded>>
stamps   == <<failure, success, previous>>
result   == <<toRecord, toPersist, appending, next, clean, saved>>
threads  == <<thread, abandoned, taken>>
hghosts   == <<dropped, torn, late>>
hvars     == <<cursor, ledger, stamps, attempt, stage, result, threads, phase,
              hghosts>>

Bounded == {"fetching", "acquiring", "ingesting"}

HTypeOK ==
    /\ cursor \in 0..LastEvent /\ next \in 0..LastEvent
    /\ log \in [Events -> Nat]
    /\ seen \subseteq Events /\ recorded \subseteq Events
    /\ attempt \in 0..MaxAttempts
    /\ failure \in 0..attempt /\ success \in 0..attempt /\ previous \in 0..success
    /\ stage \in Bounded \cup {"idle", "writing", "appended", "busy", "saved", "failing"}
    /\ toRecord \subseteq Events /\ toPersist \subseteq Events /\ appending \subseteq Events
    /\ clean \in BOOLEAN /\ saved \in BOOLEAN
    /\ thread \in [Attempts -> {"none", "begun", "skips", "running", "handed", "executing", "ended"}]
    /\ abandoned \subseteq Attempts
    /\ taken \in [Attempts -> 0..MaxWrites]
    /\ phase \in {"up", "stopping", "closing"}
    /\ dropped \subseteq Events /\ torn \in [Events -> Nat]
    /\ late \subseteq Attempts

HInit ==
    /\ cursor = 0 /\ next = 0
    /\ log = [e \in Events |-> 0] /\ seen = {} /\ recorded = {}
    /\ failure = 0 /\ success = 0 /\ previous = 0
    /\ attempt = 0 /\ stage = "idle"
    /\ toRecord = {} /\ toPersist = {} /\ appending = {} /\ clean = TRUE /\ saved = FALSE
    /\ thread = [n \in Attempts |-> "none"]
    /\ abandoned = {} /\ taken = [n \in Attempts |-> 0]
    /\ phase = "up"
    /\ dropped = {} /\ torn = [e \in Events |-> 0] /\ late = {}

\* The writer is between two steps, and takes this attempt's next one.
WriterFree == stage # "appended" /\ \A n \in Attempts : thread[n] # "executing"
Accepts    == phase = "up" /\ WriterFree

-----------------------------------------------------------------------------
(* An attempt, as far as the save.                                         *)

\* HarvestTimers._attempt: one at a time.
Start ==
    /\ phase = "up" /\ stage = "idle" /\ attempt < MaxAttempts
    /\ attempt' = attempt + 1
    /\ stage' = "fetching"
    /\ UNCHANGED <<cursor, ledger, stamps, result, threads, phase, hghosts>>

\* The attempt is over, and what it held goes with it.
Ends ==
    /\ stage' = "idle"
    /\ toRecord' = {} /\ toPersist' = {} /\ appending' = {}
    /\ next' = 0 /\ clean' = TRUE /\ saved' = FALSE

\* The connector answers: every event its new cursor passes, and perhaps others
\* it had handed over before, or has not passed.
Fetched ==
    /\ stage = "fetching"
    /\ stage' = "writing"
    /\ next' \in cursor..LastEvent
    /\ toPersist' \in {B \in SUBSET Events : (cursor + 1)..next' \subseteq B}
    /\ toRecord' = toPersist'
    /\ clean' \in BOOLEAN
    /\ UNCHANGED <<cursor, ledger, stamps, attempt, appending, saved, threads, phase,
                   hghosts>>

\* It raises, or its deadline passes; or a write raises what nothing classifies.
Fails ==
    /\ stage \in {"fetching", "writing"}
    /\ stage' = "failing"
    /\ UNCHANGED <<cursor, ledger, stamps, attempt, result, threads, phase, hghosts>>

\* A write is refused, the store being busy or the writer stopped: REFUSED or
\* STOPPED, and nothing is recorded against the instance.
Refused ==
    /\ stage \in {"writing", "busy", "failing"} /\ (phase = "up" => WriterFree)
    /\ Ends
    /\ UNCHANGED <<cursor, ledger, stamps, attempt, threads, phase, hghosts>>

\* MeetingRecords.put of one record.
PutsRecord ==
    /\ stage = "writing" /\ Accepts
    /\ \E e \in toRecord :
        /\ recorded' = recorded \cup {e}
        /\ toRecord' = toRecord \ {e}
    /\ UNCHANGED <<cursor, log, seen, stamps, attempt, stage, toPersist, appending, next,
                   clean, saved, threads, phase, hghosts>>

\* A record displaced, or found twice, is refused, and its event with it.
RefusesRecord ==
    /\ stage = "writing" /\ Accepts
    /\ \E e \in toRecord :
        /\ toRecord' = toRecord \ {e}
        /\ toPersist' = toPersist \ {e}
        /\ dropped' = dropped \cup {e}
    /\ UNCHANGED <<cursor, ledger, stamps, attempt, stage, appending, next, clean, saved,
                   threads, phase, torn, late>>

\* meetings/ is claimed by another process.
FindsRecordsBusy ==
    /\ stage = "writing" /\ toRecord # {}
    /\ stage' = "busy"
    /\ UNCHANGED <<cursor, ledger, stamps, attempt, result, threads, phase, hghosts>>

\* _record_busy_meetings: the failure is saved with the position it loaded, and
\* the attempt is REFUSED.
SavesBusy ==
    /\ stage = "busy" /\ Accepts
    /\ failure' = attempt
    /\ Ends
    /\ UNCHANGED <<cursor, ledger, success, previous, attempt, threads, phase, hghosts>>

RecordsDone == toRecord = {}

Fresh(B) == B \ seen

\* persist_events, one scope at a time: the lines of the events not seen yet are
\* appended to the segment in one write.
Appends(B) ==
    /\ stage = "writing" /\ Accepts /\ RecordsDone
    /\ B # {} /\ B \in {toPersist \cap Personal, toPersist \ Personal}
    /\ log' = [e \in Events |-> IF e \in Fresh(B) THEN log[e] + 1 ELSE log[e]]
    /\ appending' = Fresh(B)
    /\ toPersist' = toPersist \ B
    /\ stage' = "appended"
    /\ UNCHANGED <<cursor, seen, recorded, stamps, attempt, toRecord, next, clean, saved,
                   threads, phase, hghosts>>

\* ... and their natural keys committed.
CommitsAppend ==
    /\ stage = "appended"
    /\ seen' = seen \cup appending
    /\ appending' = {}
    /\ stage' = "writing"
    /\ UNCHANGED <<cursor, log, recorded, stamps, attempt, toRecord, toPersist, next, clean,
                   saved, threads, phase, hghosts>>

\* Lines appended whose keys were not committed stay in the segment.
Tears == torn' = [e \in Events |-> IF e \in appending THEN torn[e] + 1 ELSE torn[e]]

\* The commit is refused: busy, or an error nothing classifies.
CommitRefused ==
    /\ stage = "appended"
    /\ Tears
    /\ \/ Ends
       \/ /\ stage' = "failing" /\ appending' = {}
          /\ UNCHANGED <<toRecord, toPersist, next, clean, saved>>
    /\ UNCHANGED <<cursor, ledger, stamps, attempt, threads, phase, dropped, late>>

\* Mutant: the position is saved before the last scope's events are persisted.
SavesEarly ==
    /\ stage = "writing" /\ Accepts /\ toRecord = {}
    /\ cursor' = next
    /\ failure' = IF clean THEN 0 ELSE attempt
    /\ success' = IF clean THEN attempt ELSE success
    /\ previous' = IF clean THEN success ELSE previous
    /\ saved' = TRUE
    /\ stage' = "saved"
    /\ UNCHANGED <<ledger, attempt, toRecord, toPersist, appending, next, clean, threads,
                   phase, hghosts>>

\* save_cursor: the position, the failure or that there is none, and the attempt,
\* in one commit.
Saves ==
    /\ stage = "writing" /\ Accepts /\ toRecord = {} /\ toPersist = {}
    /\ cursor' = next
    /\ failure' = IF clean THEN 0 ELSE attempt
    /\ success' = IF clean THEN attempt ELSE success
    /\ previous' = IF clean THEN success ELSE previous
    /\ saved' = TRUE
    /\ stage' = "saved"
    /\ UNCHANGED <<ledger, attempt, toRecord, toPersist, appending, next, clean, threads,
                   phase, hghosts>>

-----------------------------------------------------------------------------
(* After the save: the transcripts, on threads that may be abandoned.      *)

\* A connector without transcripts is done.
EndsSaved ==
    /\ stage = "saved"
    /\ Ends
    /\ UNCHANGED <<cursor, ledger, stamps, attempt, threads, phase, hghosts>>

\* _bounded: the transcript fetch starts on a thread; after a failed result it
\* asks nothing.
BeginsTranscripts ==
    /\ stage = "saved"
    /\ stage' = "acquiring"
    /\ thread' = [thread EXCEPT ![attempt] = IF clean THEN "begun" ELSE "skips"]
    /\ UNCHANGED <<cursor, ledger, stamps, attempt, result, abandoned, taken, phase,
                   hghosts>>

\* Nothing is left of the attempt's budget: abandoned before it starts.
NoBudget ==
    /\ stage = "saved"
    /\ stage' = "failing"
    /\ UNCHANGED <<cursor, ledger, stamps, attempt, result, threads, phase, hghosts>>

\* The bounded step returned: the fetch's report is ingested, on another thread
\* and under a budget of its own.
StepReturns ==
    /\ stage \in {"acquiring", "ingesting"} /\ thread[attempt] = "ended"
    /\ IF stage = "acquiring" /\ clean
       THEN /\ stage' = "ingesting"
            /\ thread' = [thread EXCEPT ![attempt] = "begun"]
            /\ UNCHANGED result
       ELSE Ends /\ UNCHANGED thread
    /\ UNCHANGED <<cursor, ledger, stamps, attempt, abandoned, taken, phase, hghosts>>

\* Mutant: a step that has not noted its thread is waited for.
DeadlineOnceBegun ==
    /\ stage \in {"acquiring", "ingesting"}
    /\ thread[attempt] \in {"running", "handed", "executing"}
    /\ stage' = "failing"
    /\ late' = late \cup {attempt} /\ abandoned' = abandoned \cup {attempt}
    /\ UNCHANGED <<cursor, ledger, stamps, attempt, result, thread, taken, phase,
                   dropped, torn>>

\* The deadline of the step passed: the thread is abandoned, by the identity it
\* noted down when it began.
Deadline ==
    /\ stage \in {"acquiring", "ingesting"} /\ thread[attempt] # "ended"
    /\ stage' = "failing"
    /\ late' = late \cup {attempt}
    /\ abandoned' = IF thread[attempt] \in {"running", "handed", "executing"}
                    THEN abandoned \cup {attempt} ELSE abandoned
    /\ UNCHANGED <<cursor, ledger, stamps, attempt, result, thread, taken, phase,
                   dropped, torn>>

\* Mutant: the success the save stamped is left as it is.
KeepsTheStamp == UNCHANGED success

\* _write_failure: after the save, the success is put back to the one before.  Only an
\* abandoned step (FetchAbandoned.after_save) and the shutdown fail an attempt after it.
TakesBack == success' = IF saved THEN previous ELSE success

\* record_failed.
RecordsFailure ==
    /\ stage = "failing" /\ Accepts
    /\ failure' = attempt
    /\ TakesBack
    /\ Ends
    /\ UNCHANGED <<cursor, ledger, previous, attempt, threads, phase, hghosts>>

ThreadMoves(n, to) == thread' = [thread EXCEPT ![n] = to]

\* tracked: the thread notes its identity, then runs the step.
ThreadBegins(n) ==
    /\ thread[n] = "begun"
    /\ ThreadMoves(n, "running")
    /\ UNCHANGED <<cursor, ledger, stamps, attempt, stage, result, abandoned, taken,
                   phase, hghosts>>

\* _hand, on the thread: a step of an abandoned thread is refused there.
ThreadHands(n) ==
    /\ thread[n] = "running" /\ n \notin abandoned
    /\ phase = "up" /\ taken[n] < MaxWrites
    /\ ThreadMoves(n, "handed")
    /\ UNCHANGED <<cursor, ledger, stamps, attempt, stage, result, abandoned, taken,
                   phase, hghosts>>

\* Mutant: whether it was abandoned is not asked again on the writer's thread.
RunsUnasked(n) ==
    /\ thread[n] = "handed" /\ WriterFree
    /\ ThreadMoves(n, "executing")
    /\ UNCHANGED <<cursor, ledger, stamps, attempt, stage, result, abandoned, taken,
                   phase, hghosts>>

\* guarded, on the writer's thread: asked again, then the step runs.
StepRuns(n) ==
    /\ thread[n] = "handed" /\ WriterFree
    /\ ThreadMoves(n, IF n \in abandoned THEN "running" ELSE "executing")
    /\ UNCHANGED <<cursor, ledger, stamps, attempt, stage, result, abandoned, taken,
                   phase, hghosts>>

\* The step is committed, or undone.
StepDone(n) ==
    /\ thread[n] = "executing"
    /\ ThreadMoves(n, "running")
    /\ taken' = [taken EXCEPT ![n] = @ + 1]
    /\ UNCHANGED <<cursor, ledger, stamps, attempt, stage, result, abandoned, phase, hghosts>>

ThreadEnds(n) ==
    /\ thread[n] \in {"skips", "running"}
    /\ ThreadMoves(n, "ended")
    /\ UNCHANGED <<cursor, ledger, stamps, attempt, stage, result, abandoned, taken,
                   phase, hghosts>>

-----------------------------------------------------------------------------
(* The stop of the daemon, its end, and its next start.                    *)

StopAccepting ==
    /\ phase = "up"
    /\ phase' = "stopping"
    /\ UNCHANGED <<cursor, ledger, stamps, attempt, stage, result, threads, hghosts>>

\* The shutdown's step, behind every step accepted before it: _mark_unfinished
\* records a harvest that is in a bounded step as failed.
ShutdownMarks ==
    /\ phase = "stopping" /\ WriterFree /\ \A n \in Attempts : thread[n] # "handed"
    /\ phase' = "closing"
    /\ IF stage \in Bounded
       THEN failure' = attempt /\ TakesBack /\ UNCHANGED previous
       ELSE UNCHANGED stamps
    /\ UNCHANGED <<cursor, ledger, attempt, stage, result, threads, hghosts>>

\* The process ends, or is killed at any time, and starts again.
Restarts ==
    /\ phase' = "up"
    /\ Ends /\ Tears
    /\ thread' = [n \in Attempts |-> "none"] /\ taken' = [n \in Attempts |-> 0]
    /\ abandoned' = {} /\ late' = {}
    /\ UNCHANGED <<cursor, ledger, stamps, attempt, dropped>>

-----------------------------------------------------------------------------

Writes ==
    \/ PutsRecord \/ RefusesRecord \/ FindsRecordsBusy \/ SavesBusy
    \/ \E B \in SUBSET toPersist : Appends(B)
    \/ CommitsAppend \/ CommitRefused
    \/ Saves

Transcripts == EndsSaved \/ BeginsTranscripts \/ NoBudget \/ StepReturns \/ Deadline

Goes == Fetched \/ Writes \/ Transcripts \/ Fails \/ Refused \/ RecordsFailure

Thread(n) ==
    ThreadBegins(n) \/ ThreadHands(n) \/ StepRuns(n) \/ StepDone(n) \/ ThreadEnds(n)

HNext ==
    \/ Start \/ Goes
    \/ \E n \in Attempts : Thread(n)
    \/ StopAccepting \/ ShutdownMarks \/ Restarts

HSpec == HInit /\ [][HNext]_hvars

\* A fetch ends by its deadline, a bounded step returns or is abandoned at its
\* own, and the writer runs what it is handed.
Fairness == WF_hvars(Goes) /\ \A n \in Attempts : WF_hvars(StepRuns(n) \/ StepDone(n))

FairSpec == HSpec /\ Fairness

-----------------------------------------------------------------------------
(* Properties.                                                             *)

\* The position never passes an event that is not in the ledger, unless its
\* record was refused by name: whatever was refused, torn or killed in between,
\* no event is skipped for good.
PositionIsBacked == \A e \in 1..cursor : log[e] > 0 \/ e \in dropped

\* A line of the ledger cites a meeting that has a record.
CitesARecord == \A e \in Events : log[e] > 0 => e \in recorded

\* An event handed over again gets no second line, but for one that a refused or
\* killed commit left behind.
OneLinePerEvent == \A e \in Events : log[e] <= 1 + torn[e]

\* What doctor reads of an instance is one story: a recorded failure is later
\* than the last attempt shown to have worked, and the attempt that failed after
\* its save is never shown as both.
NoSuccessOfFailed == failure # 0 => success < failure

\* A thread abandoned at its deadline writes nothing once its attempt is over,
\* however long it runs and wherever its steps were queued -- unless it had not
\* begun at all when the deadline passed.
AbandonedNeverWritesAgain ==
    [][\A n \in Attempts : taken'[n] > taken[n] =>
          \/ n = attempt /\ (stage # "idle" \/ phase # "up")
          \/ n \in late \ abandoned]_hvars

\* Every attempt ends, so the timer goes on to the next instance: no hung fetch,
\* busy store or abandoned thread holds it.
AttemptsEnd == stage # "idle" ~> stage = "idle"

\* _write_failure: a failure "leaves the last success as it was -- or, after_save,
\* puts back the one before this attempt's own save".
OnlyItsOwnSuccessIsTakenBack ==
    [][success' < success => success = attempt]_hvars

\* _bounded: "every claimed step it hands over from then on is refused".
AbandonedIsRefused ==
    [][\A n \in late : thread[n] = "handed" => thread'[n] # "executing"]_hvars
=============================================================================
