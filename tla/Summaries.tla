----------------------------- MODULE Summaries -----------------------------
(***************************************************************************)
(* The summary of one meeting: its meeting_summaries row and the version   *)
(* and lease that fence it (StorageService.offer_summary, request_summary, *)
(* take_summary_lease, settle_summary, ...), the jobs that make it, stage  *)
(* by stage (summary_steps, _written, _settled in src/pm_ai/app/           *)
(* pipelines.py), and where those stages run (SummaryJobs, ModelPool).     *)
(*                                                                         *)
(* A harvest starts automatic jobs of the local model; the PM may ask for a*)
(* summary at any time, of the local model or of Claude.  Rows of different*)
(* meetings do not meet, so one is modelled.                               *)
(***************************************************************************)
EXTENDS Naturals, FiniteSets

CONSTANTS Jobs,         \* the summary jobs' names, each used once
          NoJob,
          MaxTimeouts,  \* meeting_summaries.MAX_TIMEOUTS
          MaxMoves      \* bound: how often ingestion or a dropped region moves
                        \* the row

ASSUME JobsAssumption == NoJob \notin Jobs
ASSUME BoundsAssumption == MaxTimeouts \in Nat \ {0} /\ MaxMoves \in Nat

VARIABLES
    state, version, holder,       \* meeting_summaries.state, .version, .job
    requested, madeBy, timeouts,  \* .requested, .made_by, .attempts
    record,    \* the job whose summary the meeting record holds
    decided,   \* the jobs whose decision events are persisted
    items,     \* the job whose action items are the ones staged
    stage,     \* where each job is
    maker,     \* who makes its summary
    fence,     \* the version it read, then the one its lease is at
    result,    \* how its call ended
    dropped,   \* a put dropped the record's summary and the row is still to be reset
    inFlight,  \* SummaryJobs._in_flight of the meeting
    told,      \* what on_done was told, of a requested job
    stopping,  \* ModelPool.stopping
    accepting, \* the writer takes ordinary steps
    wish,      \* ghost: the maker the PM last asked for
    revoked,   \* ghost: the jobs already running when the row was moved
    moves      \* ghost: how often ingestion moved the row

row     == <<state, version, holder, requested, madeBy, timeouts>>
outputs == <<record, decided, items, dropped>>
jobs    == <<stage, maker, fence, result, inFlight, told>>
pools   == <<stopping, accepting>>
ghosts  == <<wish, revoked, moves>>
vars    == <<row, outputs, jobs, pools, ghosts>>

Makers == {"local", "frontier"}

\* The stages of a job, in order; the writes run on an I/O worker.
Writing == {"leasing", "recording", "deciding", "staging", "settling"}
Stages  == {"new", "asked", "begun", "queued", "calling", "called", "cleared", "matching",
            "matched", "done"} \cup Writing

\* A job that has read the row and may still write.
Live == {j \in Jobs : stage[j] \notin {"new", "done"}}

TypeOK ==
    /\ state \in {"absent", "waiting", "summarized", "failed", "nothing said"}
    /\ version \in Nat
    /\ holder \in Jobs \cup {NoJob}
    /\ requested \in BOOLEAN /\ madeBy \in Makers
    /\ timeouts \in 0..MaxTimeouts
    /\ timeouts = MaxTimeouts => state = "failed"
    /\ record \in Jobs \cup {NoJob} /\ items \in Jobs \cup {NoJob}
    /\ decided \subseteq Jobs /\ dropped \in BOOLEAN
    /\ stage \in [Jobs -> Stages]
    /\ maker \in [Jobs -> Makers]
    /\ fence \in [Jobs -> Nat]
    /\ result \in [Jobs -> {"none", "answer", "unavailable", "timeout", "refused"}]
    /\ inFlight \in Jobs \cup {NoJob}
    /\ told \in [Jobs -> {"not asked", "waits", "ended", "stopped", "lost"}]
    /\ stopping \in BOOLEAN /\ accepting \in BOOLEAN
    /\ wish \in Makers \cup {"none"} /\ revoked \subseteq Jobs
    /\ moves \in 0..MaxMoves

Init ==
    /\ state = "absent" /\ version = 0 /\ holder = NoJob
    /\ requested = FALSE /\ madeBy = "local" /\ timeouts = 0
    /\ record = NoJob /\ decided = {} /\ items = NoJob
    /\ dropped = FALSE
    /\ stage = [j \in Jobs |-> "new"]
    /\ maker = [j \in Jobs |-> "local"]
    /\ fence = [j \in Jobs |-> 0]
    /\ result = [j \in Jobs |-> "none"]
    /\ inFlight = NoJob
    /\ told = [j \in Jobs |-> "not asked"]
    /\ stopping = FALSE /\ accepting = TRUE
    /\ wish = "none" /\ revoked = {} /\ moves = 0

-----------------------------------------------------------------------------
(* The row, moved by the ingestion of a transcript and by the PM.          *)

\* The row at a new version, its lease released.
Moves(to) ==
    /\ state' = to
    /\ version' = version + 1
    /\ holder' = NoJob

Revokes == revoked' = revoked \cup Live

\* offer_summary: a new row, or an automatic one offered again since a later
\* part of the transcript was ingested.
Offer ==
    /\ accepting /\ moves < MaxMoves
    /\ state # "absent" => ~requested
    /\ Moves("waiting")
    /\ timeouts' = 0
    /\ Revokes
    /\ moves' = moves + 1
    /\ UNCHANGED <<requested, madeBy, outputs, jobs, pools, wish>>

\* put dropped a ## Summary region that was not in its grammar.
RegionDropped ==
    /\ accepting /\ record # NoJob
    /\ record' = NoJob /\ dropped' = TRUE
    /\ UNCHANGED <<row, decided, items, jobs, pools, ghosts>>

\* Mutant: whoever asked for the summary, it is made again automatically.
ResetForgetsTheAsker ==
    /\ accepting /\ dropped /\ moves < MaxMoves
    /\ Moves("waiting")
    /\ requested' = FALSE /\ madeBy' = "local" /\ timeouts' = 0
    /\ dropped' = FALSE
    /\ Revokes
    /\ moves' = moves + 1
    /\ UNCHANGED <<record, decided, items, jobs, pools, wish>>

AskedOfClaude == requested /\ madeBy = "frontier"

\* reset_summary, once put dropped the region: made again automatically, but
\* for a summary asked of Claude, which fails and stays asked for.
Reset ==
    /\ accepting /\ dropped /\ moves < MaxMoves
    /\ Moves(IF AskedOfClaude THEN "failed" ELSE "waiting")
    /\ requested' = AskedOfClaude
    /\ madeBy' = (IF AskedOfClaude THEN "frontier" ELSE "local")
    /\ timeouts' = 0
    /\ dropped' = FALSE
    /\ Revokes
    /\ moves' = moves + 1
    /\ UNCHANGED <<record, decided, items, jobs, pools, wish>>

\* request_summary: the row is moved first, in a transaction of its own.
Request(j, by) ==
    /\ accepting /\ stage[j] = "new" /\ state # "absent"
    /\ Moves("waiting")
    /\ requested' = TRUE /\ madeBy' = by /\ timeouts' = 0
    /\ stage' = [stage EXCEPT ![j] = "asked"]
    /\ maker' = [maker EXCEPT ![j] = by]
    /\ fence' = [fence EXCEPT ![j] = version + 1]
    /\ told' = [told EXCEPT ![j] = "waits"]
    /\ wish' = by /\ Revokes
    /\ UNCHANGED <<outputs, result, inFlight, pools, moves>>

-----------------------------------------------------------------------------
(* The stages of a job.                                                    *)

\* SummaryJobs.start, of a request: the meeting's mark is its, whatever job is in
\* flight and however the row was moved since.
Starts(j) ==
    /\ stage[j] = "asked"
    /\ stage' = [stage EXCEPT ![j] = "begun"]
    /\ inFlight' = j
    /\ UNCHANGED <<row, outputs, maker, fence, result, told, pools, ghosts>>

\* summaries_to_offer: never a request for Claude.
Offerable == state = "waiting" /\ ~AskedOfClaude

\* A harvest offers the row: offer_summaries, SummaryJobs.start.
OfferedAt(j) ==
    /\ stage[j] = "new" /\ Offerable /\ inFlight = NoJob
    /\ stage' = [stage EXCEPT ![j] = "begun"]
    /\ fence' = [fence EXCEPT ![j] = version]
    /\ inFlight' = j
    /\ UNCHANGED <<row, outputs, maker, result, told, pools, ghosts>>

\* The job's own values go with it.
Forgets(j) ==
    /\ stage' = [stage EXCEPT ![j] = "done"]
    /\ fence' = [fence EXCEPT ![j] = 0]
    /\ result' = [result EXCEPT ![j] = "none"]

\* Mutant: the meeting's mark is cleared only by a job that ran to its end.
EndsMarked(j, word) ==
    /\ Forgets(j)
    /\ inFlight' = IF inFlight = j /\ word = "ended" THEN NoJob ELSE inFlight
    /\ told' = [told EXCEPT ![j] = IF @ = "waits" THEN word ELSE @]

\* SummaryJobs' done: the meeting is free again, if it is still this job's, and
\* whoever asked is told.
Ends(j, word) ==
    /\ Forgets(j)
    /\ inFlight' = IF inFlight = j THEN NoJob ELSE inFlight
    /\ told' = [told EXCEPT ![j] = IF @ = "waits" THEN word ELSE @]

Asked(j) == told[j] # "not asked"

\* The first stage: an automatic job stops unless the row is still the one it
\* was offered, then the call is handed to the model pool.
Begins(j) ==
    /\ stage[j] = "begun"
    /\ IF (Asked(j) \/ (state = "waiting" /\ version = fence[j])) /\ ~stopping
       THEN stage' = [stage EXCEPT ![j] = "queued"] /\ UNCHANGED <<fence, result, inFlight, told>>
       ELSE Ends(j, "stopped")
    /\ UNCHANGED <<row, outputs, maker, pools, ghosts>>

\* _summary_fenced: the row is where the job read it, then under its lease.
AtFence(j) == version = fence[j] /\ (stage[j] \in {"begun", "leasing"} \/ holder = j)

\* The row's final state for a job that wrote no summary: settle_summary.
SettlesAs(j, to) ==
    /\ Moves(to)
    /\ timeouts' = IF to = "nothing said" THEN 0 ELSE timeouts
    /\ UNCHANGED <<requested, madeBy>>

\* _prepare found nothing to summarise, or refused: settled with no call.
SettlesUnasked(j) ==
    /\ stage[j] = "begun" /\ accepting /\ version = fence[j]
    /\ Asked(j) \/ state = "waiting"
    /\ \E to \in {"nothing said", "failed"} : SettlesAs(j, to)
    /\ Ends(j, "ended")
    /\ UNCHANGED <<outputs, maker, pools, ghosts>>

\* The one thread of the model's pool, or of Claude's, takes the call.
Calls(j) ==
    /\ stage[j] = "queued" /\ ~stopping
    /\ \A o \in Jobs : stage[o] \in {"calling", "called", "cleared"} =>
                          maker[o] # maker[j]
    /\ stage' = [stage EXCEPT ![j] = "calling"]
    /\ UNCHANGED <<row, outputs, maker, fence, result, inFlight, told, pools, ghosts>>

\* The call, and its one retry, ended; Claude's is made once and never waits.
CallEnds(j) ==
    /\ stage[j] = "calling"
    /\ stage' = [stage EXCEPT ![j] = "called"]
    /\ \E r \in {"answer", "refused"}
              \cup (IF maker[j] = "local" THEN {"unavailable", "timeout"} ELSE {}) :
           result' = [result EXCEPT ![j] = r]
    /\ UNCHANGED <<row, outputs, maker, fence, inFlight, told, pools, ghosts>>

\* _drive, before the hop back to the I/O pool: a pool's shutdown that has begun
\* ends the job.
LooksAtTheStop(j) ==
    /\ stage[j] = "called"
    /\ IF stopping
       THEN Ends(j, "stopped")
       ELSE stage' = [stage EXCEPT ![j] = "cleared"] /\ UNCHANGED <<fence, result, inFlight, told>>
    /\ UNCHANGED <<row, outputs, maker, pools, ghosts>>

\* ... and the hop itself: the answer is handed on to an I/O worker.
HandsOn(j) ==
    /\ stage[j] = "cleared"
    /\ stage' = [stage EXCEPT ![j] = "leasing"]
    /\ UNCHANGED <<row, outputs, maker, fence, result, inFlight, told, pools, ghosts>>

\* Mutant: a row is offered again after the last timeout it may have.
TimesOutOnceMore(j) ==
    /\ stage[j] = "leasing" /\ accepting /\ AtFence(j) /\ result[j] = "timeout"
    /\ Moves(IF timeouts + 1 > MaxTimeouts THEN "failed" ELSE "waiting")
    /\ timeouts' = timeouts + 1
    /\ Ends(j, "ended")
    /\ UNCHANGED <<requested, madeBy, outputs, maker, pools, ghosts>>

\* record_summary_timeout.
TimesOut(j) ==
    /\ stage[j] = "leasing" /\ accepting /\ AtFence(j) /\ result[j] = "timeout"
    /\ Moves(IF timeouts + 1 >= MaxTimeouts THEN "failed" ELSE "waiting")
    /\ timeouts' = timeouts + 1
    /\ Ends(j, "ended")
    /\ UNCHANGED <<requested, madeBy, outputs, maker, pools, ghosts>>

\* No model to ask: the row waits; an answer refused, or none that fits: it fails.
SettlesWithout(j) ==
    /\ stage[j] = "leasing" /\ accepting /\ AtFence(j)
    /\ result[j] \in {"unavailable", "refused"}
    /\ SettlesAs(j, IF result[j] = "unavailable" THEN "waiting" ELSE "failed")
    /\ Ends(j, "ended")
    /\ UNCHANGED <<outputs, maker, pools, ghosts>>

\* take_summary_lease: compare-and-set from the version the job read.
TakesLease(j) ==
    /\ stage[j] = "leasing" /\ accepting /\ AtFence(j) /\ result[j] = "answer"
    /\ version' = version + 1 /\ holder' = j
    /\ fence' = [fence EXCEPT ![j] = version + 1]
    /\ stage' = [stage EXCEPT ![j] = "recording"]
    /\ UNCHANGED <<state, requested, madeBy, timeouts, outputs, maker, result,
                   inFlight, told, pools, ghosts>>

\* Mutant: the lease is not checked inside the record's own step.
PutsUnchecked(j) ==
    /\ stage[j] = "recording" /\ accepting
    /\ record' = j
    /\ stage' = [stage EXCEPT ![j] = "deciding"]
    /\ UNCHANGED <<row, decided, items, dropped, maker, fence, result, inFlight, told,
                   pools, ghosts>>

\* MeetingRecords.put_summary, the lease checked inside its step.
PutsSummary(j) ==
    /\ stage[j] = "recording" /\ accepting /\ AtFence(j)
    /\ record' = j
    /\ stage' = [stage EXCEPT ![j] = "deciding"]
    /\ UNCHANGED <<row, decided, items, dropped, maker, fence, result, inFlight, told,
                   pools, ghosts>>

\* persist_decisions.
PersistsDecisions(j) ==
    /\ stage[j] = "deciding" /\ accepting /\ AtFence(j)
    /\ decided' = decided \cup {j}
    /\ stage' = [stage EXCEPT ![j] = "staging"]
    /\ UNCHANGED <<row, record, items, dropped, maker, fence, result, inFlight, told,
                   pools, ghosts>>

\* stage_summary_items: and whoever asked is told how it ended.
StagesItems(j) ==
    /\ stage[j] = "staging" /\ accepting /\ AtFence(j)
    /\ items' = j
    /\ \E next \in {"matching", "settling"} : stage' = [stage EXCEPT ![j] = next]
    /\ told' = [told EXCEPT ![j] = IF @ = "waits" THEN "ended" ELSE @]
    /\ UNCHANGED <<row, record, decided, dropped, maker, fence, result, inFlight, pools, ghosts>>

\* _member_updates_after: the title match on the model pool, when it is asked.
Matches(j) ==
    /\ stage[j] = "matching" /\ ~stopping
    /\ stage' = [stage EXCEPT ![j] = "matched"]
    /\ UNCHANGED <<row, outputs, maker, fence, result, inFlight, told, pools, ghosts>>

AfterMatch(j) ==
    /\ stage[j] = "matched"
    /\ IF stopping
       THEN Ends(j, "stopped")
       ELSE stage' = [stage EXCEPT ![j] = "settling"] /\ UNCHANGED <<fence, result, inFlight, told>>
    /\ UNCHANGED <<row, outputs, maker, pools, ghosts>>

\* Mutant: the settle trusts the lease the job took.
SettlesUnchecked(j) ==
    /\ stage[j] = "settling" /\ accepting
    /\ Moves("summarized")
    /\ timeouts' = 0
    /\ Ends(j, "ended")
    /\ UNCHANGED <<requested, madeBy, outputs, maker, pools, ghosts>>

\* _settled: the row is summarized, under the lease.
Settles(j) ==
    /\ stage[j] = "settling" /\ accepting /\ AtFence(j)
    /\ Moves("summarized")
    /\ timeouts' = 0
    /\ madeBy' = (IF maker[j] = "frontier" THEN "frontier" ELSE madeBy)
    /\ Ends(j, "ended")
    /\ UNCHANGED <<requested, outputs, maker, pools, ghosts>>

\* SummaryLeaseLost: the job stops, nothing further written.
LosesLease(j) ==
    /\ stage[j] \in Writing \cup {"matched"} /\ accepting /\ ~AtFence(j)
    /\ Ends(j, "ended")
    /\ UNCHANGED <<row, outputs, maker, pools, ghosts>>

\* The store or a claim is busy, the writer refuses the step, or the I/O pool
\* takes no more work: the row is left as it was.
LeavesRow(j) ==
    /\ stage[j] \in Writing \cup {"begun", "cleared", "matched"}
    /\ Ends(j, "stopped")
    /\ UNCHANGED <<row, outputs, maker, pools, ghosts>>

\* _failed_unexpectedly: the row fails if it is still the job's.
BreaksUnexpectedly(j) ==
    /\ stage[j] \in Writing /\ accepting
    /\ stage[j] = "leasing" => result[j] = "answer"
    /\ IF holder = j \/ AtFence(j) THEN SettlesAs(j, "failed") ELSE UNCHANGED row
    /\ Ends(j, "ended")
    /\ UNCHANGED <<outputs, maker, pools, ghosts>>

-----------------------------------------------------------------------------
(* The stop of the daemon, its end, and its next start.                    *)

\* ModelPool.shutdown: calls queued never start, one running loses its answer.
ModelPoolStops ==
    /\ ~stopping
    /\ stopping' = TRUE
    /\ UNCHANGED <<row, outputs, jobs, accepting, ghosts>>

StopAccepting ==
    /\ stopping /\ accepting
    /\ accepting' = FALSE
    /\ UNCHANGED <<row, outputs, jobs, stopping, ghosts>>

\* The daemon ended, by a stop or a crash, and starts again: its jobs are gone.
Restarts ==
    /\ stage' = [j \in Jobs |-> IF stage[j] = "new" THEN "new" ELSE "done"]
    /\ told' = [j \in Jobs |-> IF told[j] = "waits" THEN "lost" ELSE told[j]]
    /\ fence' = [j \in Jobs |-> 0]
    /\ result' = [j \in Jobs |-> "none"]
    /\ inFlight' = NoJob /\ dropped' = FALSE
    /\ stopping' = FALSE /\ accepting' = TRUE
    /\ revoked' = {}
    /\ UNCHANGED <<row, record, decided, items, maker, wish, moves>>

-----------------------------------------------------------------------------

Calling(j) ==
    Starts(j) \/ Begins(j) \/ Calls(j) \/ CallEnds(j) \/ LooksAtTheStop(j) \/ HandsOn(j)

NoSummary(j) == SettlesUnasked(j) \/ TimesOut(j) \/ SettlesWithout(j)

Writes(j) ==
    \/ TakesLease(j) \/ PutsSummary(j) \/ PersistsDecisions(j) \/ StagesItems(j)
    \/ Matches(j) \/ AfterMatch(j)
    \/ Settles(j)

GivesUp(j) == LosesLease(j) \/ LeavesRow(j) \/ BreaksUnexpectedly(j)

Job(j) == Calling(j) \/ NoSummary(j) \/ Writes(j) \/ GivesUp(j)

Next ==
    \/ Offer \/ RegionDropped \/ Reset
    \/ \E j \in Jobs :
        \/ \E by \in Makers : Request(j, by)
        \/ OfferedAt(j)
        \/ Job(j)
    \/ ModelPoolStops \/ StopAccepting \/ Restarts

Spec == Init /\ [][Next]_vars

\* The pools' threads run what they are handed, and a call ends at its deadline.
Fairness == \A j \in Jobs : WF_vars(Job(j))

FairSpec == Spec /\ Fairness

-----------------------------------------------------------------------------
(* Properties.                                                             *)

\* A row says "summarized" only of a summary that is whole: the record, the
\* decision events and the staged items are one job's -- never the record of one
\* and the items of another, however jobs overlapped, stopped or crashed.
SummarizedIsWhole ==
    state = "summarized" =>
        \E j \in Jobs : items = j /\ j \in decided /\ record \in {j, NoJob}

\* A job running when the PM asked again, or when the row was offered or reset
\* again, writes nothing more: not the record, the decisions or the items, and it
\* takes no lease.
RevokedNeverWrites ==
    [][\A j \in revoked :
          /\ record' = j => record = j
          /\ items' = j => items = j
          /\ holder' = j => holder = j
          /\ j \in decided' => j \in decided]_vars

\* What the PM last asked Claude for is never overwritten by the local model,
\* until the PM asks for that: not after a timeout, a reset or a restart.
ClaudeIsNotReplacedUnasked ==
    [][(wish = "frontier" /\ record' # record /\ record' # NoJob)
          => maker[record'] = "frontier"]_vars

\* However a job ends, its meeting is free for the next harvest to offer, unless
\* the daemon is stopping.
MeetingIsFreed == \A j \in Jobs : inFlight = j ~> (inFlight # j \/ stopping)

\* SummaryJobs: "model_stopping says the model pool's shutdown has begun, after
\* which no answer is handed on".
NoAnswerHandedOnLate ==
    [][stopping => \A j \in Jobs : stage'[j] = "leasing" => stage[j] = "leasing"]_vars

\* summary_closing, to the PM whose summary stopped: "its row was left as it was,
\* and a waiting row is offered again at a later harvest".
WaitingRowIsOffered ==
    (state = "waiting" /\ Live = {} /\ \E j \in Jobs : told[j] = "stopped")
        => Offerable
=============================================================================
