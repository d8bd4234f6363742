---------------------------- MODULE JobRequests ----------------------------
(***************************************************************************)
(* The jobs the daemon acknowledged: the requests table, the request path  *)
(* that records them, the workers that run them, and the passes that settle*)
(* what a stop or a crash left (src/pm_ai/app/prompts.py RequestPath,      *)
(* src/pm_ai/app/daemon.py _serve_locked, StorageService's requests).      *)
(*                                                                         *)
(* Each step of the writer is one action here: WriterThread is the model of*)
(* how it runs, and its theorems are what this module takes from it -- a   *)
(* step is applied whole or not at all, a withdrawn one never runs, and the*)
(* shutdown's own step runs after every ordinary step accepted before it.  *)
(***************************************************************************)
EXTENDS Naturals, FiniteSets

CONSTANTS Jobs,           \* the job ids requests mint
          Keys,           \* a command and its scope: requests.kind, .scope
          Deduplicated,   \* the keys of prompts.DEDUPLICATED
          Summaries,      \* the keys of `transcript summarize`
          StateAttempts,  \* prompts._STATE_ATTEMPTS
          MaxLives,       \* bound: how many times the daemon starts
          NoKey

ASSUME KeysAssumption == Deduplicated \subseteq Keys /\ Summaries \subseteq Keys
                           /\ NoKey \notin Keys
ASSUME JobsAssumption == Jobs \cap {"none", "creating", "recorded", "busy", "lost"} = {}
ASSUME AttemptsAssumption == StateAttempts \in Nat \ {0} /\ MaxLives \in Nat

VARIABLES
    row,      \* requests.state; it outlives the process
    key,      \* requests.kind and .scope
    phase,    \* where the daemon's life is
    lives,    \* how many it has had
    halted,   \* WriterThread.halted is not None
    asked,    \* server.should_exit, set by the halt
    marked,   \* the last stop's shutdown pass marked the unfinished rows
    reply,    \* where the request stands, and the job id a 202 named
    handed,   \* the jobs with a step queued on the writer
    worker,   \* the worker of each job
    attempts, \* how often its start step was handed over
    outcome   \* _PendingSummary: the summary's half

rows    == <<row, key>>
daemon  == <<phase, lives, halted, asked, marked>>
workers == <<worker, attempts, outcome>>
vars    == <<rows, daemon, reply, handed, workers>>

Unfinished == {"queued", "running"}
Finished   == {"done", "failed"}
Waiting    == {"creating", "recorded"}

TypeOK ==
    /\ row \in [Jobs -> Unfinished \cup Finished \cup {"absent", "pruned"}]
    /\ key \in [Jobs -> Keys \cup {NoKey}]
    /\ phase \in {"down", "starting", "pruning", "serving", "stopping",
                  "loop ended", "draining", "closing"}
    /\ lives \in 0..MaxLives
    /\ halted \in BOOLEAN /\ asked \in BOOLEAN /\ marked \in BOOLEAN
    /\ reply \in [Jobs -> Jobs \cup Waiting \cup {"none", "busy", "lost"}]
    /\ handed \subseteq Jobs
    /\ worker \in [Jobs -> {"none", "pooled", "starting", "command", "awaiting",
                            "ending done", "ending failed", "gone"}]
    /\ attempts \in [Jobs -> 0..StateAttempts]
    /\ outcome \in [Jobs -> {"none", "pending", "arrived"}]

Init ==
    /\ row = [j \in Jobs |-> "absent"]
    /\ key = [j \in Jobs |-> NoKey]
    /\ phase = "down" /\ lives = 0
    /\ halted = FALSE /\ asked = FALSE /\ marked = FALSE
    /\ reply = [j \in Jobs |-> "none"]
    /\ handed = {}
    /\ worker = [j \in Jobs |-> "none"]
    /\ attempts = [j \in Jobs |-> 0]
    /\ outcome = [j \in Jobs |-> "none"]

\* WriterThread._refuse, for an ordinary step.
Accepts == ~halted /\ phase \in {"serving", "stopping", "loop ended"}

LoopRuns == phase \in {"serving", "stopping"}

-----------------------------------------------------------------------------
(* A request: POST /v1/prompt of a line that becomes a job.                *)

\* prompt, as far as the create step handed to the writer; refused, it is 503.
Request(j, k) ==
    /\ LoopRuns /\ reply[j] = "none"
    /\ key' = [key EXCEPT ![j] = k]
    /\ IF Accepts
       THEN /\ handed' = handed \cup {j}
            /\ reply' = [reply EXCEPT ![j] = "creating"]
       ELSE /\ reply' = [reply EXCEPT ![j] = "busy"]
            /\ UNCHANGED handed
    /\ UNCHANGED <<row, daemon, workers>>

\* Mutant: only a running row is looked for.
DuplicatesRunning(j) ==
    IF key[j] \in Deduplicated
    THEN {i \in Jobs : key[i] = key[j] /\ row[i] = "running"} ELSE {}

Duplicates(j) ==
    IF key[j] \in Deduplicated
    THEN {i \in Jobs : key[i] = key[j] /\ row[i] \in Unfinished} ELSE {}

CreatesRow(j) == j \in handed /\ worker[j] = "none" /\ ~halted

\* create_request: the row is written, or the unfinished one it duplicates found.
Record(j) ==
    /\ CreatesRow(j) /\ Duplicates(j) = {}
    /\ handed' = handed \ {j}
    /\ row' = [row EXCEPT ![j] = "queued"]
    /\ reply' = [reply EXCEPT ![j] = IF @ = "creating" THEN "recorded" ELSE @]
    /\ UNCHANGED <<key, daemon, workers>>

FindDuplicate(j) ==
    /\ CreatesRow(j)
    /\ handed' = handed \ {j}
    /\ \E i \in Duplicates(j) :
           reply' = [reply EXCEPT ![j] = IF @ = "creating" THEN i ELSE @]
    /\ UNCHANGED <<rows, daemon, workers>>

\* The store was busy, the step withdrawn unstarted, or the writer halted: 503.
RecordRefused(j) ==
    /\ j \in handed /\ worker[j] = "none"
    /\ handed' = handed \ {j}
    /\ reply' = [reply EXCEPT ![j] = IF @ = "creating" THEN "busy" ELSE @]
    /\ UNCHANGED <<rows, daemon, workers>>

\* _record_and_start, resumed on the loop: the job is pooled and the 202 sent.
Submit(j) ==
    /\ LoopRuns /\ reply[j] = "recorded"
    /\ worker' = [worker EXCEPT ![j] = "pooled"]
    /\ reply' = [reply EXCEPT ![j] = j]
    /\ UNCHANGED <<rows, daemon, handed, attempts, outcome>>

-----------------------------------------------------------------------------
(* A worker: _run_job.                                                     *)

Leaves(j) == worker' = [worker EXCEPT ![j] = "gone"]

Moving == {"starting", "ending done", "ending failed"}

\* The pool takes the job, and its move to running is next.
TakeJob(j) ==
    /\ worker[j] = "pooled"
    /\ worker' = [worker EXCEPT ![j] = "starting"]
    /\ UNCHANGED <<rows, daemon, reply, handed, attempts, outcome>>

\* _move hands its conditional move over; a writer that refuses it ends the job.
HandMove(j) ==
    /\ worker[j] \in Moving /\ j \notin handed
    /\ IF Accepts
       THEN handed' = handed \cup {j} /\ UNCHANGED worker
       ELSE Leaves(j) /\ UNCHANGED handed
    /\ UNCHANGED <<rows, daemon, reply, attempts, outcome>>

\* Mutant: a halted writer leaves the steps of its queue unanswered.
MoveUnanswered(j) ==
    /\ halted /\ j \in handed /\ worker[j] # "none"
    /\ UNCHANGED vars

\* The writer halted with the step in its queue: WriterStopped.
MoveRefused(j) ==
    /\ halted /\ j \in handed /\ worker[j] # "none"
    /\ handed' = handed \ {j}
    /\ Leaves(j)
    /\ UNCHANGED <<rows, daemon, reply, attempts, outcome>>

\* The move from queued to running, unless another step got there first.
Starts(j) ==
    /\ j \in handed /\ worker[j] = "starting" /\ ~halted
    /\ handed' = handed \ {j}
    /\ IF row[j] = "queued"
       THEN /\ row' = [row EXCEPT ![j] = "running"]
            /\ worker' = [worker EXCEPT ![j] = "command"]
       ELSE Leaves(j) /\ UNCHANGED row
    /\ UNCHANGED <<key, daemon, reply, attempts, outcome>>

\* The store stayed busy; after StateAttempts tries the start is given up.
StartBusy(j) ==
    /\ j \in handed /\ worker[j] = "starting" /\ ~halted
    /\ handed' = handed \ {j}
    /\ attempts' = [attempts EXCEPT ![j] = @ + 1]
    /\ IF attempts'[j] >= StateAttempts THEN Leaves(j) ELSE UNCHANGED worker
    /\ UNCHANGED <<rows, daemon, reply, outcome>>

IsSummary(j) == key[j] \in Summaries

\* The command returned its output, or raised.
CommandEnds(j) ==
    /\ worker[j] = "command" /\ ~IsSummary(j)
    /\ \E to \in {"ending done", "ending failed"} :
           worker' = [worker EXCEPT ![j] = to]
    /\ UNCHANGED <<rows, daemon, reply, handed, attempts, outcome>>

\* A step of the command was refused, the writer stopping: the row is left to
\* the passes.
CommandStopped(j) ==
    /\ worker[j] = "command" /\ ~IsSummary(j) /\ ~Accepts
    /\ Leaves(j)
    /\ UNCHANGED <<rows, daemon, reply, handed, attempts, outcome>>

\* _summary_job: the daemon could not be read afresh, and not by ConfigRefused.
RefreshRaises(j) ==
    /\ worker[j] = "command" /\ IsSummary(j) /\ outcome[j] = "none"
    /\ Leaves(j)
    /\ UNCHANGED <<rows, daemon, reply, handed, attempts, outcome>>

\* request_summary started the summary's own stages.
SummaryStarts(j) ==
    /\ worker[j] = "command" /\ IsSummary(j) /\ outcome[j] = "none"
    /\ outcome' = [outcome EXCEPT ![j] = "pending"]
    /\ UNCHANGED <<rows, daemon, reply, handed, worker, attempts>>

\* _PendingSummary.returned: settled here unless a summary is still to come.
SummaryReturns(j) ==
    /\ worker[j] = "command" /\ IsSummary(j)
    /\ worker' = [worker EXCEPT ![j] = IF outcome[j] = "pending"
                                       THEN "awaiting" ELSE "ending done"]
    /\ UNCHANGED <<rows, daemon, reply, handed, attempts, outcome>>

\* Mutant: a row whose command returned first is not settled by the outcome.
ArrivesAlone(j) ==
    /\ outcome[j] = "pending"
    /\ outcome' = [outcome EXCEPT ![j] = "arrived"]
    /\ UNCHANGED <<rows, daemon, reply, handed, worker, attempts>>

\* _PendingSummary.finished, on another thread: settled here if the command has
\* returned.
SummaryArrives(j) ==
    /\ outcome[j] = "pending"
    /\ outcome' = [outcome EXCEPT ![j] = "arrived"]
    /\ worker' = [worker EXCEPT ![j] = IF @ = "awaiting" THEN "ending done" ELSE @]
    /\ UNCHANGED <<rows, daemon, reply, handed, attempts>>

EndsAs(j) == IF worker[j] = "ending done" THEN "done" ELSE "failed"

\* The final move, from running.
Settles(j) ==
    /\ j \in handed /\ worker[j] \in {"ending done", "ending failed"} /\ ~halted
    /\ handed' = handed \ {j}
    /\ row' = [row EXCEPT ![j] = IF @ = "running" THEN EndsAs(j) ELSE @]
    /\ Leaves(j)
    /\ UNCHANGED <<key, daemon, reply, attempts, outcome>>

\* The final move found the store busy: it is handed over again, for as long as
\* the writer is open.
SettleBusy(j) ==
    /\ j \in handed /\ worker[j] \in {"ending done", "ending failed"} /\ ~halted
    /\ handed' = handed \ {j}
    /\ UNCHANGED <<rows, daemon, reply, workers>>

-----------------------------------------------------------------------------
(* A life of the daemon: start, stop, halt, crash.                         *)

\* take_lifetime_lock: one daemon at a time.
Start ==
    /\ phase = "down" /\ lives < MaxLives
    /\ phase' = "starting" /\ lives' = lives + 1
    /\ halted' = FALSE /\ asked' = FALSE /\ marked' = FALSE
    /\ UNCHANGED <<rows, reply, handed, workers>>

\* fail_unfinished_requests.
FailUnfinished ==
    [j \in Jobs |-> IF row[j] \in Unfinished THEN "failed" ELSE row[j]]

\* Mutant: the daemon serves whether or not the pass ran.
PassSkipped ==
    /\ phase = "starting"
    /\ phase' = "pruning"
    /\ UNCHANGED <<rows, lives, halted, asked, marked, reply, handed, workers>>

\* restart_pass, before anything is served.
RestartPass ==
    /\ phase = "starting" /\ ~halted
    /\ row' = FailUnfinished
    /\ phase' = "pruning"
    /\ UNCHANGED <<key, lives, halted, asked, marked, reply, handed, workers>>

\* The prunes ran -- or that of the coverage records failed, which is logged
\* and never refuses the start.
Serve ==
    /\ phase = "pruning"
    /\ phase' = "serving"
    /\ UNCHANGED <<rows, lives, halted, asked, marked, reply, handed, workers>>

\* The process is gone: its threads, its queue and its connections with it.
Gone ==
    /\ phase' = "down"
    /\ handed' = {}
    /\ reply' = [j \in Jobs |-> IF reply[j] \in Waiting THEN "lost" ELSE reply[j]]
    /\ worker' = [j \in Jobs |-> IF worker[j] = "none" THEN "none" ELSE "gone"]
    /\ outcome' = [j \in Jobs |-> "none"]
    /\ UNCHANGED <<rows, lives, halted, asked, marked, attempts>>

\* The pass or the prune of old rows was refused: DaemonRefused, nothing served.
StartRefused == phase \in {"starting", "pruning"} /\ Gone

\* A crash at any time, or the second interrupt of a stop.
Crash == phase # "down" /\ Gone

\* prune: rows older than JOB_RETENTION go, whatever their state.  A job a
\* worker or a request still has is younger than that.
Prune(j) ==
    /\ phase \in {"pruning", "serving"} /\ ~halted
    /\ row[j] # "absent" /\ reply[j] # "recorded" /\ worker[j] \in {"none", "gone"}
    /\ row' = [row EXCEPT ![j] = "pruned"]
    /\ UNCHANGED <<key, daemon, reply, handed, workers>>

\* A stop signal, or the server asked to exit.
Stop ==
    /\ phase = "serving"
    /\ phase' = "stopping"
    /\ UNCHANGED <<rows, lives, halted, asked, marked, reply, handed, workers>>

\* The schema moved, or a transaction would not end: the writer halts, and asks
\* the server to exit -- if there is one yet.
Halt ==
    /\ phase # "down" /\ ~halted
    /\ halted' = TRUE
    /\ asked' = (phase \notin {"starting", "pruning"})
    /\ UNCHANGED <<rows, phase, lives, marked, reply, handed, workers>>

\* The listener closes and the loop ends, cancelling the requests left on it:
\* their create steps are withdrawn, but for the one the writer is running.
LoopEnds ==
    /\ phase = "stopping"
    /\ phase' = "loop ended"
    /\ reply' = [j \in Jobs |-> IF reply[j] \in Waiting THEN "lost" ELSE reply[j]]
    /\ LET creating == {j \in handed : worker[j] = "none"} IN
           \E running \in {{}} \cup {{j} : j \in creating} :
               handed' = handed \ (creating \ running)
    /\ UNCHANGED <<rows, lives, halted, asked, marked, workers>>

\* _stop_writer, first: only the shutdown's own steps are accepted from here.
StopAccepting ==
    /\ phase = "loop ended"
    /\ phase' = "draining"
    /\ UNCHANGED <<rows, lives, halted, asked, marked, reply, handed, workers>>

\* Mutant: the pass runs ahead of the steps already queued.
PassOvertakes ==
    /\ phase = "draining" /\ ~halted
    /\ row' = FailUnfinished
    /\ phase' = "closing" /\ marked' = TRUE
    /\ UNCHANGED <<key, lives, halted, asked, reply, handed, workers>>

\* shutdown_pass: after every step accepted before it.
ShutdownPass ==
    /\ phase = "draining" /\ ~halted /\ handed = {}
    /\ row' = FailUnfinished
    /\ phase' = "closing" /\ marked' = TRUE
    /\ UNCHANGED <<key, lives, halted, asked, reply, handed, workers>>

\* The pass could not be applied, or the halt has it skipped.
PassFails ==
    /\ phase = "draining" /\ handed = {}
    /\ phase' = "closing"
    /\ UNCHANGED <<rows, lives, halted, asked, marked, reply, handed, workers>>

\* The writer and the pools are closed, and the process ends.
Exit == phase = "closing" /\ Gone

-----------------------------------------------------------------------------

RequestPath(j) ==
    \/ \E k \in Keys : Request(j, k)
    \/ Record(j) \/ FindDuplicate(j) \/ RecordRefused(j)
    \/ Submit(j)

Moves(j) ==
    \/ TakeJob(j)
    \/ HandMove(j) \/ MoveRefused(j)
    \/ Starts(j) \/ StartBusy(j)
    \/ Settles(j) \/ SettleBusy(j)

Commands(j) ==
    \/ CommandEnds(j) \/ CommandStopped(j)
    \/ RefreshRaises(j) \/ SummaryStarts(j) \/ SummaryReturns(j) \/ SummaryArrives(j)

Life ==
    \/ Start \/ RestartPass \/ Serve \/ StartRefused
    \/ Stop \/ Halt \/ LoopEnds
    \/ StopAccepting \/ ShutdownPass \/ PassFails \/ Exit
    \/ Crash

Next ==
    \/ \E j \in Jobs : RequestPath(j) \/ Moves(j) \/ Commands(j) \/ Prune(j)
    \/ Life

Spec == Init /\ [][Next]_vars

\* A pooled job is taken, a handed step runs or fails, a command ends within its
\* declared bound and a summary within its model's deadline, and a settling move
\* handed over again and again does not find the store busy every time.  A start
\* and a stop go through once begun; nothing makes anyone start the daemon.
Fairness ==
    /\ \A j \in Jobs :
        /\ WF_vars(Submit(j) \/ Record(j) \/ FindDuplicate(j) \/ RecordRefused(j))
        /\ WF_vars(TakeJob(j) \/ HandMove(j) \/ MoveRefused(j) \/ Starts(j) \/ StartBusy(j))
        /\ SF_vars(Settles(j))
        /\ WF_vars(CommandEnds(j) \/ CommandStopped(j) \/ SummaryReturns(j))
        /\ WF_vars(SummaryArrives(j))
    /\ WF_vars(RestartPass \/ Serve \/ StartRefused)
    /\ WF_vars(asked /\ Stop)
    /\ WF_vars(LoopEnds \/ StopAccepting \/ ShutdownPass \/ PassFails \/ Exit)

FairSpec == Spec /\ Fairness

-----------------------------------------------------------------------------
(* Properties.                                                             *)

\* Something of this life of the daemon will still move the job's row.
Held(j) == reply[j] = "recorded" \/ worker[j] \notin {"none", "gone"}

\* The two ways a running daemon leaves a row behind: the start that was given
\* up, and the summary whose refresh raised.
GivenUp(j)  == row[j] = "queued" /\ attempts[j] >= StateAttempts
Escaped(j)  == row[j] = "running" /\ IsSummary(j) /\ worker[j] = "gone"

\* A 202 is never about a job that was not written down: whatever the client was
\* told survives a crash, and it names a job of the command it asked for.
AcceptedIsRecorded ==
    \A j \in Jobs : reply[j] \in Jobs =>
        /\ row[reply[j]] # "absent"
        /\ key[reply[j]] = key[j]

\* Of a deduplicated command and scope there is at most one unfinished row, and
\* two runs of it never overlap: not while one is settled late, and not across a
\* stop, a crash and the next start.
OneRunPerKey ==
    \A i, j \in Jobs :
        (i # j /\ key[i] = key[j] /\ key[i] \in Deduplicated) =>
            /\ ~(row[i] \in Unfinished /\ row[j] \in Unfinished)
            /\ ~(worker[i] = "command" /\ worker[j] = "command")

\* While the daemon serves, every unfinished row has someone who will still move
\* it, but for the two ways named above -- rows of an earlier life included.
NoOtherRowIsStranded ==
    (phase = "serving" /\ ~halted) =>
        \A j \in Jobs : row[j] \in Unfinished => Held(j) \/ GivenUp(j) \/ Escaped(j)

\* A stop whose pass ran leaves no row unfinished, and nothing a late worker
\* does afterwards makes one.
CleanStopSettles ==
    marked => \A j \in Jobs : row[j] \notin Unfinished

\* A settled row is settled for good: a job finishing after the shutdown marked
\* it failed never overwrites that, nor does a pass overwrite what a job said.
SettledIsFinal ==
    [][\A j \in Jobs : row[j] \in Finished => row'[j] \in {row[j], "pruned"}]_vars

\* A job once started is settled, or left by its refresh, unless the daemon ends
\* or halts: no busy store, no order of a summary's two halves, keeps its row
\* running while a terminal follows it.
StartedJobsSettle ==
    \A j \in Jobs :
        row[j] = "running" ~> (row[j] # "running" \/ Escaped(j) \/ phase = "down")

\* A stop that was asked for or begun always ends: no queued step, no abandoned
\* worker and no request left on the loop holds it up.
StopEnds == asked \/ phase = "stopping" ~> phase = "down"

\* RequestPath.prompt: "a client that leaves after the row is written must not
\* leave a queued row no worker will run".
NoDeadQueuedRow ==
    (phase = "serving" /\ ~halted) => \A j \in Jobs : row[j] = "queued" => Held(j)

\* RequestPath._summary_job: "the row is always settled", for a row left running
\* would hold a terminal following it for ever.
SummaryRowIsSettled ==
    (phase = "serving" /\ ~halted) => \A j \in Jobs : row[j] = "running" => Held(j)

\* _serve_locked, of the halt: "the server is asked to stop".
HaltStopsTheDaemon == halted ~> phase = "down"
=============================================================================
