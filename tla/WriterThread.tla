---------------------------- MODULE WriterThread ----------------------------
(***************************************************************************)
(* The daemon's one writer thread (src/pm_ai/app/concurrency.py) and the   *)
(* claimed step every write runs in (StorageService.claimed_step).         *)
(*                                                                         *)
(* Callers on worker threads and on the event loop hand steps over; the    *)
(* thread runs them one at a time, in order, each as one transaction of    *)
(* operational.db.  Another pm-ai process may hold the database's write    *)
(* lock, or move its schema past the version this daemon opened it at.     *)
(* The daemon stops the writer in two moves, stop_accepting and close.     *)
(***************************************************************************)
EXTENDS Naturals, Sequences, SequencesExt

CONSTANTS Steps,    \* the steps handed over in one life of the daemon
          Kinds,    \* which of StepKind they are
          Modes,    \* which of Mode their callers use
          NoStep    \* no step is running

StepKind == {"ordinary", "credential save", "shutdown"}

\* WriterThread.call and call_async, each with or without start_within.
Mode == {"call", "call within", "async", "async within"}

ASSUME StepsAssumption == NoStep \notin Steps
ASSUME KindsAssumption == Kinds \subseteq StepKind /\ Modes \subseteq Mode

VARIABLES
    stopping, closing, closed,  \* WriterThread._stopping, ._closing, ._closed
    halted,    \* WriterThread._halted is not None
    queue,     \* WriterThread._queue
    thread,    \* the thread: waiting, in a step, or returned
    current,   \* the step the thread is in
    kind,      \* _Step.kind, once handed over
    mode,      \* which call the caller made, and whether it gave start_within
    started,   \* _Step.started is set
    done,      \* _Step.done: unset, or the answer it holds
    caller,    \* what the caller waits for, or what it was told
    tx,        \* what the step did to the store
    lock,      \* who holds operational.db's write lock
    version    \* the schema version stamped in operational.db

flags   == <<stopping, closing, closed>>
steps   == <<kind, mode, started, done, caller, tx>>
store   == <<lock, version>>
vars    == <<flags, halted, queue, thread, current, steps, store>>

OnTheLoop(s) == mode[s] \in {"async", "async within"}
Bounded(s)   == mode[s] \in {"call within", "async within"}

Answer == {"value", "error", "stopped"}
Told   == Answer \cup {"busy", "cancelled"}

TypeOK ==
    /\ stopping \in BOOLEAN /\ closing \in BOOLEAN /\ closed \in BOOLEAN
    /\ halted \in BOOLEAN
    /\ queue \in Seq(Steps)
    /\ thread \in {"waiting", "in step", "returned"}
    /\ current \in Steps \cup {NoStep}
    /\ kind \in [Steps -> Kinds \cup {"none"}]
    /\ mode \in [Steps -> Modes \cup {"none"}]
    /\ started \in [Steps -> BOOLEAN]
    /\ done \in [Steps -> Answer \cup {"unset"}]
    /\ caller \in [Steps -> Told \cup {"new", "waits"}]
    /\ tx \in [Steps -> {"none", "open", "committed", "undone", "stuck"}]
    /\ lock \in {"free", "daemon", "other"}
    /\ version \in {"opened", "moved"}

Init ==
    /\ stopping = FALSE /\ closing = FALSE /\ closed = FALSE
    /\ halted = FALSE
    /\ queue = <<>>
    /\ thread = "waiting" /\ current = NoStep
    /\ kind = [s \in Steps |-> "none"]
    /\ mode = [s \in Steps |-> "none"]
    /\ started = [s \in Steps |-> FALSE]
    /\ done = [s \in Steps |-> "unset"]
    /\ caller = [s \in Steps |-> "new"]
    /\ tx = [s \in Steps |-> "none"]
    /\ lock = "free" /\ version = "opened"

Queued == {queue[i] : i \in DOMAIN queue}

-----------------------------------------------------------------------------
(* The callers.                                                            *)

Refuses(k) == closed \/ halted \/ (stopping /\ k = "ordinary")

\* _submit: refused by name, or appended to the queue.  The shutdown hands its
\* own step over only after stop_accepting.
HandOver(s, k, m) ==
    /\ caller[s] = "new"
    /\ k = "shutdown" => stopping
    /\ kind' = [kind EXCEPT ![s] = k]
    /\ mode' = [mode EXCEPT ![s] = m]
    /\ IF Refuses(k)
       THEN /\ done' = [done EXCEPT ![s] = "stopped"]
            /\ caller' = [caller EXCEPT ![s] = "stopped"]
            /\ UNCHANGED queue
       ELSE /\ queue' = Append(queue, s)
            /\ caller' = [caller EXCEPT ![s] = "waits"]
            /\ UNCHANGED done
    /\ UNCHANGED <<flags, halted, thread, current, started, tx, store>>

\* Mutant: the step is marked withdrawn and stays queued, the mark never read.
StaysQueued(s) == UNCHANGED queue

\* _withdraw: unless it has started, the step leaves the queue for good.
MayWithdraw(s) == ~started[s]
Withdraw(s) ==
    queue' = IF s \in Queued
             THEN RemoveAt(queue, CHOOSE i \in DOMAIN queue : queue[i] = s)
             ELSE queue

\* start_within ran out and the step was withdrawn: WriterBusy.  The loop waits
\* for the start and the answer at once, a thread for the start alone -- so one
\* whose step was refused unstarted learns of it by this timeout.
StartTimeout(s) ==
    /\ caller[s] = "waits" /\ Bounded(s)
    /\ OnTheLoop(s) => done[s] = "unset"
    /\ MayWithdraw(s)
    /\ Withdraw(s)
    /\ caller' = [caller EXCEPT ![s] = "busy"]
    /\ UNCHANGED <<flags, halted, thread, current, kind, mode, started, done,
                   tx, store>>

\* The awaiting task is cancelled: before the start the step is withdrawn, later
\* its answer is dropped.
Cancelled(s) ==
    /\ caller[s] = "waits" /\ OnTheLoop(s)
    /\ IF MayWithdraw(s) THEN Withdraw(s) ELSE UNCHANGED queue
    /\ caller' = [caller EXCEPT ![s] = "cancelled"]
    /\ UNCHANGED <<flags, halted, thread, current, kind, mode, started, done,
                   tx, store>>

TakesAnswer(s) ==
    /\ caller[s] = "waits" /\ done[s] # "unset"
    /\ mode[s] = "call within" => started[s]
    /\ caller' = [caller EXCEPT ![s] = done[s]]
    /\ UNCHANGED <<flags, halted, queue, thread, current, kind, mode, started,
                   done, tx, store>>

-----------------------------------------------------------------------------
(* The thread.                                                             *)

\* Mutant: a halted thread takes nothing more from the queue.
PopUnlessHalted ==
    /\ thread = "waiting" /\ queue # <<>> /\ ~halted
    /\ queue' = Tail(queue)
    /\ started' = [started EXCEPT ![Head(queue)] = TRUE]
    /\ thread' = "in step" /\ current' = Head(queue)
    /\ UNCHANGED <<flags, halted, done, kind, mode, caller, tx, store>>

\* _run: the next step is marked started; a halted writer refuses it.
Pop ==
    /\ thread = "waiting" /\ queue # <<>>
    /\ LET s == Head(queue) IN
        /\ queue' = Tail(queue)
        /\ started' = [started EXCEPT ![s] = TRUE]
        /\ IF halted
           THEN /\ done' = [done EXCEPT ![s] = "stopped"]
                /\ UNCHANGED <<thread, current>>
           ELSE /\ thread' = "in step" /\ current' = s
                /\ UNCHANGED done
    /\ UNCHANGED <<flags, halted, kind, mode, caller, tx, store>>

\* _run returns once the writer is closing and nothing is queued.
Return ==
    /\ thread = "waiting" /\ queue = <<>> /\ closing
    /\ thread' = "returned"
    /\ UNCHANGED <<flags, halted, queue, current, steps, store>>

\* _execute: the step ends, its answer is set, and an error the writer halts on
\* halts it.
Ends(answer, halts) ==
    /\ thread' = "waiting" /\ current' = NoStep
    /\ done' = [done EXCEPT ![current] = answer]
    /\ halted' = (halted \/ halts)
    /\ UNCHANGED <<flags, queue, kind, mode, started, caller>>

\* Mutant: the version is trusted from the start of the daemon.
OpensUnchecked ==
    /\ thread = "in step" /\ tx[current] = "none"
    /\ lock = "free"
    /\ lock' = "daemon"
    /\ tx' = [tx EXCEPT ![current] = "open"]
    /\ UNCHANGED <<flags, halted, queue, thread, current, kind, mode, started,
                   done, caller, version>>

\* _open_for_step: BEGIN IMMEDIATE, the version checked before the statement.
Opens ==
    /\ thread = "in step" /\ tx[current] = "none"
    /\ lock = "free" /\ version = "opened"
    /\ lock' = "daemon"
    /\ tx' = [tx EXCEPT ![current] = "open"]
    /\ UNCHANGED <<flags, halted, queue, thread, current, kind, mode, started,
                   done, caller, version>>

\* The version moved: the transaction is rolled back and the writer halts.
FindsVersionMoved ==
    /\ thread = "in step" /\ tx[current] = "none"
    /\ lock = "free" /\ version = "moved"
    /\ Ends("error", TRUE)
    /\ UNCHANGED <<tx, store>>

\* Another connection holds the write lock past the 100 ms wait, or the step
\* raises before it reaches the store.
RaisesUnopened ==
    /\ thread = "in step" /\ tx[current] = "none"
    /\ Ends("error", FALSE)
    /\ UNCHANGED <<tx, store>>

\* A step that never touches the store opens no transaction.
ReturnsUnopened ==
    /\ thread = "in step" /\ tx[current] = "none"
    /\ Ends("value", FALSE)
    /\ UNCHANGED <<tx, store>>

\* claimed_step, returned: COMMIT.
Commits ==
    /\ thread = "in step" /\ tx[current] = "open"
    /\ tx' = [tx EXCEPT ![current] = "committed"]
    /\ lock' = "free"
    /\ Ends("value", FALSE)
    /\ UNCHANGED version

\* claimed_step, raised -- or its COMMIT was refused: ROLLBACK.
RollsBack ==
    /\ thread = "in step" /\ tx[current] = "open"
    /\ tx' = [tx EXCEPT ![current] = "undone"]
    /\ lock' = "free"
    /\ Ends("error", FALSE)
    /\ UNCHANGED version

\* claimed_step: a transaction nothing can end is OperationalStoreStuck.
GetsStuck ==
    /\ thread = "in step" /\ tx[current] = "open"
    /\ tx' = [tx EXCEPT ![current] = "stuck"]
    /\ Ends("error", TRUE)
    /\ UNCHANGED store

-----------------------------------------------------------------------------
(* The stop, and the other process.                                        *)

StopAccepting ==
    /\ ~stopping
    /\ stopping' = TRUE
    /\ UNCHANGED <<closing, closed, halted, queue, thread, current, steps, store>>

\* close, its first part: the thread is told to return when the queue is empty.
Close ==
    /\ ~closing
    /\ stopping' = TRUE /\ closing' = TRUE
    /\ UNCHANGED <<closed, halted, queue, thread, current, steps, store>>

\* Mutant: steps queued while the thread was being joined are forgotten.
ClosedForgetting ==
    /\ closing /\ ~closed /\ thread = "returned"
    /\ closed' = TRUE
    /\ queue' = <<>>
    /\ UNCHANGED <<stopping, closing, halted, thread, current, steps, store>>

\* close, once the thread is joined: whatever was queued since is refused.
Closed ==
    /\ closing /\ ~closed /\ thread = "returned"
    /\ closed' = TRUE
    /\ done' = [s \in Steps |-> IF s \in Queued /\ done[s] = "unset"
                                THEN "stopped" ELSE done[s]]
    /\ queue' = <<>>
    /\ UNCHANGED <<stopping, closing, halted, thread, current, kind, mode,
                   started, caller, tx, store>>

\* Another pm-ai process writes to operational.db under its write lock, and may
\* be one that migrates it.
OtherLocks ==
    /\ lock = "free" /\ lock' = "other"
    /\ UNCHANGED <<flags, halted, queue, thread, current, steps, version>>

OtherUnlocks ==
    /\ lock = "other" /\ lock' = "free"
    /\ version' \in {version, "moved"}
    /\ UNCHANGED <<flags, halted, queue, thread, current, steps>>

-----------------------------------------------------------------------------

Caller(s) ==
    \/ \E k \in Kinds, m \in Modes : HandOver(s, k, m)
    \/ StartTimeout(s)
    \/ Cancelled(s)
    \/ TakesAnswer(s)

RunsStep ==
    \/ Opens
    \/ FindsVersionMoved
    \/ RaisesUnopened
    \/ ReturnsUnopened
    \/ Commits
    \/ RollsBack
    \/ GetsStuck

Thread == Pop \/ Return \/ RunsStep

Next ==
    \/ \E s \in Steps : Caller(s)
    \/ Thread
    \/ StopAccepting \/ Close \/ Closed
    \/ OtherLocks \/ OtherUnlocks

Spec == Init /\ [][Next]_vars

\* The thread runs whenever it can, its steps end (each is a claimed step, with
\* nothing in it that waits), close goes on once the thread is joined, and a
\* caller still waiting takes its answer, or sees its wait end, when it can.
Fairness ==
    /\ WF_vars(Thread)
    /\ WF_vars(Closed)
    /\ \A s \in Steps : WF_vars(StartTimeout(s) \/ TakesAnswer(s))

FairSpec == Spec /\ Fairness

-----------------------------------------------------------------------------
(* The promise the writer keeps.                                           *)

\* Handed over and in the writer's hands.
AtWriter(s) == s \in Queued \/ s = current

FateOf(s) ==
    IF caller[s] = "new" THEN "none"
    ELSE IF done[s] = "value" THEN "applied"
    ELSE IF done[s] = "error" THEN "undone"
    ELSE IF done[s] = "stopped" THEN "refused"
    ELSE IF AtWriter(s) THEN "pending" ELSE "withdrawn"

ToldOf(s) == IF caller[s] \in Told THEN caller[s] ELSE "nothing"

Fates == [s \in Steps |-> FateOf(s)]
Tolds == [s \in Steps |-> ToldOf(s)]
Kept  == {s \in Steps : tx[s] = "committed"}

Promise == INSTANCE ClaimedSteps WITH fate <- Fates, told <- Tolds, kept <- Kept

\* Queue, thread, withdrawal, halt, stop and transaction together keep the
\* promise ClaimedSteps states: one fate per step, told truly, kept whole or not.
KeepsItsPromise == Promise!Spec

-----------------------------------------------------------------------------
(* Properties.                                                             *)

\* "Withdrawn and nothing was written" (WriterThread._busy) is true whenever it
\* is said: a step whose caller was told WriterBusy never starts and never
\* touches the store, whatever the thread was doing as the wait ran out.
BusyMeansNothingWritten ==
    \A s \in Steps : caller[s] = "busy" => ~started[s] /\ tx[s] = "none"

\* What a caller is told agrees with the store: a value only for a step wholly
\* committed (or that wrote nothing), an error or a refusal only for one of
\* which nothing was kept.
AnswerAgreesWithStore ==
    \A s \in Steps :
        /\ done[s] = "value" => tx[s] \in {"none", "committed"}
        /\ done[s] = "error" => tx[s] \in {"none", "undone", "stuck"}
        /\ done[s] = "stopped" => tx[s] = "none"
        /\ caller[s] \in Answer \ {"stopped"} => done[s] = caller[s]

\* A halt is final: once the writer halted -- the schema moved, or a transaction
\* would not end -- no step of this daemon is run (a step writes files too), and
\* none opens or commits a transaction again.
NothingWrittenAfterHalt ==
    [][halted => /\ thread' # "in step"
                 /\ \A s \in Steps : tx'[s] = tx[s]]_vars

\* The daemon never writes to a store another process moved past its version.
NeverWritesMovedStore ==
    [][\A s \in Steps : tx'[s] = "committed" /\ tx[s] # "committed"
                          => version = "opened"]_vars

\* The shutdown's own step runs after every ordinary step already accepted, so a
\* job whose step was queued finishes it before the shutdown marks it failed.
ShutdownStepRunsLast ==
    [][\A s \in Steps : kind[s] = "shutdown" /\ started'[s] /\ ~started[s]
          => \A o \in Steps : kind[o] = "ordinary" => o \notin Queued]_vars

\* Nobody waits on the writer for ever: a caller is always told something --
\* also when its step was handed over while the thread was returning.
EveryCallerIsTold ==
    \A s \in Steps : caller[s] = "waits" ~> caller[s] \in Told

\* close() always returns: the queued steps finish, and nothing can keep the
\* thread from being joined.
CloseReturns == closing ~> closed
=============================================================================
