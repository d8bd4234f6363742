------------------------- MODULE JobRequestsProofs -------------------------
(***************************************************************************)
(* Proofs about JobRequests, for any jobs, keys, attempts and lives of the *)
(* daemon.  The inductive invariant has three parts: what a request may    *)
(* stand at while its job is where it is, which state the row of a job is  *)
(* in while its worker is where it is, and what a phase of the daemon's    *)
(* life leaves no room for.                                                *)
(***************************************************************************)
EXTENDS JobRequests, TLAPS

Rows    == Unfinished \cup Finished \cup {"absent", "pruned"}
Phases  == {"down", "starting", "pruning", "serving", "stopping",
            "loop ended", "draining", "closing"}
Replies == Jobs \cup Waiting \cup {"none", "busy", "lost"}
Places  == {"none", "pooled", "starting", "command", "awaiting",
            "ending done", "ending failed", "gone"}

\* A request that has not asked has left nothing; one whose create step is
\* queued has no row yet; one that recorded it is still on the loop.
RequestInv ==
    \A j \in Jobs :
        /\ reply[j] = "none" => row[j] = "absent" /\ j \notin handed
        /\ row[j] = "absent" => worker[j] = "none"
        /\ reply[j] \in Waiting => LoopRuns
        /\ reply[j] = "recorded" => row[j] = "queued" /\ worker[j] = "none" /\ j \notin handed
        /\ j \in handed /\ worker[j] = "none" =>
              row[j] = "absent" /\ (LoopRuns => reply[j] = "creating")

\* The row is where its worker believes it is, but for what the shutdown's pass
\* did; and a start is handed over at most StateAttempts times.
WorkerInv ==
    \A j \in Jobs :
        /\ worker[j] \in {"none", "pooled"} => attempts[j] = 0
        /\ worker[j] = "starting" => attempts[j] < StateAttempts
        /\ worker[j] \in {"pooled", "starting"} /\ phase # "closing" => row[j] = "queued"
        /\ worker[j] \in {"command", "awaiting", "ending done", "ending failed"}
              /\ phase # "closing" => row[j] = "running"

\* Before it serves the daemon has no worker, no request and no step; after the
\* shutdown's pass it takes none.
LifeInv ==
    /\ phase \in {"down", "starting", "pruning"} =>
          \A j \in Jobs : worker[j] \in {"none", "gone"} /\ reply[j] \notin Waiting
    /\ phase \in {"down", "starting", "pruning", "closing"} => handed = {}
    /\ phase = "pruning" /\ ~halted => \A j \in Jobs : row[j] \notin Unfinished
    /\ marked => phase \in {"closing", "down"}
    /\ CleanStopSettles

IInv ==
    /\ TypeOK /\ RequestInv /\ WorkerInv /\ LifeInv
    /\ AcceptedIsRecorded /\ OneRunPerKey /\ NoOtherRowIsStranded

-----------------------------------------------------------------------------

\* The invariant holds in the initial state.
LEMMA InitEstablishes == Init => IInv
<1> SUFFICES ASSUME Init PROVE IInv
  OBVIOUS
<1> USE JobsAssumption, KeysAssumption, AttemptsAssumption DEF Init
<1>a. attempts \in [Jobs -> 0..StateAttempts] /\ lives \in 0..MaxLives
  BY Z3
<1>b. /\ row \in [Jobs -> Unfinished \cup Finished \cup {"absent", "pruned"}]
      /\ key \in [Jobs -> Keys \cup {NoKey}]
      /\ reply \in [Jobs -> Jobs \cup Waiting \cup {"none", "busy", "lost"}]
      /\ worker \in [Jobs -> {"none", "pooled", "starting", "command", "awaiting",
                              "ending done", "ending failed", "gone"}]
      /\ outcome \in [Jobs -> {"none", "pending", "arrived"}]
  OBVIOUS
<1>1. TypeOK
  BY <1>a, <1>b DEF TypeOK
<1>2. RequestInv /\ WorkerInv
  BY DEF RequestInv, WorkerInv, Waiting, LoopRuns
<1>3. LifeInv
  BY DEF LifeInv, CleanStopSettles, Waiting, Unfinished
<1>4. AcceptedIsRecorded /\ OneRunPerKey /\ NoOtherRowIsStranded
  BY DEF AcceptedIsRecorded, OneRunPerKey, NoOtherRowIsStranded, Unfinished
<1> QED
  BY <1>1, <1>2, <1>3, <1>4 DEF IInv

\* What a request and its job stand at.
LEMMA RequestStep == IInv /\ [Next]_vars => RequestInv'
<1> SUFFICES ASSUME IInv, [Next]_vars PROVE RequestInv'
  OBVIOUS
<1>0. /\ row \in [Jobs -> Unfinished \cup Finished \cup {"absent", "pruned"}]
      /\ reply \in [Jobs -> Jobs \cup Waiting \cup {"none", "busy", "lost"}]
      /\ worker \in [Jobs -> {"none", "pooled", "starting", "command", "awaiting",
                              "ending done", "ending failed", "gone"}]
      /\ handed \subseteq Jobs
      /\ RequestInv /\ WorkerInv /\ LifeInv
  BY DEF IInv, TypeOK
<1>one. ASSUME NEW j \in Jobs, UNCHANGED phase, handed' \ {j} = handed \ {j},
               \A i \in Jobs \ {j} :
                  row'[i] = row[i] /\ reply'[i] = reply[i] /\ worker'[i] = worker[i],
               reply'[j] = "none" => row'[j] = "absent" /\ j \notin handed',
               row'[j] = "absent" => worker'[j] = "none",
               reply'[j] \in Waiting => LoopRuns,
               reply'[j] = "recorded" =>
                  row'[j] = "queued" /\ worker'[j] = "none" /\ j \notin handed',
               j \in handed' /\ worker'[j] = "none" =>
                  row'[j] = "absent" /\ (LoopRuns => reply'[j] = "creating")
        PROVE  RequestInv'
  <2>1. LoopRuns' = LoopRuns /\ \A i \in Jobs \ {j} : i \in handed' <=> i \in handed
    BY <1>one DEF LoopRuns
  <2>2. RequestInv
    BY <1>0
  <2> QED
    BY <1>one, <2>1, <2>2 DEF RequestInv
<1>busy. ASSUME NEW j \in Jobs, worker[j] # "none", worker'[j] # "none", row'[j] # "absent",
                UNCHANGED <<phase, reply>>, handed' \ {j} = handed \ {j},
                \A i \in Jobs \ {j} : row'[i] = row[i] /\ worker'[i] = worker[i]
         PROVE  RequestInv'
  <2>1. reply[j] \notin {"none", "recorded"} /\ (reply[j] \in Waiting => LoopRuns)
    BY <1>busy, <1>0 DEF RequestInv
  <2> QED
    BY <1>busy, <1>one, <2>1
<1>there. \A j \in Jobs : worker[j] # "none" => row[j] # "absent"
  BY <1>0 DEF RequestInv
<1>1. ASSUME NEW j \in Jobs, NEW k \in Keys, Request(j, k) PROVE RequestInv'
  <2>1. /\ reply[j] = "none" /\ LoopRuns /\ UNCHANGED <<phase, row, worker>>
        /\ handed' \ {j} = handed \ {j}
        /\ reply' = [reply EXCEPT ![j] = reply'[j]]
        /\ \/ reply'[j] = "creating"
           \/ reply'[j] = "busy" /\ UNCHANGED handed
    BY <1>1, <1>0 DEF Request, daemon, workers
  <2>2. row[j] = "absent" /\ worker[j] = "none" /\ j \notin handed
    BY <2>1, <1>0 DEF RequestInv
  <2> QED
    BY <1>0, <1>one, <2>1, <2>2 DEF Waiting
<1>2. ASSUME NEW j \in Jobs, Record(j) PROVE RequestInv'
  <2>1. /\ j \in handed /\ worker[j] = "none" /\ UNCHANGED <<phase, worker>>
        /\ handed' = handed \ {j} /\ row' = [row EXCEPT ![j] = "queued"]
        /\ reply' = [reply EXCEPT ![j] = IF @ = "creating" THEN "recorded" ELSE @]
    BY <1>2 DEF Record, CreatesRow, daemon, workers
  <2>2. reply[j] # "none" /\ (reply[j] \in Waiting => LoopRuns)
    BY <2>1, <1>0 DEF RequestInv
  <2> QED
    BY <1>0, <1>one, <2>1, <2>2 DEF Waiting
<1>3. ASSUME NEW j \in Jobs, FindDuplicate(j) \/ RecordRefused(j) PROVE RequestInv'
  <2>1. Duplicates(j) \subseteq Jobs
    BY DEF Duplicates
  <2>2. PICK told \in Jobs \cup {"busy"} :
           /\ j \in handed /\ worker[j] = "none" /\ UNCHANGED <<phase, row, worker>>
           /\ handed' = handed \ {j}
           /\ reply' = [reply EXCEPT ![j] = IF @ = "creating" THEN told ELSE @]
    BY <1>3, <2>1 DEF FindDuplicate, RecordRefused, CreatesRow, rows, daemon, workers
  <2>3. reply[j] # "none" /\ (reply[j] \in Waiting => LoopRuns) /\ reply[j] # "recorded"
    BY <2>2, <1>0 DEF RequestInv
  <2>4. told \notin {"none", "creating", "recorded"}
    BY JobsAssumption
  <2>5. row[j] = "absent"
    BY <2>2, <1>0 DEF RequestInv
  <2> QED
    BY <1>0, <1>one, <2>2, <2>3, <2>4, <2>5 DEF Waiting
<1>4. ASSUME NEW j \in Jobs, Submit(j) PROVE RequestInv'
  <2>1. /\ reply[j] = "recorded" /\ UNCHANGED <<phase, row, handed>>
        /\ worker' = [worker EXCEPT ![j] = "pooled"] /\ reply' = [reply EXCEPT ![j] = j]
    BY <1>4 DEF Submit, rows, daemon
  <2>2. row[j] = "queued" /\ j \notin {"none", "creating", "recorded"}
    BY <2>1, <1>0, JobsAssumption DEF RequestInv
  <2> QED
    BY <1>0, <1>one, <2>1, <2>2 DEF Waiting
<1>5. ASSUME NEW j \in Jobs, TakeJob(j) \/ HandMove(j) \/ MoveRefused(j) PROVE RequestInv'
  <2>1. /\ worker[j] # "none" /\ UNCHANGED <<phase, reply, row>> /\ handed' \ {j} = handed \ {j}
        /\ worker'[j] # "none" /\ \A i \in Jobs \ {j} : worker'[i] = worker[i]
    BY <1>5, <1>0 DEF TakeJob, HandMove, MoveRefused, Moving, Leaves, rows, daemon
  <2> QED
    BY <2>1, <1>busy, <1>there
<1>6. ASSUME NEW j \in Jobs, Starts(j) \/ StartBusy(j) \/ Settles(j) \/ SettleBusy(j)
      PROVE RequestInv'
  <2>1. /\ worker[j] # "none" /\ UNCHANGED <<phase, reply>> /\ handed' = handed \ {j}
        /\ worker'[j] # "none" /\ \A i \in Jobs \ {j} : worker'[i] = worker[i]
    BY <1>6, <1>0 DEF Starts, StartBusy, Settles, SettleBusy, Leaves, rows, daemon, workers
  <2>2. /\ row'[j] \in {row[j], "running", "done", "failed"}
        /\ \A i \in Jobs \ {j} : row'[i] = row[i]
    BY <1>6, <1>0 DEF Starts, StartBusy, Settles, SettleBusy, EndsAs, rows
  <2> QED
    BY <2>1, <2>2, <1>busy, <1>there
<1>7. ASSUME NEW j \in Jobs, Commands(j) PROVE RequestInv'
  <2>1. UNCHANGED <<phase, reply, row, handed>>
    BY <1>7 DEF Commands, CommandEnds, CommandStopped, RefreshRaises, SummaryStarts,
       SummaryReturns, SummaryArrives, rows, daemon
  <2>2. /\ \A i \in Jobs \ {j} : worker'[i] = worker[i]
        /\ worker'[j] = "none" <=> worker[j] = "none"
    BY <1>7, <1>0 DEF Commands, CommandEnds, CommandStopped, RefreshRaises, SummaryStarts,
       SummaryReturns, SummaryArrives, Leaves
  <2>3. CASE worker[j] # "none"
    BY <2>1, <2>2, <2>3, <1>busy, <1>there
  <2>4. CASE worker[j] = "none"
    <3>1. \A i \in Jobs : worker'[i] = "none" <=> worker[i] = "none"
      BY <2>2
    <3> QED
      BY <2>1, <3>1, <1>0 DEF RequestInv, LoopRuns
  <2> QED
    BY <2>3, <2>4
<1>8. ASSUME NEW j \in Jobs, Prune(j) PROVE RequestInv'
  <2>1. /\ row[j] # "absent" /\ reply[j] # "recorded" /\ row' = [row EXCEPT ![j] = "pruned"]
        /\ UNCHANGED <<phase, reply, handed, worker>>
    BY <1>8 DEF Prune, daemon, workers
  <2>2. /\ reply[j] # "none" /\ (reply[j] \in Waiting => LoopRuns)
        /\ ~(j \in handed /\ worker[j] = "none")
    BY <2>1, <1>0 DEF RequestInv
  <2> QED
    BY <1>0, <1>one, <2>1, <2>2
<1> USE <1>0, JobsAssumption DEF RequestInv, LoopRuns, Waiting, Unfinished, Finished
<1>9. CASE RestartPass \/ ShutdownPass
  BY <1>9 DEF RestartPass, ShutdownPass, FailUnfinished, LifeInv, workers
<1>10. CASE Start \/ Serve \/ Stop \/ Halt \/ StopAccepting \/ PassFails
  BY <1>10 DEF Start, Serve, Stop, Halt, StopAccepting, PassFails, LifeInv, rows, workers
<1>11. CASE StartRefused \/ Exit \/ Crash
  <2>1. Gone
    BY <1>11 DEF StartRefused, Exit, Crash
  <2>2. /\ \A j \in Jobs : /\ reply'[j] \notin Waiting
                           /\ reply'[j] = "none" <=> reply[j] = "none"
                           /\ worker'[j] = "none" <=> worker[j] = "none"
        /\ handed' = {} /\ UNCHANGED row
    BY <2>1 DEF Gone, rows
  <2> QED
    BY <2>2
<1>12. CASE LoopEnds
  BY <1>12 DEF LoopEnds, rows, workers
<1>13. CASE UNCHANGED vars
  BY <1>13 DEF vars, rows, daemon, workers
<1> QED
  BY <1>1, <1>2, <1>3, <1>4, <1>5, <1>6, <1>7, <1>8, <1>9, <1>10, <1>11, <1>12, <1>13
     DEF Next, RequestPath, Moves, Life

\* Where a worker and the row of its job are.
LEMMA WorkerStep == IInv /\ [Next]_vars => WorkerInv'
<1> SUFFICES ASSUME IInv, [Next]_vars PROVE WorkerInv'
  OBVIOUS
<1>0. /\ row \in [Jobs -> Unfinished \cup Finished \cup {"absent", "pruned"}]
      /\ worker \in [Jobs -> {"none", "pooled", "starting", "command", "awaiting",
                              "ending done", "ending failed", "gone"}]
      /\ attempts \in [Jobs -> 0..StateAttempts]
      /\ WorkerInv
  BY DEF IInv, TypeOK
<1>n. /\ StateAttempts \in Nat /\ 0 < StateAttempts
      /\ \A j \in Jobs : attempts[j] \in Nat
  <2>1. StateAttempts \in Nat /\ 0 < StateAttempts
    BY AttemptsAssumption
  <2>2. \A a \in 0..StateAttempts : a \in Nat
    BY <2>1
  <2>3. attempts \in [Jobs -> 0..StateAttempts]
    BY DEF IInv, TypeOK
  <2> QED
    BY <2>1, <2>2, <2>3
<1>r. RequestInv
  BY DEF IInv
<1>l. LifeInv
  BY DEF IInv
<1>one. ASSUME NEW j \in Jobs, UNCHANGED phase,
               \A i \in Jobs \ {j} :
                  row'[i] = row[i] /\ worker'[i] = worker[i] /\ attempts'[i] = attempts[i],
               worker'[j] \in {"none", "pooled"} => attempts'[j] = 0,
               worker'[j] = "starting" => attempts'[j] < StateAttempts,
               worker'[j] \in {"pooled", "starting"} /\ phase # "closing" => row'[j] = "queued",
               worker'[j] \in {"command", "awaiting", "ending done", "ending failed"}
                  /\ phase # "closing" => row'[j] = "running"
        PROVE  WorkerInv'
  <2>1. WorkerInv
    BY <1>0
  <2> QED
    BY <1>one, <2>1 DEF WorkerInv
<1>gone. ASSUME NEW j \in Jobs, UNCHANGED phase, worker'[j] = "gone",
                \A i \in Jobs \ {j} :
                   row'[i] = row[i] /\ worker'[i] = worker[i] /\ attempts'[i] = attempts[i]
         PROVE  WorkerInv'
  BY <1>gone, <1>one
<1>same. UNCHANGED <<row, phase, worker, attempts>> => WorkerInv'
  BY <1>0 DEF WorkerInv
<1>1. ASSUME NEW j \in Jobs, NEW k \in Keys, Request(j, k) PROVE WorkerInv'
  BY <1>1, <1>same DEF Request, daemon, workers
<1>2. ASSUME NEW j \in Jobs, Record(j) PROVE WorkerInv'
  <2>1. /\ worker[j] = "none" /\ row' = [row EXCEPT ![j] = "queued"]
        /\ UNCHANGED <<phase, worker, attempts>>
    BY <1>2 DEF Record, CreatesRow, daemon, workers
  <2>2. attempts[j] = 0
    BY <2>1, <1>0 DEF WorkerInv
  <2> QED
    BY <1>0, <1>one, <2>1, <2>2
<1>3. ASSUME NEW j \in Jobs, FindDuplicate(j) \/ RecordRefused(j) PROVE WorkerInv'
  BY <1>3, <1>same DEF FindDuplicate, RecordRefused, rows, daemon, workers
<1>4. ASSUME NEW j \in Jobs, Submit(j) PROVE WorkerInv'
  <2>1. /\ reply[j] = "recorded" /\ worker' = [worker EXCEPT ![j] = "pooled"]
        /\ UNCHANGED <<row, phase, attempts>>
    BY <1>4 DEF Submit, rows, daemon
  <2>2. row[j] = "queued" /\ worker[j] = "none"
    BY <2>1, <1>r DEF RequestInv
  <2>3. attempts[j] = 0
    BY <2>2, <1>0 DEF WorkerInv
  <2> QED
    BY <1>0, <1>one, <2>1, <2>2, <2>3
<1>5. ASSUME NEW j \in Jobs, TakeJob(j) \/ HandMove(j) \/ MoveRefused(j) PROVE WorkerInv'
  <2>1. UNCHANGED <<row, phase, attempts>>
    BY <1>5 DEF TakeJob, HandMove, MoveRefused, rows, daemon
  <2>2. CASE TakeJob(j)
    <3>1. worker[j] = "pooled" /\ worker' = [worker EXCEPT ![j] = "starting"]
      BY <2>2 DEF TakeJob
    <3>2. attempts[j] = 0 /\ (phase # "closing" => row[j] = "queued")
      BY <3>1, <1>0 DEF WorkerInv
    <3> QED
      BY <1>0, <1>n, <1>one, <2>1, <3>1, <3>2
  <2>3. CASE HandMove(j) \/ MoveRefused(j)
    <3>1. UNCHANGED worker \/ worker' = [worker EXCEPT ![j] = "gone"]
      BY <2>3 DEF HandMove, MoveRefused, Leaves
    <3> QED
      BY <1>0, <1>gone, <1>same, <2>1, <3>1
  <2> QED
    BY <1>5, <2>2, <2>3
<1>6. ASSUME NEW j \in Jobs, Starts(j) \/ Settles(j) \/ SettleBusy(j) PROVE WorkerInv'
  <2>1. UNCHANGED <<phase, attempts>>
    BY <1>6 DEF Starts, Settles, SettleBusy, daemon, workers
  <2>2. CASE Starts(j) /\ row[j] = "queued"
    <3>1. row' = [row EXCEPT ![j] = "running"] /\ worker' = [worker EXCEPT ![j] = "command"]
      BY <2>2 DEF Starts
    <3> QED
      BY <1>0, <1>one, <2>1, <3>1
  <2>3. CASE Starts(j) /\ row[j] # "queued"
    BY <1>0, <1>gone, <2>1, <2>3 DEF Starts, Leaves
  <2>4. CASE Settles(j)
    BY <1>0, <1>gone, <2>1, <2>4 DEF Settles, Leaves
  <2>5. CASE SettleBusy(j)
    BY <1>same, <2>1, <2>5 DEF SettleBusy, rows, workers
  <2> QED
    BY <1>6, <2>2, <2>3, <2>4, <2>5
<1>8. ASSUME NEW j \in Jobs, Commands(j) PROVE WorkerInv'
  <2>1. UNCHANGED <<row, phase, attempts>>
    BY <1>8 DEF Commands, CommandEnds, CommandStopped, RefreshRaises, SummaryStarts,
       SummaryReturns, SummaryArrives, rows, daemon
  <2>2. \/ UNCHANGED worker \/ worker' = [worker EXCEPT ![j] = "gone"]
        \/ /\ worker[j] \in {"command", "awaiting"}
           /\ \E to \in {"awaiting", "ending done", "ending failed"} :
                 worker' = [worker EXCEPT ![j] = to]
    BY <1>8, <1>0 DEF Commands, CommandEnds, CommandStopped, RefreshRaises, SummaryStarts,
       SummaryReturns, SummaryArrives, Leaves
  <2>3. CASE UNCHANGED worker \/ worker' = [worker EXCEPT ![j] = "gone"]
    BY <1>0, <1>gone, <1>same, <2>1, <2>3
  <2>4. ASSUME worker[j] \in {"command", "awaiting"},
               NEW to \in {"awaiting", "ending done", "ending failed"},
               worker' = [worker EXCEPT ![j] = to]
        PROVE  WorkerInv'
    <3>1. phase # "closing" => row[j] = "running"
      BY <2>4, <1>0 DEF WorkerInv
    <3> QED
      BY <1>0, <1>one, <2>1, <2>4, <3>1
  <2> QED
    BY <2>2, <2>3, <2>4
<1>9. ASSUME NEW j \in Jobs, Prune(j) PROVE WorkerInv'
  <2>1. /\ row' = [row EXCEPT ![j] = "pruned"] /\ UNCHANGED <<phase, worker, attempts>>
        /\ worker[j] \in {"none", "gone"}
    BY <1>9 DEF Prune, daemon, workers
  <2>2. worker[j] = "none" => attempts[j] = 0
    BY <1>0 DEF WorkerInv
  <2> QED
    BY <1>0, <1>one, <2>1, <2>2
<1> USE <1>0 DEF WorkerInv, Unfinished, Finished
<1>7. ASSUME NEW j \in Jobs, StartBusy(j) PROVE WorkerInv'
  <2>0. attempts' = [attempts EXCEPT ![j] = @ + 1]
    BY <1>7 DEF StartBusy
  <2>1. /\ attempts[j] \in Nat /\ attempts'[j] = attempts[j] + 1
        /\ \A i \in Jobs \ {j} : attempts'[i] = attempts[i]
    BY <2>0, <1>n
  <2>2. /\ \A i \in Jobs \ {j} : worker'[i] = worker[i]
        /\ worker[j] = "starting" /\ UNCHANGED <<row, phase>>
        /\ attempts'[j] >= StateAttempts => worker'[j] = "gone"
        /\ ~(attempts'[j] >= StateAttempts) => worker'[j] = "starting"
    BY <1>7 DEF StartBusy, Leaves, rows, daemon
  <2>3. ASSUME NEW i \in Jobs, i # j PROVE attempts'[i] = attempts[i] /\ worker'[i] = worker[i]
    BY <2>1, <2>2, <2>3
  <2>4. worker'[j] = "gone" \/ (worker'[j] = "starting" /\ attempts'[j] < StateAttempts)
    <3> HIDE <1>0 DEF WorkerInv
    <3> QED
      BY <2>1, <2>2, <1>n
  <2> QED
    BY <2>2, <2>3, <2>4
<1>10. CASE RestartPass \/ ShutdownPass
  BY <1>10, <1>l DEF RestartPass, ShutdownPass, FailUnfinished, LifeInv, workers
<1>11. CASE Start \/ Serve \/ Stop \/ Halt \/ LoopEnds \/ StopAccepting \/ PassFails
  BY <1>11, <1>l DEF Start, Serve, Stop, Halt, LoopEnds, StopAccepting, PassFails, LifeInv,
     rows, workers
<1>12. CASE StartRefused \/ Exit \/ Crash
  <2>1. /\ UNCHANGED attempts
        /\ \A i \in Jobs : worker'[i] \in {"none", "gone"} /\ (worker'[i] = "none" => worker[i] = "none")
    BY <1>12 DEF StartRefused, Exit, Crash, Gone
  <2> QED
    BY <2>1
<1>13. CASE UNCHANGED vars
  BY <1>13 DEF vars, rows, daemon, workers
<1> QED
  BY <1>1, <1>2, <1>3, <1>4, <1>5, <1>6, <1>7, <1>8, <1>9, <1>10, <1>11, <1>12, <1>13
     DEF Next, RequestPath, Moves, Life

\* What each phase of the daemon's life leaves no room for.
LEMMA LifeStep == IInv /\ [Next]_vars => LifeInv'
<1> SUFFICES ASSUME IInv, [Next]_vars PROVE LifeInv'
  OBVIOUS
<1>0. /\ worker \in [Jobs -> {"none", "pooled", "starting", "command", "awaiting",
                              "ending done", "ending failed", "gone"}]
      /\ LifeInv
  BY DEF IInv, TypeOK
<1> USE DEF LifeInv, CleanStopSettles
<1>a. ASSUME phase \notin {"down", "starting", "pruning", "closing"},
             UNCHANGED <<phase, marked>>
      PROVE  LifeInv'
  BY <1>0, <1>a
<1>b. ASSUME phase \notin {"down", "starting", "pruning"},
             UNCHANGED <<phase, marked, row>>, handed' \subseteq handed
      PROVE  LifeInv'
  BY <1>0, <1>b
<1>1. ASSUME NEW j \in Jobs, RequestPath(j) PROVE LifeInv'
  BY <1>1, <1>0, <1>a DEF RequestPath, Request, Record, FindDuplicate, RecordRefused, Submit,
     CreatesRow, LoopRuns, daemon
<1>2. ASSUME NEW j \in Jobs, TakeJob(j) \/ HandMove(j) PROVE LifeInv'
  BY <1>2, <1>0, <1>a, <1>b DEF TakeJob, HandMove, Moving, Accepts, rows, daemon
<1>3. ASSUME NEW j \in Jobs,
             MoveRefused(j) \/ Starts(j) \/ StartBusy(j) \/ Settles(j) \/ SettleBusy(j)
      PROVE  LifeInv'
  BY <1>3, <1>0, <1>a DEF MoveRefused, Starts, StartBusy, Settles, SettleBusy, daemon
<1>4. ASSUME NEW j \in Jobs, Commands(j) PROVE LifeInv'
  <2>1. CASE SummaryStarts(j) \/ SummaryReturns(j) \/ CommandEnds(j) \/ CommandStopped(j)
             \/ RefreshRaises(j)
    BY <2>1, <1>0, <1>b DEF SummaryStarts, SummaryReturns, CommandEnds, CommandStopped,
       RefreshRaises, rows, daemon
  <2>2. CASE SummaryArrives(j)
    BY <2>2, <1>0 DEF SummaryArrives, rows, daemon
  <2> QED
    BY <1>4, <2>1, <2>2 DEF Commands
<1>5. ASSUME NEW j \in Jobs, Prune(j) PROVE LifeInv'
  <2>1. row' = [row EXCEPT ![j] = "pruned"] /\ row \in [Jobs -> Rows]
    BY <1>5 DEF Prune, IInv, TypeOK, Rows
  <2>2. \A i \in Jobs : row'[i] \in Unfinished => row[i] \in Unfinished
    BY <2>1 DEF Unfinished
  <2> QED
    BY <1>5, <1>0, <2>2 DEF Prune, daemon, workers
<1>6. \A j \in Jobs : FailUnfinished[j] \notin Unfinished
  BY DEF FailUnfinished, Unfinished
<1>7. CASE RestartPass
  BY <1>7, <1>0, <1>6 DEF RestartPass, workers
<1>8. CASE ShutdownPass
  BY <1>8, <1>0, <1>6 DEF ShutdownPass
<1>9. CASE Start
  BY <1>9, <1>0 DEF Start, rows, workers
<1>16. CASE Serve
  BY <1>16, <1>0 DEF Serve
<1>17. CASE Stop
  BY <1>17, <1>0 DEF Stop
<1>10. CASE StopAccepting
  BY <1>10, <1>0 DEF StopAccepting
<1>15. CASE PassFails
  BY <1>15, <1>0 DEF PassFails
<1>11. CASE Halt
  BY <1>11, <1>0 DEF Halt, rows, workers
<1>12. CASE LoopEnds
  BY <1>12, <1>0 DEF LoopEnds
<1>13. CASE StartRefused \/ Exit \/ Crash
  <2>1. Gone
    BY <1>13 DEF StartRefused, Exit, Crash
  <2>2. /\ phase' = "down" /\ handed' = {} /\ UNCHANGED <<row, marked>>
        /\ \A j \in Jobs : worker'[j] \in {"none", "gone"} /\ reply'[j] \notin Waiting
    BY <2>1 DEF Gone, Waiting, rows
  <2> QED
    BY <2>2, <1>0
<1>14. CASE UNCHANGED vars
  BY <1>14, <1>0 DEF vars, rows, daemon, workers
<1> QED
  BY <1>1, <1>2, <1>3, <1>4, <1>5, <1>7, <1>8, <1>9, <1>10, <1>11, <1>12, <1>13, <1>14, <1>15, <1>16, <1>17
     DEF Next, Moves, Life

\* Whom a 202 may name.
LEMMA AcceptedStep == IInv /\ [Next]_vars => AcceptedIsRecorded'
<1> SUFFICES ASSUME IInv, [Next]_vars PROVE AcceptedIsRecorded'
  OBVIOUS
<1>0. /\ row \in [Jobs -> Unfinished \cup Finished \cup {"absent", "pruned"}]
      /\ reply \in [Jobs -> Jobs \cup Waiting \cup {"none", "busy", "lost"}]
      /\ key \in [Jobs -> Keys \cup {NoKey}]
      /\ AcceptedIsRecorded /\ RequestInv
  BY DEF IInv, TypeOK
<1> USE <1>0, JobsAssumption DEF AcceptedIsRecorded, Waiting, Unfinished, Finished
<1>1. ASSUME NEW j \in Jobs, NEW k \in Keys, Request(j, k) PROVE AcceptedIsRecorded'
  BY <1>1 DEF Request, RequestInv
<1>2. ASSUME NEW j \in Jobs, Record(j) PROVE AcceptedIsRecorded'
  BY <1>2 DEF Record
<1>3. ASSUME NEW j \in Jobs, FindDuplicate(j) PROVE AcceptedIsRecorded'
  <2>1. PICK i \in Duplicates(j) :
           reply' = [reply EXCEPT ![j] = IF @ = "creating" THEN i ELSE @]
    BY <1>3 DEF FindDuplicate
  <2>2. i \in Jobs /\ key[i] = key[j] /\ row[i] \in Unfinished
    BY DEF Duplicates
  <2> QED
    BY <1>3, <2>1, <2>2 DEF FindDuplicate, rows
<1>4. ASSUME NEW j \in Jobs, RecordRefused(j) PROVE AcceptedIsRecorded'
  BY <1>4 DEF RecordRefused, rows
<1>5. ASSUME NEW j \in Jobs, Submit(j) PROVE AcceptedIsRecorded'
  BY <1>5 DEF Submit, RequestInv, rows
<1>6. ASSUME NEW j \in Jobs, Moves(j) \/ Prune(j) PROVE AcceptedIsRecorded'
  <2>1. UNCHANGED <<key, reply>>
    BY <1>6 DEF Moves, TakeJob, HandMove, MoveRefused, Starts, StartBusy, Settles, SettleBusy,
       Prune, rows
  <2>2. \A i \in Jobs : row[i] # "absent" => row'[i] # "absent"
    BY <1>6 DEF Moves, TakeJob, HandMove, MoveRefused, Starts, StartBusy, Settles, SettleBusy,
       EndsAs, Prune, rows
  <2> QED
    BY <2>1, <2>2
<1>7. ASSUME NEW j \in Jobs, Commands(j) PROVE AcceptedIsRecorded'
  BY <1>7 DEF Commands, CommandEnds, CommandStopped, RefreshRaises, SummaryStarts,
     SummaryReturns, SummaryArrives, rows
<1>8. CASE RestartPass \/ ShutdownPass
  BY <1>8 DEF RestartPass, ShutdownPass, FailUnfinished
<1>9. CASE Start \/ Serve \/ Stop \/ Halt \/ StopAccepting \/ PassFails
  BY <1>9 DEF Start, Serve, Stop, Halt, StopAccepting, PassFails, rows
<1>10. CASE LoopEnds \/ StartRefused \/ Exit \/ Crash
  <2>1. /\ UNCHANGED <<row, key>>
        /\ reply' = [j \in Jobs |-> IF reply[j] \in Waiting THEN "lost" ELSE reply[j]]
    BY <1>10 DEF LoopEnds, StartRefused, Exit, Crash, Gone, rows
  <2> QED
    BY <2>1
<1>11. CASE UNCHANGED vars
  BY <1>11 DEF vars, rows
<1> QED
  BY <1>1, <1>2, <1>3, <1>4, <1>5, <1>6, <1>7, <1>8, <1>9, <1>10, <1>11
     DEF Next, RequestPath, Life

\* One unfinished row of a deduplicated key, and one run of it.
LEMMA OneRunStep == IInv /\ [Next]_vars => OneRunPerKey'
<1> SUFFICES ASSUME IInv, [Next]_vars PROVE OneRunPerKey'
  OBVIOUS
<1>0. /\ row \in [Jobs -> Unfinished \cup Finished \cup {"absent", "pruned"}]
      /\ worker \in [Jobs -> {"none", "pooled", "starting", "command", "awaiting",
                              "ending done", "ending failed", "gone"}]
      /\ key \in [Jobs -> Keys \cup {NoKey}]
      /\ OneRunPerKey
  BY DEF IInv, TypeOK
<1>r. RequestInv
  BY DEF IInv
<1>w. WorkerInv
  BY DEF IInv
<1>a. ASSUME UNCHANGED key,
             \A i \in Jobs : row'[i] \in Unfinished => row[i] \in Unfinished,
             \A i \in Jobs : worker'[i] = "command" => worker[i] = "command"
      PROVE  OneRunPerKey'
  BY <1>0, <1>a DEF OneRunPerKey
<1>1. ASSUME NEW j \in Jobs, NEW k \in Keys, Request(j, k) PROVE OneRunPerKey'
  <2>1. /\ row[j] = "absent" /\ worker[j] = "none" /\ UNCHANGED <<row, worker>>
        /\ \A i \in Jobs \ {j} : key'[i] = key[i]
    BY <1>1, <1>0, <1>r DEF Request, RequestInv, workers
  <2>2. /\ row'[j] \notin Unfinished /\ worker'[j] # "command"
        /\ \A i \in Jobs : row'[i] = row[i] /\ worker'[i] = worker[i]
    BY <2>1 DEF Unfinished
  <2> SUFFICES ASSUME NEW a \in Jobs, NEW b \in Jobs,
                      a # b, key'[a] = key'[b], key'[a] \in Deduplicated
               PROVE  /\ ~(row'[a] \in Unfinished /\ row'[b] \in Unfinished)
                      /\ ~(worker'[a] = "command" /\ worker'[b] = "command")
    BY DEF OneRunPerKey
  <2>3. CASE a = j \/ b = j
    BY <2>2, <2>3
  <2>4. CASE a # j /\ b # j
    <3>1. key[a] = key[b] /\ key[a] \in Deduplicated
      BY <2>1, <2>4
    <3> QED
      BY <2>2, <3>1, <1>0 DEF OneRunPerKey
  <2> QED
    BY <2>3, <2>4
<1>2. ASSUME NEW j \in Jobs, Record(j) PROVE OneRunPerKey'
  <2>1. /\ worker[j] = "none" /\ row' = [row EXCEPT ![j] = "queued"]
        /\ UNCHANGED <<key, worker>>
    BY <1>2 DEF Record, CreatesRow, workers
  <2>2. key[j] \in Deduplicated => \A i \in Jobs : key[i] = key[j] => row[i] \notin Unfinished
    BY <1>2 DEF Record, Duplicates
  <2> QED
    BY <2>1, <2>2, <1>0 DEF OneRunPerKey
<1>3. ASSUME NEW j \in Jobs, FindDuplicate(j) \/ RecordRefused(j) \/ Submit(j)
      PROVE  OneRunPerKey'
  BY <1>3, <1>0, <1>a DEF FindDuplicate, RecordRefused, Submit, rows, workers
<1>4. ASSUME NEW j \in Jobs, Starts(j) PROVE OneRunPerKey'
  <2>1. phase # "closing"
    BY <1>4 DEF Starts, IInv, LifeInv
  <2>2. CASE row[j] = "queued"
    <3>1. /\ row' = [row EXCEPT ![j] = "running"] /\ worker' = [worker EXCEPT ![j] = "command"]
          /\ UNCHANGED key
      BY <1>4, <2>2 DEF Starts
    <3>2. \A i \in Jobs : worker[i] = "command" => row[i] = "running"
      BY <2>1, <1>w DEF WorkerInv
    <3>3. /\ \A i \in Jobs : row'[i] \in Unfinished => row[i] \in Unfinished
          /\ \A i \in Jobs : worker'[i] = "command" => i = j \/ row[i] = "running"
      BY <3>1, <3>2, <2>2, <1>0 DEF Unfinished
    <3>4. \A i \in Jobs \ {j} : key[i] = key[j] /\ key[i] \in Deduplicated =>
             row[i] \notin Unfinished
      BY <2>2, <1>0 DEF OneRunPerKey, Unfinished
    <3> SUFFICES ASSUME NEW a \in Jobs, NEW b \in Jobs,
                        a # b, key'[a] = key'[b], key'[a] \in Deduplicated
                 PROVE  /\ ~(row'[a] \in Unfinished /\ row'[b] \in Unfinished)
                        /\ ~(worker'[a] = "command" /\ worker'[b] = "command")
      BY DEF OneRunPerKey
    <3>5. ~(row[a] \in Unfinished /\ row[b] \in Unfinished)
          /\ ~(worker[a] = "command" /\ worker[b] = "command")
      BY <3>1, <1>0 DEF OneRunPerKey
    <3>6. worker'[a] = "command" => a = j \/ row[a] \in Unfinished
      BY <3>3 DEF Unfinished
    <3>7. worker'[b] = "command" => b = j \/ row[b] \in Unfinished
      BY <3>3 DEF Unfinished
    <3>8. key[a] = key[b] /\ key[a] \in Deduplicated
      BY <3>1
    <3> QED
      BY <3>3, <3>4, <3>5, <3>6, <3>7, <3>8
  <2>3. CASE row[j] # "queued"
    BY <1>4, <2>3, <1>0, <1>a DEF Starts, Leaves
  <2> QED
    BY <2>2, <2>3
<1>5. ASSUME NEW j \in Jobs,
             TakeJob(j) \/ HandMove(j) \/ MoveRefused(j) \/ StartBusy(j) \/ SettleBusy(j)
      PROVE  OneRunPerKey'
  BY <1>5, <1>0, <1>a DEF TakeJob, HandMove, MoveRefused, StartBusy, SettleBusy, Leaves, rows,
     workers
<1>6. ASSUME NEW j \in Jobs, Settles(j) PROVE OneRunPerKey'
  <2>1. row' = [row EXCEPT ![j] = IF @ = "running" THEN EndsAs(j) ELSE @]
    BY <1>6 DEF Settles
  <2>2. EndsAs(j) \notin Unfinished
    BY DEF EndsAs, Unfinished
  <2>3. \A i \in Jobs : row'[i] \in Unfinished => row[i] \in Unfinished
    BY <2>1, <2>2, <1>0
  <2> QED
    BY <1>6, <2>3, <1>0, <1>a DEF Settles, Leaves
<1>7. ASSUME NEW j \in Jobs, Commands(j) PROVE OneRunPerKey'
  BY <1>7, <1>0, <1>a DEF Commands, CommandEnds, CommandStopped, RefreshRaises, SummaryStarts,
     SummaryReturns, SummaryArrives, Leaves, rows
<1>8. ASSUME NEW j \in Jobs, Prune(j) PROVE OneRunPerKey'
  <2>1. \A i \in Jobs : row'[i] \in Unfinished => row[i] \in Unfinished
    BY <1>8, <1>0 DEF Prune, Unfinished
  <2> QED
    BY <1>8, <2>1, <1>a DEF Prune, workers
<1>9. CASE RestartPass \/ ShutdownPass
  <2>1. row' = FailUnfinished /\ UNCHANGED <<key, worker>>
    BY <1>9 DEF RestartPass, ShutdownPass, workers
  <2>2. \A i \in Jobs : row'[i] \in Unfinished => row[i] \in Unfinished
    BY <2>1 DEF FailUnfinished, Unfinished
  <2> QED
    BY <2>1, <2>2, <1>a
<1>10. CASE Start \/ Serve \/ Stop \/ Halt \/ LoopEnds \/ StopAccepting \/ PassFails
  <2>1. UNCHANGED <<row, key, worker>>
    BY <1>10 DEF Start, Serve, Stop, Halt, LoopEnds, StopAccepting, PassFails, rows, workers
  <2> QED
    BY <2>1, <1>a
<1>11. CASE StartRefused \/ Exit \/ Crash
  BY <1>11, <1>0, <1>a DEF StartRefused, Exit, Crash, Gone, rows
<1>12. CASE UNCHANGED vars
  BY <1>12, <1>a DEF vars, rows, workers
<1> QED
  BY <1>1, <1>2, <1>3, <1>4, <1>5, <1>6, <1>7, <1>8, <1>9, <1>10, <1>11, <1>12
     DEF Next, RequestPath, Moves, Life

\* No third way to leave a row behind.
LEMMA StrandedStep == IInv /\ [Next]_vars => NoOtherRowIsStranded'
<1> SUFFICES ASSUME IInv, [Next]_vars, phase' = "serving", ~halted',
                    NEW i \in Jobs, row'[i] \in Unfinished
             PROVE  \/ reply'[i] = "recorded" \/ worker'[i] \notin {"none", "gone"}
                    \/ row'[i] = "queued" /\ attempts'[i] >= StateAttempts
                    \/ row'[i] = "running" /\ key'[i] \in Summaries /\ worker'[i] = "gone"
  BY DEF NoOtherRowIsStranded, Held, GivenUp, Escaped, IsSummary
<1>0. /\ row \in [Jobs -> Unfinished \cup Finished \cup {"absent", "pruned"}]
      /\ worker \in [Jobs -> {"none", "pooled", "starting", "command", "awaiting",
                              "ending done", "ending failed", "gone"}]
      /\ reply \in [Jobs -> Jobs \cup Waiting \cup {"none", "busy", "lost"}]
      /\ attempts \in [Jobs -> 0..StateAttempts]
      /\ key \in [Jobs -> Keys \cup {NoKey}]
  BY DEF IInv, TypeOK
<1>r. RequestInv
  BY DEF IInv
<1>w. WorkerInv
  BY DEF IInv
<1>s. ASSUME phase = "serving", ~halted, row[i] \in Unfinished
      PROVE  \/ reply[i] = "recorded" \/ worker[i] \notin {"none", "gone"}
             \/ row[i] = "queued" /\ attempts[i] >= StateAttempts
             \/ row[i] = "running" /\ key[i] \in Summaries /\ worker[i] = "gone"
  BY <1>s DEF IInv, NoOtherRowIsStranded, Held, GivenUp, Escaped, IsSummary
<1>u. ASSUME phase = "serving", ~halted, UNCHANGED <<row, key, attempts>>,
             reply[i] = "recorded" => reply'[i] = "recorded" \/ worker'[i] = "pooled",
             worker[i] \notin {"none", "gone"} => worker'[i] \notin {"none", "gone"},
             worker[i] = "gone" => worker'[i] = "gone"
      PROVE  \/ reply'[i] = "recorded" \/ worker'[i] \notin {"none", "gone"}
             \/ row'[i] = "queued" /\ attempts'[i] >= StateAttempts
             \/ row'[i] = "running" /\ key'[i] \in Summaries /\ worker'[i] = "gone"
  BY <1>u, <1>s
<1> USE DEF Unfinished
<1>1. CASE \E j \in Jobs, k \in Keys : Request(j, k)
  <2>1. PICK j \in Jobs :
          /\ reply[j] = "none" /\ (\A m \in Jobs \ {j} : reply'[m] = reply[m])
          /\ \A m \in Jobs \ {j} : key'[m] = key[m]
          /\ UNCHANGED <<row, phase, halted, worker, attempts>>
    <3>1. PICK j \in Jobs, k \in Keys : Request(j, k)
      BY <1>1
    <3>2. /\ reply[j] = "none" /\ UNCHANGED <<row, phase, halted, worker, attempts>>
          /\ key' = [key EXCEPT ![j] = k]
      BY <3>1 DEF Request, daemon, workers
    <3>3. \A m \in Jobs \ {j} : reply'[m] = reply[m]
      BY <3>1, <1>0 DEF Request
    <3> QED
      BY <3>2, <3>3, <1>0
  <2>2. i # j
    BY <2>1, <1>r DEF RequestInv
  <2> QED
    BY <2>1, <2>2, <1>s
<1>2. CASE \E j \in Jobs : Record(j) \/ FindDuplicate(j) \/ RecordRefused(j)
  <2>1. PICK j \in Jobs : Record(j) \/ FindDuplicate(j) \/ RecordRefused(j)
    BY <1>2
  <2>a. /\ phase = "serving" /\ ~halted /\ UNCHANGED <<key, worker, attempts>>
        /\ j \in handed /\ worker[j] = "none"
    BY <2>1 DEF Record, FindDuplicate, RecordRefused, CreatesRow, rows, daemon, workers
  <2>b. reply[j] = "creating"
    BY <2>a, <1>r DEF RequestInv, LoopRuns
  <2>c. \A m \in Jobs \ {j} : reply'[m] = reply[m]
    BY <2>1, <1>0 DEF Record, FindDuplicate, RecordRefused
  <2>d. \A m \in Jobs \ {j} : row'[m] = row[m]
    BY <2>1, <1>0 DEF Record, FindDuplicate, RecordRefused, rows
  <2>2. /\ phase = "serving" /\ ~halted /\ reply[j] = "creating"
        /\ \A m \in Jobs \ {j} : reply'[m] = reply[m] /\ row'[m] = row[m]
        /\ UNCHANGED <<key, worker, attempts>>
    BY <2>a, <2>b, <2>c, <2>d
  <2>3. row'[j] \in Unfinished => reply'[j] = "recorded"
    BY <2>1, <2>2, <1>0, <1>r DEF Record, FindDuplicate, RecordRefused, CreatesRow,
       RequestInv, rows
  <2> QED
    BY <2>2, <2>3, <1>s
<1>3. CASE \E j \in Jobs : Submit(j) \/ TakeJob(j)
  <2>1. PICK j \in Jobs : Submit(j) \/ TakeJob(j)
    BY <1>3
  <2>2. worker[j] # "gone"
    BY <2>1, <1>r DEF Submit, TakeJob, RequestInv
  <2>3. phase = "serving" /\ ~halted /\ UNCHANGED <<row, key, attempts>>
    BY <2>1 DEF Submit, TakeJob, rows, daemon
  <2>4. /\ worker'[j] \in {"pooled", "starting"}
        /\ \A m \in Jobs \ {j} : worker'[m] = worker[m] /\ reply'[m] = reply[m]
        /\ reply[j] = "recorded" => reply'[j] = "recorded" \/ worker'[j] = "pooled"
    BY <2>1, <1>0 DEF Submit, TakeJob
  <2> QED
    BY <2>2, <2>3, <2>4, <1>u
<1>4. CASE \E j \in Jobs : HandMove(j) \/ MoveRefused(j) \/ SettleBusy(j)
  <2>0. UNCHANGED <<rows, daemon, reply, attempts>>
    BY <1>4 DEF HandMove, MoveRefused, SettleBusy, workers
  <2>2. phase = "serving" /\ ~halted /\ UNCHANGED <<row, key, attempts>>
    BY <2>0 DEF rows, daemon
  <2>1. /\ phase = "serving" /\ ~halted /\ UNCHANGED <<row, key, attempts>>
        /\ UNCHANGED <<reply, worker>>
    BY <1>4, <2>0, <2>2 DEF HandMove, MoveRefused, SettleBusy, Accepts, workers
  <2> QED
    BY <2>1, <1>u
<1>5. CASE \E j \in Jobs : Starts(j)
  <2>1. PICK j \in Jobs : Starts(j)
    BY <1>5
  <2>2. row[j] = "queued"
    BY <2>1, <1>w DEF Starts, WorkerInv, daemon
  <2> QED
    BY <2>1, <2>2, <1>0, <1>s DEF Starts, daemon
<1>6. CASE \E j \in Jobs : StartBusy(j)
  <2>1. PICK j \in Jobs : StartBusy(j)
    BY <1>6
  <2>2. row[j] = "queued"
    BY <2>1, <1>w DEF StartBusy, WorkerInv, daemon
  <2>3. /\ attempts'[j] >= StateAttempts \/ worker'[j] = "starting"
        /\ \A m \in Jobs \ {j} : worker'[m] = worker[m] /\ attempts'[m] = attempts[m]
        /\ UNCHANGED <<row, key, phase, halted, reply>>
    BY <2>1, <1>0 DEF StartBusy, Leaves, rows, daemon
  <2> QED
    BY <2>2, <2>3, <1>s
<1>7. CASE \E j \in Jobs : Settles(j)
  <2>1. PICK j \in Jobs : Settles(j)
    BY <1>7
  <2>2. row[j] = "running"
    BY <2>1, <1>w DEF Settles, WorkerInv, daemon
  <2> QED
    BY <2>1, <2>2, <1>0, <1>s DEF Settles, EndsAs, Leaves, daemon
<1>8. CASE \E j \in Jobs : Commands(j)
  <2>1. PICK j \in Jobs : Commands(j)
    BY <1>8
  <2>2. CASE RefreshRaises(j)
    <3>1. row[j] = "running"
      BY <2>2, <1>w DEF RefreshRaises, WorkerInv, daemon
    <3> QED
      BY <2>2, <3>1, <1>0, <1>s DEF RefreshRaises, IsSummary, Leaves, rows, daemon
  <2>3. CASE ~RefreshRaises(j)
    <3>0. UNCHANGED <<rows, daemon, reply, attempts>>
      BY <2>1, <2>3 DEF Commands, CommandEnds, CommandStopped, SummaryStarts, SummaryReturns,
         SummaryArrives
    <3>1. /\ phase = "serving" /\ ~halted /\ UNCHANGED <<row, key, attempts>>
          /\ UNCHANGED reply
      BY <3>0 DEF rows, daemon
    <3>2. /\ worker[j] \notin {"none", "gone"} => worker'[j] \notin {"none", "gone"}
          /\ worker[j] = "gone" => worker'[j] = "gone"
          /\ \A m \in Jobs \ {j} : worker'[m] = worker[m]
      BY <2>1, <2>3, <3>1, <1>0 DEF Commands, CommandEnds, CommandStopped, SummaryStarts,
         SummaryReturns, SummaryArrives, Accepts
    <3> QED
      BY <3>1, <3>2, <1>u
  <2> QED
    BY <2>2, <2>3
<1>9. CASE \E j \in Jobs : Prune(j)
  BY <1>9, <1>0, <1>s DEF Prune, daemon, workers
<1>10. CASE Serve
  BY <1>10 DEF Serve, IInv, LifeInv, rows
<1>11. CASE Life /\ ~Serve
  BY <1>11 DEF Life, Start, RestartPass, StartRefused, Stop, Halt, LoopEnds, StopAccepting,
     ShutdownPass, PassFails, Exit, Crash, Gone
<1>12. CASE UNCHANGED vars
  BY <1>12, <1>s DEF vars, rows, daemon, workers
<1> QED
  BY <1>1, <1>2, <1>3, <1>4, <1>5, <1>6, <1>7, <1>8, <1>9, <1>10, <1>11, <1>12
     DEF Next, RequestPath, Moves

\* The types, one variable or group of variables at a time.
LEMMA TypeStep == IInv /\ [Next]_vars => TypeOK'
<1> SUFFICES ASSUME IInv, [Next]_vars PROVE TypeOK'
  OBVIOUS
<1>0. TypeOK
  BY DEF IInv
<1>1. row' \in [Jobs -> Rows]
  <2>0. row \in [Jobs -> Rows] /\ FailUnfinished \in [Jobs -> Rows]
    BY <1>0 DEF TypeOK, Rows, FailUnfinished, Finished, Unfinished
  <2> USE <2>0
  <2>1. CASE UNCHANGED row
    BY <2>1
  <2>2. ASSUME NEW j \in Jobs, Record(j) \/ Starts(j) \/ Prune(j) PROVE row' \in [Jobs -> Rows]
    BY <2>2 DEF Record, Starts, Prune, Rows, Unfinished
  <2>3. ASSUME NEW j \in Jobs, Settles(j) PROVE row' \in [Jobs -> Rows]
    BY <2>3 DEF Settles, EndsAs, Rows, Finished
  <2>4. CASE RestartPass \/ ShutdownPass
    BY <2>4 DEF RestartPass, ShutdownPass
  <2> QED
    BY <2>1, <2>2, <2>3, <2>4 DEF Next, RequestPath, Moves, Commands, Life, rows, vars,
       Request, FindDuplicate, RecordRefused, Submit, TakeJob, HandMove, MoveRefused,
       StartBusy, SettleBusy, CommandEnds, CommandStopped, RefreshRaises, SummaryStarts,
       SummaryReturns, SummaryArrives, Start, Serve, StartRefused, Stop, Halt, LoopEnds,
       StopAccepting, PassFails, Exit, Crash, Gone
<1>2. key' \in [Jobs -> Keys \cup {NoKey}]
  <2>1. CASE UNCHANGED key
    BY <2>1, <1>0 DEF TypeOK
  <2>2. ASSUME NEW j \in Jobs, NEW k \in Keys, Request(j, k) PROVE key' \in [Jobs -> Keys \cup {NoKey}]
    BY <2>2, <1>0 DEF Request, TypeOK
  <2> QED
    BY <2>1, <2>2 DEF Next, RequestPath, Moves, Commands, Life, rows, vars,
       Record, FindDuplicate, RecordRefused, Submit, TakeJob, HandMove, MoveRefused,
       Starts, StartBusy, Settles, SettleBusy, CommandEnds, CommandStopped, RefreshRaises,
       SummaryStarts, SummaryReturns, SummaryArrives, Prune, Start, RestartPass, Serve,
       StartRefused, Stop, Halt, LoopEnds, StopAccepting, ShutdownPass, PassFails, Exit, Crash, Gone
<1>3. /\ phase' \in Phases /\ halted' \in BOOLEAN /\ asked' \in BOOLEAN /\ marked' \in BOOLEAN
  <2>1. phase \in Phases /\ halted \in BOOLEAN /\ asked \in BOOLEAN /\ marked \in BOOLEAN
    BY <1>0 DEF TypeOK, Phases
  <2>2. CASE Life
    BY <2>1, <2>2 DEF Phases, Life, Start, RestartPass, Serve, StartRefused, Stop, Halt,
       LoopEnds, StopAccepting, ShutdownPass, PassFails, Exit, Crash, Gone
  <2>3. CASE ~Life
    <3>1. UNCHANGED daemon
      BY <2>3 DEF Next, RequestPath, Moves, Commands, vars, Request, Record, FindDuplicate,
         RecordRefused, Submit, TakeJob, HandMove, MoveRefused, Starts, StartBusy, Settles,
         SettleBusy, CommandEnds, CommandStopped, RefreshRaises, SummaryStarts,
         SummaryReturns, SummaryArrives, Prune
    <3> QED
      BY <2>1, <3>1 DEF daemon
  <2> QED
    BY <2>2, <2>3
<1>4. lives' \in 0..MaxLives
  <2>1. lives \in 0..MaxLives /\ MaxLives \in Nat
    BY <1>0, AttemptsAssumption DEF TypeOK
  <2>2. CASE Start
    BY <2>1, <2>2 DEF Start
  <2>3. CASE UNCHANGED lives
    BY <2>1, <2>3
  <2> QED
    BY <2>2, <2>3 DEF Next, RequestPath, Moves, Commands, Life, daemon, vars,
       Request, Record, FindDuplicate, RecordRefused, Submit, TakeJob, HandMove, MoveRefused,
       Starts, StartBusy, Settles, SettleBusy, CommandEnds, CommandStopped, RefreshRaises,
       SummaryStarts, SummaryReturns, SummaryArrives, Prune, RestartPass, Serve, StartRefused,
       Stop, Halt, LoopEnds, StopAccepting, ShutdownPass, PassFails, Exit, Crash, Gone
<1>5. reply' \in [Jobs -> Replies]
  <2>0. reply \in [Jobs -> Replies]
    BY <1>0 DEF TypeOK, Replies
  <2> USE <2>0
  <2>1. CASE UNCHANGED reply
    BY <2>1
  <2>2. ASSUME NEW j \in Jobs, NEW k \in Keys, Request(j, k) PROVE reply' \in [Jobs -> Replies]
    BY <2>2 DEF Request, Replies, Waiting
  <2>3. ASSUME NEW j \in Jobs, Record(j) \/ RecordRefused(j) \/ Submit(j)
        PROVE  reply' \in [Jobs -> Replies]
    BY <2>3 DEF Record, RecordRefused, Submit, Replies, Waiting
  <2>4. ASSUME NEW j \in Jobs, FindDuplicate(j) PROVE reply' \in [Jobs -> Replies]
    <3>1. Duplicates(j) \subseteq Replies
      BY DEF Duplicates, Replies
    <3> QED
      BY <2>4, <3>1 DEF FindDuplicate
  <2>5. CASE LoopEnds \/ StartRefused \/ Exit \/ Crash
    BY <2>5 DEF LoopEnds, StartRefused, Exit, Crash, Gone, Replies
  <2> QED
    BY <2>1, <2>2, <2>3, <2>4, <2>5 DEF Next, RequestPath, Moves, Commands, Life, vars, workers,
       TakeJob, HandMove, MoveRefused, Starts, StartBusy, Settles, SettleBusy, CommandEnds,
       CommandStopped, RefreshRaises, SummaryStarts, SummaryReturns, SummaryArrives, Prune,
       Start, RestartPass, Serve, Stop, Halt, StopAccepting, ShutdownPass, PassFails
<1>6. handed' \subseteq Jobs
  <2>0. handed \subseteq Jobs
    BY <1>0 DEF TypeOK
  <2>1. CASE Life
    BY <2>0, <2>1 DEF Life, Start, RestartPass, Serve, StartRefused, Stop, Halt, LoopEnds,
       StopAccepting, ShutdownPass, PassFails, Exit, Crash, Gone
  <2>2. CASE ~Life
    BY <2>0, <2>2 DEF Next, RequestPath, Moves, Commands, vars, Request, Record, FindDuplicate,
       RecordRefused, Submit, TakeJob, HandMove, MoveRefused, Starts, StartBusy, Settles,
       SettleBusy, CommandEnds, CommandStopped, RefreshRaises, SummaryStarts,
       SummaryReturns, SummaryArrives, Prune
  <2> QED
    BY <2>1, <2>2
<1>7. worker' \in [Jobs -> Places]
  <2>0. worker \in [Jobs -> Places]
    BY <1>0 DEF TypeOK, Places
  <2> USE <2>0
  <2>1. CASE UNCHANGED worker
    BY <2>1
  <2>2. ASSUME NEW j \in Jobs, Submit(j) \/ Moves(j) PROVE worker' \in [Jobs -> Places]
    BY <2>2 DEF Submit, Moves, TakeJob, HandMove, MoveRefused, Starts, StartBusy, Settles,
       SettleBusy, Leaves, Places, workers
  <2>3. ASSUME NEW j \in Jobs, Commands(j) PROVE worker' \in [Jobs -> Places]
    BY <2>3 DEF Commands, CommandEnds, CommandStopped, RefreshRaises, SummaryStarts,
       SummaryReturns, SummaryArrives, Leaves, Places
  <2>4. CASE StartRefused \/ Exit \/ Crash
    BY <2>4 DEF StartRefused, Exit, Crash, Gone, Places
  <2> QED
    BY <2>1, <2>2, <2>3, <2>4 DEF Next, RequestPath, Life, workers, vars, Request, Record,
       FindDuplicate, RecordRefused, Prune, Start, RestartPass, Serve, Stop, Halt, LoopEnds,
       StopAccepting, ShutdownPass, PassFails
<1>8. attempts' \in [Jobs -> 0..StateAttempts]
  <2>0. attempts \in [Jobs -> 0..StateAttempts] /\ StateAttempts \in Nat
    BY <1>0, AttemptsAssumption DEF TypeOK
  <2>1. CASE UNCHANGED attempts
    BY <2>0, <2>1
  <2>2. ASSUME NEW j \in Jobs, StartBusy(j) PROVE attempts' \in [Jobs -> 0..StateAttempts]
    <3>1. attempts' = [attempts EXCEPT ![j] = attempts[j] + 1] /\ worker[j] = "starting"
      BY <2>2 DEF StartBusy
    <3>2. attempts[j] < StateAttempts /\ attempts[j] \in 0..StateAttempts
      BY <2>0, <3>1 DEF IInv, WorkerInv
    <3>3. attempts[j] + 1 \in 0..StateAttempts
      BY <2>0, <3>2
    <3> QED
      BY <2>0, <3>1, <3>3
  <2> QED
    BY <2>1, <2>2 DEF Next, RequestPath, Moves, Commands, Life, workers, vars,
       Request, Record, FindDuplicate, RecordRefused, Submit, TakeJob, HandMove, MoveRefused,
       Starts, Settles, SettleBusy, CommandEnds, CommandStopped, RefreshRaises, SummaryStarts,
       SummaryReturns, SummaryArrives, Prune, Start, RestartPass, Serve, StartRefused, Stop,
       Halt, LoopEnds, StopAccepting, ShutdownPass, PassFails, Exit, Crash, Gone
<1>9. outcome' \in [Jobs -> {"none", "pending", "arrived"}]
  <2>1. CASE UNCHANGED outcome
    BY <2>1, <1>0 DEF TypeOK
  <2>2. ASSUME NEW j \in Jobs, SummaryStarts(j) \/ SummaryArrives(j)
        PROVE  outcome' \in [Jobs -> {"none", "pending", "arrived"}]
    BY <2>2, <1>0 DEF SummaryStarts, SummaryArrives, TypeOK
  <2>3. CASE Gone
    BY <2>3 DEF Gone
  <2> QED
    BY <2>1, <2>2, <2>3 DEF Next, RequestPath, Moves, Commands, Life, workers, vars,
       Request, Record, FindDuplicate, RecordRefused, Submit, TakeJob, HandMove, MoveRefused,
       Starts, StartBusy, Settles, SettleBusy, CommandEnds, CommandStopped, RefreshRaises,
       SummaryReturns, Prune, Start, RestartPass, Serve,
       StartRefused, Stop, Halt, LoopEnds, StopAccepting, ShutdownPass, PassFails, Exit, Crash
<1> QED
  BY <1>1, <1>2, <1>3, <1>4, <1>5, <1>6, <1>7, <1>8, <1>9 DEF TypeOK, Rows, Phases, Replies, Places

-----------------------------------------------------------------------------

\* The invariant holds in every reachable state.
THEOREM Invariance == Spec => []IInv
<1>1. IInv /\ [Next]_vars => IInv'
  BY TypeStep, RequestStep, WorkerStep, LifeStep, AcceptedStep, OneRunStep, StrandedStep
     DEF IInv
<1> QED
  BY InitEstablishes, <1>1, PTL DEF Spec

\* The types, for any jobs, keys, attempts and lives: among them that a start is
\* handed over at most StateAttempts times.
THEOREM TypeCorrect == Spec => []TypeOK
<1>1. IInv => TypeOK
  BY DEF IInv
<1> QED
  BY Invariance, <1>1, PTL

\* A 202 names a job whose row was written, of the command asked for.
THEOREM RepliesAreRecorded == Spec => []AcceptedIsRecorded
<1>1. IInv => AcceptedIsRecorded
  BY DEF IInv
<1> QED
  BY Invariance, <1>1, PTL

\* At most one unfinished row and one run of a deduplicated command and scope.
THEOREM RunsAreSingle == Spec => []OneRunPerKey
<1>1. IInv => OneRunPerKey
  BY DEF IInv
<1> QED
  BY Invariance, <1>1, PTL

\* While the daemon serves, an unfinished row is held, was given up at its start,
\* or was left by a refresh that raised.
THEOREM RowsAreHeld == Spec => []NoOtherRowIsStranded
<1>1. IInv => NoOtherRowIsStranded
  BY DEF IInv
<1> QED
  BY Invariance, <1>1, PTL

\* A stop whose pass ran leaves no row unfinished.
THEOREM StopSettles == Spec => []CleanStopSettles
<1>1. IInv => CleanStopSettles
  BY DEF IInv, LifeInv
<1> QED
  BY Invariance, <1>1, PTL

\* A settled row stays as it was settled until it is pruned.
THEOREM SettledStays == Spec => SettledIsFinal
<1>1. ASSUME IInv, [Next]_vars, NEW i \in Jobs, row[i] \in Finished
      PROVE  row'[i] \in {row[i], "pruned"}
  <2>0. row \in [Jobs -> Rows] /\ RequestInv
    BY <1>1 DEF IInv, TypeOK, Rows
  <2> USE <1>1, <2>0 DEF Finished
  <2>1. CASE UNCHANGED row
    BY <2>1
  <2>2. ASSUME NEW j \in Jobs, Record(j) PROVE row'[i] = row[i]
    BY <2>2 DEF Record, CreatesRow, RequestInv
  <2>3. ASSUME NEW j \in Jobs, Starts(j) \/ Settles(j) PROVE row'[i] = row[i]
    BY <2>3 DEF Starts, Settles
  <2>4. ASSUME NEW j \in Jobs, Prune(j) PROVE row'[i] \in {row[i], "pruned"}
    BY <2>4 DEF Prune
  <2>5. CASE RestartPass \/ ShutdownPass
    BY <2>5 DEF RestartPass, ShutdownPass, FailUnfinished, Unfinished
  <2> QED
    BY <2>1, <2>2, <2>3, <2>4, <2>5 DEF Next, RequestPath, Moves, Commands, Life, rows, vars,
       Request, FindDuplicate, RecordRefused, Submit, TakeJob, HandMove, MoveRefused,
       StartBusy, SettleBusy, CommandEnds, CommandStopped, RefreshRaises, SummaryStarts,
       SummaryReturns, SummaryArrives, Start, Serve, StartRefused, Stop, Halt, LoopEnds,
       StopAccepting, PassFails, Exit, Crash, Gone
<1>2. IInv /\ [Next]_vars => [\A j \in Jobs : row[j] \in Finished => row'[j] \in {row[j], "pruned"}]_vars
  BY <1>1
<1> QED
  BY Invariance, <1>2, PTL DEF Spec, SettledIsFinal
=============================================================================
