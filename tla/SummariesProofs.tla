-------------------------- MODULE SummariesProofs --------------------------
(***************************************************************************)
(* Proofs about Summaries, for any number of jobs, timeouts and moves of   *)
(* the row.  The inductive invariant has two parts: what the version a job *)
(* read says of the row while the row is at it, and what the holder of the *)
(* lease has written so far.                                               *)
(***************************************************************************)
EXTENDS Summaries, TLAPS

States  == {"absent", "waiting", "summarized", "failed", "nothing said"}
Results == {"none", "answer", "unavailable", "timeout", "refused"}
Words   == {"not asked", "waits", "ended", "stopped", "lost"}

\* No job is ahead of the row; one that is level with it finds it waiting, and
\* is the maker the PM last asked for; a revoked one is behind it for good.
FenceInv ==
    /\ \A j \in Jobs : stage[j] \notin {"new", "done"} =>
          /\ fence[j] <= version
          /\ fence[j] = version =>
                state = "waiting" /\ (wish = "frontier" => maker[j] = "frontier")
          /\ j \in revoked => fence[j] < version
    /\ \A j \in revoked : stage[j] # "new"
    /\ holder # NoJob => state = "waiting"
    /\ wish = "frontier" => AskedOfClaude
    /\ state = "absent" => wish = "none"

\* The stages past the record, past the decisions and past the items.
PastItems     == {"matching", "matched", "settling"}
PastDecisions == {"staging"} \cup PastItems
PastRecord    == {"deciding"} \cup PastDecisions

\* The holder of the lease: the record, the decisions and the items it has come
\* past are its own.
LeaseInv ==
    /\ \A j \in Jobs : holder = j =>
          /\ stage[j] \in PastRecord => record \in {j, NoJob}
          /\ stage[j] \in PastDecisions => j \in decided
          /\ stage[j] \in PastItems => items = j
    /\ SummarizedIsWhole

IInv == TypeOK /\ FenceInv /\ LeaseInv

-----------------------------------------------------------------------------

\* The invariant holds in the initial state.
LEMMA InitEstablishes == Init => IInv
<1> SUFFICES ASSUME Init PROVE IInv
  OBVIOUS
<1> USE DEF Init
<1>1. TypeOK
  <2>3. fence \in [Jobs -> Nat] /\ maker \in [Jobs -> Makers]
    BY DEF Makers
  <2>4. stage \in [Jobs -> Stages]
    BY DEF Stages
  <2>5. /\ result \in [Jobs -> {"none", "answer", "unavailable", "timeout", "refused"}]
        /\ told \in [Jobs -> {"not asked", "waits", "ended", "stopped", "lost"}]
    OBVIOUS
  <2>6. /\ state \in {"absent", "waiting", "summarized", "failed", "nothing said"}
        /\ holder \in Jobs \cup {NoJob} /\ requested \in BOOLEAN /\ madeBy \in Makers
        /\ record \in Jobs \cup {NoJob} /\ items \in Jobs \cup {NoJob}
        /\ decided \subseteq Jobs /\ dropped \in BOOLEAN
        /\ inFlight \in Jobs \cup {NoJob} /\ stopping \in BOOLEAN /\ accepting \in BOOLEAN
        /\ wish \in Makers \cup {"none"} /\ revoked \subseteq Jobs
    BY DEF Makers
  <2>7. timeouts = 0 /\ version = 0 /\ moves = 0
    OBVIOUS
  <2> HIDE DEF Init
  <2>1. timeouts \in 0..MaxTimeouts /\ timeouts # MaxTimeouts
    BY <2>7, BoundsAssumption
  <2>2. version \in Nat /\ moves \in 0..MaxMoves
    BY <2>7, BoundsAssumption
  <2> QED
    BY <2>1, <2>2, <2>3, <2>4, <2>5, <2>6 DEF TypeOK
<1>2. FenceInv
  BY JobsAssumption DEF FenceInv
<1>3. LeaseInv
  BY JobsAssumption DEF LeaseInv, SummarizedIsWhole
<1> QED
  BY <1>1, <1>2, <1>3 DEF IInv

\* Versions: a step either leaves the row to its readers, or moves it past them.
LEMMA FenceStep == TypeOK /\ FenceInv /\ [Next]_vars => FenceInv'
<1> SUFFICES ASSUME TypeOK, FenceInv, [Next]_vars PROVE FenceInv'
  OBVIOUS
<1>0. /\ version \in Nat /\ fence \in [Jobs -> Nat]
      /\ stage \in [Jobs -> Stages] /\ maker \in [Jobs -> Makers]
      /\ revoked \subseteq Jobs /\ requested \in BOOLEAN
      /\ told \in [Jobs -> Words] /\ result \in [Jobs -> Results]
  BY DEF TypeOK, Words, Results
<1>q. ASSUME UNCHANGED <<state, version, holder, requested, madeBy, wish>>,
             revoked' \subseteq revoked,
             \A j \in Jobs : stage'[j] \notin {"new", "done"} =>
                stage[j] \notin {"new", "done"} /\ fence'[j] = fence[j] /\ maker'[j] = maker[j],
             \A j \in Jobs : stage[j] # "new" => stage'[j] # "new"
      PROVE  FenceInv'
  BY <1>q, <1>0 DEF FenceInv, AskedOfClaude
<1>m. ASSUME version' = version + 1, holder' = NoJob, state' # "absent", UNCHANGED wish,
             revoked' \subseteq revoked \cup Live,
             AskedOfClaude => AskedOfClaude',
             \A j \in Jobs : stage'[j] \notin {"new", "done"} =>
                stage[j] \notin {"new", "done"} /\ fence'[j] = fence[j] /\ maker'[j] = maker[j],
             \A j \in Jobs : stage[j] # "new" => stage'[j] # "new"
      PROVE  FenceInv'
  <2>1. \A j \in Jobs : stage'[j] \notin {"new", "done"} => fence'[j] < version'
    BY <1>m, <1>0 DEF FenceInv
  <2>2. version' \in Nat /\ \A j \in Jobs : stage'[j] \notin {"new", "done"} => fence'[j] \in Nat
    BY <1>m, <1>0
  <2>3. \A j \in revoked' : stage'[j] # "new"
    BY <1>m, <1>0 DEF FenceInv, Live
  <2>4. (wish' = "frontier" => AskedOfClaude') /\ holder' = NoJob /\ state' # "absent"
    BY <1>m DEF FenceInv
  <2> QED
    BY <2>1, <2>2, <2>3, <2>4 DEF FenceInv
<1>1. CASE Offer
  <2>1. AskedOfClaude => AskedOfClaude'
    BY <1>1 DEF Offer, AskedOfClaude
  <2> QED
    BY <1>1, <2>1, <1>m DEF Offer, Moves, Revokes, jobs
<1>2. CASE Reset
  <2>1. AskedOfClaude => AskedOfClaude'
    BY <1>2 DEF Reset, AskedOfClaude
  <2> QED
    BY <1>2, <2>1, <1>m DEF Reset, Moves, Revokes, jobs
<1>3. CASE RegionDropped \/ ModelPoolStops \/ StopAccepting
  BY <1>3, <1>q DEF RegionDropped, ModelPoolStops, StopAccepting, row, jobs, ghosts
<1>4. CASE Restarts
  BY <1>4, <1>0, <1>q DEF Restarts, row
<1>5. ASSUME NEW j \in Jobs, NEW by \in Makers, Request(j, by) PROVE FenceInv'
  <2>1. /\ version' = version + 1 /\ holder' = NoJob /\ state' = "waiting"
        /\ requested' = TRUE /\ madeBy' = by /\ wish' = by
        /\ stage[j] = "new" /\ stage'[j] = "asked" /\ maker'[j] = by /\ fence'[j] = version + 1
        /\ \A i \in Jobs \ {j} : /\ stage'[i] = stage[i] /\ maker'[i] = maker[i]
                                /\ fence'[i] = fence[i]
        /\ revoked' = revoked \cup Live
    BY <1>5, <1>0 DEF Request, Moves, Revokes
  <2>2. j \notin revoked'
    BY <2>1 DEF FenceInv, Live
  <2>3. \A i \in Jobs \ {j} : stage'[i] \notin {"new", "done"} =>
           fence'[i] < version' /\ fence'[i] \in Nat
    BY <2>1, <1>0 DEF FenceInv
  <2>4. \A i \in revoked' : stage'[i] # "new"
    BY <2>1, <2>2, <1>0 DEF FenceInv, Live
  <2>5. version' \in Nat /\ fence'[j] = version'
    BY <2>1, <1>0
  <2>6. AskedOfClaude' \/ wish' # "frontier"
    BY <2>1 DEF AskedOfClaude
  <2> QED
    BY <2>1, <2>2, <2>3, <2>4, <2>5, <2>6 DEF FenceInv
<1>6. ASSUME NEW j \in Jobs, OfferedAt(j) PROVE FenceInv'
  <2>1. wish # "frontier" /\ state = "waiting"
    BY <1>6 DEF OfferedAt, Offerable, FenceInv
  <2>2. /\ stage[j] = "new" /\ fence'[j] = version /\ UNCHANGED <<row, wish, revoked, maker>>
        /\ \A i \in Jobs \ {j} : stage'[i] = stage[i] /\ fence'[i] = fence[i]
        /\ stage'[j] = "begun"
    BY <1>6, <1>0 DEF OfferedAt, ghosts
  <2> QED
    BY <2>1, <2>2, <1>0 DEF FenceInv, AskedOfClaude, row
<1>7. ASSUME NEW j \in Jobs, Calling(j) PROVE FenceInv'
  BY <1>7, <1>0, <1>q DEF Calling, Starts, Begins, Calls, CallEnds, LooksAtTheStop, HandsOn,
     Ends, Forgets, row, ghosts
<1>8. ASSUME NEW j \in Jobs, NoSummary(j) PROVE FenceInv'
  <2>1. /\ version' = version + 1 /\ holder' = NoJob /\ state' # "absent"
        /\ UNCHANGED <<requested, madeBy, maker, wish, revoked>> /\ Forgets(j)
    BY <1>8 DEF NoSummary, SettlesUnasked, TimesOut, SettlesWithout, SettlesAs, Moves, Ends, ghosts
  <2> QED
    BY <2>1, <1>0, <1>m DEF Forgets, AskedOfClaude
<1>9. ASSUME NEW j \in Jobs, TakesLease(j) PROVE FenceInv'
  <2>1. fence[j] = version /\ stage[j] = "leasing"
    BY <1>9 DEF TakesLease, AtFence
  <2>2. state = "waiting" /\ j \notin revoked /\ (wish = "frontier" => maker[j] = "frontier")
    BY <2>1, <1>0 DEF FenceInv
  <2>3. /\ version' = version + 1 /\ fence'[j] = version + 1 /\ stage'[j] = "recording"
        /\ UNCHANGED <<state, requested, madeBy, maker, wish, revoked>>
        /\ \A i \in Jobs \ {j} : stage'[i] = stage[i] /\ fence'[i] = fence[i]
    BY <1>9, <1>0 DEF TakesLease, ghosts
  <2>4. \A i \in Jobs \ {j} : stage'[i] \notin {"new", "done"} =>
           fence'[i] < version' /\ fence'[i] \in Nat
    BY <2>3, <1>0 DEF FenceInv
  <2> QED
    BY <2>2, <2>3, <2>4, <1>0 DEF FenceInv, AskedOfClaude
<1>10. ASSUME NEW j \in Jobs, PutsSummary(j) \/ PersistsDecisions(j) \/ StagesItems(j)
                              \/ Matches(j) \/ AfterMatch(j)
       PROVE  FenceInv'
  BY <1>10, <1>0, <1>q DEF PutsSummary, PersistsDecisions, StagesItems, Matches, AfterMatch,
     Ends, Forgets, row, ghosts
<1>11. ASSUME NEW j \in Jobs, Settles(j) PROVE FenceInv'
  <2>1. AskedOfClaude => AskedOfClaude'
    BY <1>11 DEF Settles, AskedOfClaude
  <2>2. /\ version' = version + 1 /\ holder' = NoJob /\ state' # "absent"
        /\ UNCHANGED <<maker, wish, revoked>> /\ Forgets(j)
    BY <1>11 DEF Settles, Moves, Ends, ghosts
  <2> QED
    BY <2>1, <2>2, <1>0, <1>m DEF Forgets
<1>12. ASSUME NEW j \in Jobs, LosesLease(j) \/ LeavesRow(j) PROVE FenceInv'
  BY <1>12, <1>0, <1>q DEF LosesLease, LeavesRow, Ends, Forgets, row, ghosts
<1>13. ASSUME NEW j \in Jobs, BreaksUnexpectedly(j) PROVE FenceInv'
  <2>1. UNCHANGED <<requested, madeBy, maker, wish, revoked>> /\ Forgets(j)
    BY <1>13 DEF BreaksUnexpectedly, SettlesAs, Ends, row, ghosts
  <2>2. CASE SettlesAs(j, "failed")
    BY <2>1, <2>2, <1>0, <1>m DEF SettlesAs, Moves, Forgets, AskedOfClaude
  <2>3. CASE UNCHANGED row
    BY <2>1, <2>3, <1>0, <1>q DEF Forgets, row
  <2> QED
    BY <1>13, <2>2, <2>3 DEF BreaksUnexpectedly
<1>14. CASE UNCHANGED vars
  BY <1>14, <1>q DEF vars, row, jobs, ghosts
<1> QED
  BY <1>1, <1>2, <1>3, <1>4, <1>5, <1>6, <1>7, <1>8, <1>9, <1>10, <1>11, <1>12, <1>13, <1>14
     DEF Next, Job, Writes, GivesUp

\* Outputs: only the holder of the lease writes them, in their order, and the row
\* is summarized from its last stage only.
LEMMA LeaseStep == TypeOK /\ FenceInv /\ LeaseInv /\ [Next]_vars => LeaseInv'
<1> SUFFICES ASSUME TypeOK, FenceInv, LeaseInv, [Next]_vars PROVE LeaseInv'
  OBVIOUS
<1>0. stage \in [Jobs -> Stages] /\ NoJob \notin Jobs /\ holder \in Jobs \cup {NoJob}
  BY JobsAssumption DEF TypeOK
<1>w. holder # NoJob => state = "waiting"
  BY DEF FenceInv
<1>q. ASSUME holder' \in {holder, NoJob},
             UNCHANGED <<decided, items>>, record' \in {record, NoJob},
             state' = "summarized" => state = "summarized",
             \A j \in Jobs : /\ stage'[j] \in PastRecord => stage[j] \in PastRecord
                             /\ stage'[j] \in PastDecisions => stage[j] \in PastDecisions
                             /\ stage'[j] \in PastItems => stage[j] \in PastItems
      PROVE  LeaseInv'
  <2>1. \A j \in Jobs : holder' = j =>
          /\ stage'[j] \in PastRecord => record' \in {j, NoJob}
          /\ stage'[j] \in PastDecisions => j \in decided'
          /\ stage'[j] \in PastItems => items' = j
    BY <1>q, <1>0 DEF LeaseInv
  <2>2. SummarizedIsWhole'
    BY <1>q DEF LeaseInv, SummarizedIsWhole
  <2> QED
    BY <2>1, <2>2 DEF LeaseInv
<1>l. ASSUME NEW j \in Jobs, holder' = j, UNCHANGED state, state = "waiting",
             stage'[j] \in PastRecord => record' \in {j, NoJob},
             stage'[j] \in PastDecisions => j \in decided',
             stage'[j] \in PastItems => items' = j
      PROVE  LeaseInv'
  BY <1>l DEF LeaseInv, SummarizedIsWhole
<1>1. CASE Offer \/ RegionDropped \/ Reset \/ ModelPoolStops \/ StopAccepting
  BY <1>1, <1>q DEF Offer, RegionDropped, Reset, ModelPoolStops, StopAccepting, Moves, row,
     outputs, jobs
<1>2. CASE Restarts
  BY <1>2, <1>0, <1>q DEF Restarts, row, PastItems, PastDecisions, PastRecord
<1>3. ASSUME NEW j \in Jobs, NEW by \in Makers, Request(j, by) PROVE LeaseInv'
  BY <1>3, <1>0, <1>q DEF Request, Moves, outputs, PastItems, PastDecisions, PastRecord
<1>4. ASSUME NEW j \in Jobs, OfferedAt(j) PROVE LeaseInv'
  BY <1>4, <1>0, <1>q DEF OfferedAt, row, outputs, PastItems, PastDecisions, PastRecord
<1>5. ASSUME NEW j \in Jobs, Calling(j) PROVE LeaseInv'
  BY <1>5, <1>0, <1>q DEF Calling, Starts, Begins, Calls, CallEnds, LooksAtTheStop, HandsOn,
     Ends, Forgets, row, outputs, PastItems, PastDecisions, PastRecord
<1>6. ASSUME NEW j \in Jobs, NoSummary(j) PROVE LeaseInv'
  <2>1. holder' = NoJob /\ state' # "summarized" /\ UNCHANGED outputs /\ Forgets(j)
    BY <1>6 DEF NoSummary, SettlesUnasked, TimesOut, SettlesWithout, SettlesAs, Moves, Ends
  <2> QED
    BY <2>1, <1>0, <1>q DEF Forgets, outputs, PastItems, PastDecisions, PastRecord
<1>7. ASSUME NEW j \in Jobs, TakesLease(j) PROVE LeaseInv'
  <2>1. state = "waiting"
    BY <1>7, <1>0 DEF TakesLease, AtFence, FenceInv
  <2>2. holder' = j /\ UNCHANGED state /\ stage'[j] = "recording"
    BY <1>7, <1>0 DEF TakesLease
  <2> QED
    BY <2>1, <2>2, <1>l DEF PastItems, PastDecisions, PastRecord
<1>8. ASSUME NEW j \in Jobs, PutsSummary(j) PROVE LeaseInv'
  <2>1. holder = j
    BY <1>8 DEF PutsSummary, AtFence
  <2>2. UNCHANGED <<state, holder>> /\ record' = j /\ stage'[j] = "deciding"
    BY <1>8, <1>0 DEF PutsSummary, row
  <2> QED
    BY <2>1, <2>2, <1>0, <1>w, <1>l DEF PastItems, PastDecisions
<1>9. ASSUME NEW j \in Jobs, PersistsDecisions(j) PROVE LeaseInv'
  <2>1. holder = j /\ stage[j] \in PastRecord
    BY <1>9 DEF PersistsDecisions, AtFence, PastRecord
  <2>2. UNCHANGED <<state, holder, record>> /\ j \in decided' /\ stage'[j] = "staging"
    BY <1>9, <1>0 DEF PersistsDecisions, row
  <2> QED
    BY <2>1, <2>2, <1>0, <1>w, <1>l DEF LeaseInv, PastItems
<1>10. ASSUME NEW j \in Jobs, StagesItems(j) PROVE LeaseInv'
  <2>1. holder = j /\ stage[j] \in PastRecord /\ stage[j] \in PastDecisions
    BY <1>10 DEF StagesItems, AtFence, PastRecord, PastDecisions
  <2>2. UNCHANGED <<state, holder, record, decided>> /\ items' = j
    BY <1>10 DEF StagesItems, row
  <2> QED
    BY <2>1, <2>2, <1>0, <1>w, <1>l DEF LeaseInv
<1>11. ASSUME NEW j \in Jobs, Matches(j) \/ AfterMatch(j) PROVE LeaseInv'
  BY <1>11, <1>0, <1>q DEF Matches, AfterMatch, Ends, Forgets, row, outputs,
     PastItems, PastDecisions, PastRecord
<1>12. ASSUME NEW j \in Jobs, Settles(j) PROVE LeaseInv'
  <2>1. holder = j /\ stage[j] = "settling"
    BY <1>12 DEF Settles, AtFence
  <2>2. record \in {j, NoJob} /\ j \in decided /\ items = j
    BY <2>1 DEF LeaseInv, PastItems, PastDecisions, PastRecord
  <2>3. UNCHANGED <<record, decided, items>> /\ holder' = NoJob
    BY <1>12 DEF Settles, Moves, outputs
  <2> QED
    BY <2>2, <2>3, <1>0 DEF LeaseInv, SummarizedIsWhole
<1>13. ASSUME NEW j \in Jobs, LosesLease(j) \/ LeavesRow(j) \/ BreaksUnexpectedly(j) PROVE LeaseInv'
  <2>1. /\ holder' \in {holder, NoJob} /\ (state' = "summarized" => state = "summarized")
        /\ UNCHANGED outputs /\ Forgets(j)
    BY <1>13 DEF LosesLease, LeavesRow, BreaksUnexpectedly, SettlesAs, Moves, Ends, row
  <2> QED
    BY <2>1, <1>0, <1>q DEF Forgets, outputs, PastItems, PastDecisions, PastRecord
<1>14. CASE UNCHANGED vars
  BY <1>14, <1>q DEF vars, row, outputs, jobs
<1> QED
  BY <1>1, <1>2, <1>3, <1>4, <1>5, <1>6, <1>7, <1>8, <1>9, <1>10, <1>11, <1>12, <1>13, <1>14
     DEF Next, Job, Writes, GivesUp

\* The parts of TypeOK, as the model groups its variables.
RowOK ==
    /\ state \in States /\ version \in Nat /\ holder \in Jobs \cup {NoJob}
    /\ requested \in BOOLEAN /\ madeBy \in Makers
    /\ timeouts \in 0..MaxTimeouts
    /\ timeouts = MaxTimeouts => state = "failed"

OutputsOK ==
    /\ record \in Jobs \cup {NoJob} /\ items \in Jobs \cup {NoJob}
    /\ decided \subseteq Jobs /\ dropped \in BOOLEAN

JobsOK ==
    /\ stage \in [Jobs -> Stages] /\ maker \in [Jobs -> Makers] /\ fence \in [Jobs -> Nat]
    /\ result \in [Jobs -> Results] /\ told \in [Jobs -> Words]
    /\ inFlight \in Jobs \cup {NoJob}

PoolsOK == stopping \in BOOLEAN /\ accepting \in BOOLEAN

GhostsOK == wish \in Makers \cup {"none"} /\ revoked \subseteq Jobs /\ moves \in 0..MaxMoves

\* Types: only the count of timeouts needs the fence, since a call that timed
\* out, or an offer that broke, finds the row waiting.
LEMMA TypeStep == TypeOK /\ FenceInv /\ [Next]_vars => TypeOK'
<1> SUFFICES ASSUME TypeOK, FenceInv, [Next]_vars PROVE TypeOK'
  OBVIOUS
<1>0. RowOK /\ OutputsOK /\ JobsOK /\ PoolsOK /\ GhostsOK
  BY DEF TypeOK, RowOK, OutputsOK, JobsOK, PoolsOK, GhostsOK, States, Words, Results
<1>t. RowOK' /\ OutputsOK' /\ JobsOK' /\ PoolsOK' /\ GhostsOK' => TypeOK'
  BY DEF TypeOK, RowOK, OutputsOK, JobsOK, PoolsOK, GhostsOK, States, Words, Results
<1>b. MaxTimeouts \in Nat /\ MaxTimeouts # 0 /\ MaxMoves \in Nat
  BY BoundsAssumption
<1>f. \A j \in Jobs : stage[j] \notin {"new", "done"} /\ AtFence(j) => timeouts # MaxTimeouts
  BY <1>0 DEF FenceInv, AtFence, RowOK
<1>r. UNCHANGED row => RowOK'
  BY <1>0 DEF RowOK, row
<1>o. UNCHANGED outputs => OutputsOK'
  BY <1>0 DEF OutputsOK, outputs
<1>j. UNCHANGED jobs => JobsOK'
  BY <1>0 DEF JobsOK, jobs
<1>p. UNCHANGED pools => PoolsOK'
  BY <1>0 DEF PoolsOK, pools
<1>g. UNCHANGED ghosts => GhostsOK'
  BY <1>0 DEF GhostsOK, ghosts
<1>m. ASSUME NEW to \in States, Moves(to), requested' \in BOOLEAN, madeBy' \in Makers,
             timeouts' \in 0..MaxTimeouts, timeouts' = MaxTimeouts => to = "failed"
      PROVE  RowOK'
  <2>1. version' \in Nat
    BY <1>m, <1>0 DEF Moves, RowOK
  <2> QED
    BY <1>m, <2>1 DEF Moves, RowOK
<1>z. 0 \in 0..MaxTimeouts /\ 0 # MaxTimeouts
  BY <1>b
<1>s. ASSUME NEW j \in Jobs, NEW at \in Stages, stage' = [stage EXCEPT ![j] = at],
             UNCHANGED <<maker, fence, result, inFlight, told>>
      PROVE  JobsOK'
  BY <1>s, <1>0 DEF JobsOK
<1>e. ASSUME NEW j \in Jobs, NEW word \in Words, Ends(j, word), UNCHANGED maker
      PROVE  JobsOK'
  <2>1. "done" \in Stages /\ "none" \in Results /\ 0 \in Nat
    BY DEF Stages, Results
  <2>2. stage' \in [Jobs -> Stages] /\ fence' \in [Jobs -> Nat] /\ result' \in [Jobs -> Results]
    BY <1>e, <2>1, <1>0 DEF JobsOK, Ends, Forgets
  <2>3. told' \in [Jobs -> Words]
    BY <1>e, <1>0 DEF JobsOK, Ends
  <2>4. inFlight' \in Jobs \cup {NoJob} /\ maker' \in [Jobs -> Makers]
    BY <1>e, <1>0 DEF JobsOK, Ends
  <2> QED
    BY <2>2, <2>3, <2>4 DEF JobsOK
<1>i. /\ "ended" \in Words /\ "stopped" \in Words
      /\ {"waiting", "failed", "summarized", "nothing said"} \subseteq States
  BY DEF Words, States
<1>k. /\ {"asked", "begun", "queued", "calling", "called", "cleared", "leasing"} \subseteq Stages
      /\ {"recording", "deciding", "staging", "settling", "matching", "matched"} \subseteq Stages
  BY DEF Stages, Writing
<1>v. ASSUME moves < MaxMoves, moves' = moves + 1, UNCHANGED wish, Revokes PROVE GhostsOK'
  <2>1. moves' \in 0..MaxMoves
    BY <1>v, <1>0, <1>b DEF GhostsOK
  <2> QED
    BY <1>v, <2>1, <1>0 DEF GhostsOK, Revokes, Live
<1>1. CASE Offer
  <2>1. RowOK'
    BY <1>1, <1>0, <1>m, <1>z, <1>i DEF Offer, RowOK
  <2> QED
    BY <1>1, <2>1, <1>o, <1>j, <1>p, <1>v, <1>t DEF Offer
<1>2. CASE Reset
  <2>1. AskedOfClaude \in BOOLEAN
    BY DEF AskedOfClaude
  <2>2. RowOK'
    BY <1>2, <2>1, <1>m, <1>z, <1>i DEF Reset, Makers
  <2>3. OutputsOK'
    BY <1>2, <1>0 DEF Reset, OutputsOK
  <2> QED
    BY <1>2, <2>2, <2>3, <1>j, <1>p, <1>v, <1>t DEF Reset
<1>3. CASE RegionDropped
  <2>1. OutputsOK'
    BY <1>3, <1>0 DEF RegionDropped, OutputsOK
  <2> QED
    BY <1>3, <2>1, <1>r, <1>j, <1>p, <1>g, <1>t DEF RegionDropped
<1>4. CASE ModelPoolStops \/ StopAccepting
  <2>1. PoolsOK'
    BY <1>4, <1>0 DEF ModelPoolStops, StopAccepting, PoolsOK
  <2> QED
    BY <1>4, <2>1, <1>r, <1>o, <1>j, <1>g, <1>t DEF ModelPoolStops, StopAccepting
<1>5. CASE Restarts
  <2>1. stage' \in [Jobs -> Stages] /\ maker' \in [Jobs -> Makers]
    BY <1>5, <1>0 DEF Restarts, JobsOK, Stages
  <2>2. fence' \in [Jobs -> Nat] /\ result' \in [Jobs -> Results] /\ inFlight' \in Jobs \cup {NoJob}
    BY <1>5 DEF Restarts, Results
  <2>3. told' \in [Jobs -> Words]
    BY <1>5, <1>0 DEF Restarts, JobsOK, Words
  <2>4. OutputsOK' /\ PoolsOK' /\ GhostsOK'
    BY <1>5, <1>0 DEF Restarts, OutputsOK, PoolsOK, GhostsOK
  <2> QED
    BY <1>5, <2>1, <2>2, <2>3, <2>4, <1>r, <1>t DEF Restarts, JobsOK
<1>6. ASSUME NEW j \in Jobs, NEW by \in Makers, Request(j, by) PROVE TypeOK'
  <2>1. RowOK'
    BY <1>6, <1>m, <1>z, <1>i DEF Request
  <2>2. version + 1 \in Nat /\ "asked" \in Stages /\ "waits" \in Words
    BY <1>0 DEF RowOK, Stages, Words
  <2>3. JobsOK'
    BY <1>6, <2>2, <1>0 DEF Request, JobsOK
  <2>4. GhostsOK'
    BY <1>6, <1>0 DEF Request, GhostsOK, Revokes, Live
  <2> QED
    BY <1>6, <2>1, <2>3, <2>4, <1>o, <1>p, <1>t DEF Request
<1>7. ASSUME NEW j \in Jobs, OfferedAt(j) PROVE TypeOK'
  <2>1. JobsOK'
    BY <1>7, <1>0, <1>k DEF OfferedAt, JobsOK, RowOK
  <2> QED
    BY <1>7, <2>1, <1>r, <1>o, <1>p, <1>g, <1>t DEF OfferedAt
<1>8. ASSUME NEW j \in Jobs, Calling(j) PROVE TypeOK'
  <2>1. JobsOK' /\ UNCHANGED <<row, outputs, pools, ghosts>>
    <3>1. CASE Begins(j)
      BY <3>1, <1>s, <1>e, <1>k, <1>i DEF Begins
    <3>2. CASE Calls(j) \/ HandsOn(j)
      BY <3>2, <1>s, <1>k DEF Calls, HandsOn
    <3>3. CASE LooksAtTheStop(j)
      BY <3>3, <1>s, <1>e, <1>k, <1>i DEF LooksAtTheStop
    <3>4. CASE CallEnds(j)
      BY <3>4, <1>0, <1>k DEF CallEnds, JobsOK, Results
    <3>5. CASE Starts(j)
      BY <3>5, <1>0, <1>k DEF Starts, JobsOK
    <3> QED
      BY <1>8, <3>1, <3>2, <3>3, <3>4, <3>5 DEF Calling
  <2> QED
    BY <2>1, <1>r, <1>o, <1>p, <1>g, <1>t
<1>9. ASSUME NEW j \in Jobs, TimesOut(j) PROVE TypeOK'
  <2>1. timeouts # MaxTimeouts
    BY <1>9, <1>f DEF TimesOut
  <2>2. timeouts' \in 0..MaxTimeouts /\ (timeouts' = MaxTimeouts => timeouts + 1 >= MaxTimeouts)
    BY <1>9, <2>1, <1>0, <1>b DEF TimesOut, RowOK
  <2>3. RowOK'
    BY <1>9, <2>2, <1>0, <1>m, <1>i DEF TimesOut, RowOK
  <2> QED
    BY <1>9, <2>3, <1>e, <1>i, <1>o, <1>p, <1>g, <1>t DEF TimesOut
<1>10. ASSUME NEW j \in Jobs, SettlesUnasked(j) \/ SettlesWithout(j) PROVE TypeOK'
  <2>1. timeouts # MaxTimeouts
    BY <1>10, <1>f DEF SettlesUnasked, SettlesWithout, AtFence
  <2>2. \E to \in States : SettlesAs(j, to)
    BY <1>10, <1>i DEF SettlesUnasked, SettlesWithout
  <2>3. RowOK'
    BY <2>1, <2>2, <1>0, <1>m, <1>z DEF SettlesAs, RowOK
  <2> QED
    BY <1>10, <2>3, <1>e, <1>i, <1>o, <1>p, <1>g, <1>t DEF SettlesUnasked, SettlesWithout
<1>11. ASSUME NEW j \in Jobs, TakesLease(j) PROVE TypeOK'
  <2>1. timeouts # MaxTimeouts
    BY <1>11, <1>f DEF TakesLease
  <2>2. version + 1 \in Nat
    BY <1>0 DEF RowOK
  <2>3. RowOK'
    BY <1>11, <2>1, <2>2, <1>0 DEF TakesLease, RowOK
  <2>4. JobsOK'
    BY <1>11, <2>2, <1>0, <1>k DEF TakesLease, JobsOK
  <2> QED
    BY <1>11, <2>3, <2>4, <1>o, <1>p, <1>g, <1>t DEF TakesLease
<1>12. ASSUME NEW j \in Jobs, PutsSummary(j) \/ PersistsDecisions(j) PROVE TypeOK'
  <2>1. OutputsOK'
    BY <1>12, <1>0 DEF PutsSummary, PersistsDecisions, OutputsOK
  <2>2. JobsOK'
    BY <1>12, <1>s, <1>k DEF PutsSummary, PersistsDecisions
  <2> QED
    BY <1>12, <2>1, <2>2, <1>r, <1>p, <1>g, <1>t DEF PutsSummary, PersistsDecisions
<1>13. ASSUME NEW j \in Jobs, StagesItems(j) PROVE TypeOK'
  <2>1. OutputsOK'
    BY <1>13, <1>0 DEF StagesItems, OutputsOK
  <2>2. told' \in [Jobs -> Words]
    BY <1>13, <1>0, <1>i DEF StagesItems, JobsOK
  <2>3. stage' \in [Jobs -> Stages]
    BY <1>13, <1>0, <1>k DEF StagesItems, JobsOK
  <2>4. JobsOK'
    BY <1>13, <2>2, <2>3, <1>0 DEF StagesItems, JobsOK
  <2> QED
    BY <1>13, <2>1, <2>4, <1>r, <1>p, <1>g, <1>t DEF StagesItems
<1>14. ASSUME NEW j \in Jobs, Matches(j) PROVE TypeOK'
  BY <1>14, <1>s, <1>k, <1>r, <1>o, <1>p, <1>g, <1>t DEF Matches
<1>15. ASSUME NEW j \in Jobs, AfterMatch(j) PROVE TypeOK'
  BY <1>15, <1>s, <1>e, <1>k, <1>i, <1>r, <1>o, <1>p, <1>g, <1>t DEF AfterMatch
<1>16. ASSUME NEW j \in Jobs, Settles(j) PROVE TypeOK'
  <2>1. RowOK'
    BY <1>16, <1>0, <1>m, <1>z, <1>i DEF Settles, RowOK, Makers
  <2> QED
    BY <1>16, <2>1, <1>e, <1>i, <1>o, <1>p, <1>g, <1>t DEF Settles
<1>17. ASSUME NEW j \in Jobs, LosesLease(j) \/ LeavesRow(j) PROVE TypeOK'
  BY <1>17, <1>e, <1>i, <1>r, <1>o, <1>p, <1>g, <1>t DEF LosesLease, LeavesRow
<1>18. ASSUME NEW j \in Jobs, BreaksUnexpectedly(j) PROVE TypeOK'
  <2>1. ASSUME SettlesAs(j, "failed") PROVE RowOK'
    BY <2>1, <1>0, <1>m, <1>i DEF SettlesAs, RowOK
  <2>2. RowOK'
    BY <1>18, <2>1, <1>r DEF BreaksUnexpectedly
  <2> QED
    BY <1>18, <2>2, <1>e, <1>i, <1>o, <1>p, <1>g, <1>t DEF BreaksUnexpectedly
<1>19. CASE UNCHANGED vars
  BY <1>19, <1>r, <1>o, <1>j, <1>p, <1>g, <1>t DEF vars
<1> QED
  BY <1>1, <1>2, <1>3, <1>4, <1>5, <1>6, <1>7, <1>8, <1>9, <1>10, <1>11, <1>12, <1>13, <1>14,
     <1>15, <1>16, <1>17, <1>18, <1>19 DEF Next, Job, NoSummary, Writes, GivesUp

-----------------------------------------------------------------------------

\* The invariant of Summaries, for any jobs, timeouts and moves of the row.
THEOREM Invariance == Spec => []IInv
<1>1. IInv /\ [Next]_vars => IInv'
  BY TypeStep, FenceStep, LeaseStep DEF IInv
<1> QED
  BY InitEstablishes, <1>1, PTL DEF Spec

\* The types, for any constants: among them that a row out of timeouts has failed.
THEOREM TypeCorrect == Spec => []TypeOK
<1>1. IInv => TypeOK
  BY DEF IInv
<1> QED
  BY Invariance, <1>1, PTL

\* A summarized row is of one job's record, decisions and items.
THEOREM SummariesAreWhole == Spec => []SummarizedIsWhole
<1>1. IInv => SummarizedIsWhole
  BY DEF IInv, LeaseInv
<1> QED
  BY Invariance, <1>1, PTL

\* A lease is taken, and an output changed to a job's, at the fence of that job.
LEMMA WritesAreFenced ==
    TypeOK /\ [Next]_vars =>
        \A j \in Jobs :
            \/ record' = j /\ record # j
            \/ items' = j /\ items # j
            \/ holder' = j /\ holder # j
            \/ j \in decided' /\ j \notin decided
            => stage[j] \notin {"new", "done"} /\ AtFence(j)
<1> SUFFICES ASSUME TypeOK, [Next]_vars, NEW j \in Jobs,
                    \/ record' = j /\ record # j
                    \/ items' = j /\ items # j
                    \/ holder' = j /\ holder # j
                    \/ j \in decided' /\ j \notin decided
             PROVE  stage[j] \notin {"new", "done"} /\ AtFence(j)
  OBVIOUS
<1>0. j # NoJob
  BY JobsAssumption
<1>1. ASSUME NEW i \in Jobs,
             TakesLease(i) \/ PutsSummary(i) \/ PersistsDecisions(i) \/ StagesItems(i)
      PROVE  stage[j] \notin {"new", "done"} /\ AtFence(j)
  BY <1>1 DEF TakesLease, PutsSummary, PersistsDecisions, StagesItems, row, outputs
<1>2. ASSUME UNCHANGED <<decided, items>>, record' \in {record, NoJob}, holder' \in {holder, NoJob}
      PROVE  FALSE
  BY <1>0, <1>2
<1>3. CASE Offer \/ RegionDropped \/ Reset \/ ModelPoolStops \/ StopAccepting \/ Restarts
  BY <1>3, <1>2 DEF Offer, RegionDropped, Reset, ModelPoolStops, StopAccepting, Restarts, Moves,
     row, outputs
<1>4. ASSUME NEW i \in Jobs, (\E by \in Makers : Request(i, by)) \/ OfferedAt(i) PROVE FALSE
  BY <1>4, <1>2 DEF Request, OfferedAt, Moves, row, outputs
<1>5. ASSUME NEW i \in Jobs, Calling(i) PROVE FALSE
  BY <1>5, <1>2 DEF Calling, Starts, Begins, Calls, CallEnds, LooksAtTheStop, HandsOn, row, outputs
<1>6. ASSUME NEW i \in Jobs, NoSummary(i) PROVE FALSE
  BY <1>6, <1>2 DEF NoSummary, SettlesUnasked, TimesOut, SettlesWithout, SettlesAs, Moves, outputs
<1>7. ASSUME NEW i \in Jobs, Matches(i) \/ AfterMatch(i) \/ Settles(i) PROVE FALSE
  BY <1>7, <1>2 DEF Matches, AfterMatch, Settles, Moves, row, outputs
<1>8. ASSUME NEW i \in Jobs, GivesUp(i) PROVE FALSE
  BY <1>8, <1>2 DEF GivesUp, LosesLease, LeavesRow, BreaksUnexpectedly, SettlesAs, Moves,
     row, outputs
<1>9. CASE UNCHANGED vars
  BY <1>9, <1>2 DEF vars, row, outputs
<1> QED
  BY <1>1, <1>3, <1>4, <1>5, <1>6, <1>7, <1>8, <1>9 DEF Next, Job, Writes

\* A revoked job is behind the row for good, so it writes nothing more.
THEOREM RevokedIsFenced == Spec => RevokedNeverWrites
<1>1. ASSUME IInv, [Next]_vars, NEW j \in revoked
      PROVE  /\ record' = j => record = j
             /\ items' = j => items = j
             /\ holder' = j => holder = j
             /\ j \in decided' => j \in decided
  <2>1. j \in Jobs
    BY <1>1 DEF IInv, TypeOK
  <2>2. stage[j] \notin {"new", "done"} => ~AtFence(j)
    <3>1. version \in Nat /\ fence[j] \in Nat
      BY <1>1, <2>1 DEF IInv, TypeOK
    <3> QED
      BY <1>1, <2>1, <3>1 DEF IInv, FenceInv, AtFence
  <2> QED
    BY <1>1, <2>1, <2>2, WritesAreFenced DEF IInv
<1>2. IInv /\ [Next]_vars =>
          \A j \in revoked :
             /\ record' = j => record = j
             /\ items' = j => items = j
             /\ holder' = j => holder = j
             /\ j \in decided' => j \in decided
  BY <1>1
<1> QED
  BY Invariance, <1>2, PTL DEF Spec, RevokedNeverWrites

\* What the PM last asked Claude for is written by a job of Claude only: a job
\* level with the row has the maker the PM last asked for.
THEOREM ClaudeIsKept == Spec => ClaudeIsNotReplacedUnasked
<1>1. ASSUME IInv, [Next]_vars, wish = "frontier", record' # record, record' # NoJob
      PROVE  maker[record'] = "frontier"
  <2>1. TypeOK' /\ TypeOK
    BY <1>1, TypeStep DEF IInv
  <2>2. record' \in Jobs
    BY <1>1, <2>1 DEF TypeOK
  <2>3. stage[record'] \notin {"new", "done"} /\ AtFence(record')
    BY <1>1, <2>1, <2>2, WritesAreFenced
  <2> QED
    BY <1>1, <2>2, <2>3 DEF IInv, FenceInv, AtFence
<1> QED
  BY Invariance, <1>1, PTL DEF Spec, ClaudeIsNotReplacedUnasked
=============================================================================
