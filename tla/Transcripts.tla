---------------------------- MODULE Transcripts ----------------------------
(***************************************************************************)
(* The parts of one calendar meeting's transcript: the listing a Graph     *)
(* source answers from (_Run._match in graph_transcripts.py), the run that *)
(* asks it and stores what it answers (core/transcript_acquisition.py),    *)
(* what StorageService keeps of them, and the ingestion of each stored     *)
(* part (ingest_captures in app/pipelines.py).                             *)
(*                                                                         *)
(* A part is stored in three writes: its row, its capture, its row's mark. *)
(* Each may fail, and the run may end anywhere: the daemon is killed, or   *)
(* the harvest abandons the run's thread, whose writes are refused from    *)
(* then on.  The next run repairs what was left.                           *)
(***************************************************************************)
EXTENDS Naturals

CONSTANTS N,           \* the meeting's transcripts are 1..N, by when they were created
          Clashes,     \* which of them overlap: sets of two
          Unreadable,  \* which of them cannot be ingested
          MaxIngestAttempts,
          MaxFaults    \* bound: how many writes fail, and how often a run is cut off

X     == 1..N
Parts == 1..N

ASSUME TranscriptsAssumption ==
    /\ N \in Nat /\ MaxIngestAttempts \in Nat \ {0} /\ MaxFaults \in Nat
    /\ Clashes \subseteq SUBSET X /\ Unreadable \subseteq X

VARIABLES
    listed,     \* what the provider's listing says of each transcript
    over,       \* the placement window has ended
    rows,       \* transcript_parts: the rows, by part
    disk,       \* the captures, by part
    state,      \* transcript_state: the meeting's row
    attempts,   \* transcript_ingest_attempts
    asked,      \* transcript_part_asks holds a run begun after the window
    run,        \* the run: where it is, and what it holds
    faults,     \* how many faults there were
    told,       \* ghost: what was last said of a transcript that was not stored
    tried       \* ghost: how many ingestions of each part were recorded as failed

kept   == <<rows, disk, state, attempts, asked>>
ghosts == <<told, tried>>
vars   == <<listed, over, kept, run, faults, ghosts>>

Row(x, st, done) == [of |-> x, state |-> st, ingested |-> done]

States == {"none", "absent", "skipped", "refused", "later", "fetched", "ingested", "failed"}

Stages == {"idle", "repairing", "asking", "storing", "writing", "marking", "settling",
           "noting", "offering", "ingesting", "recording"}

Idle == [at |-> "idle", over |-> FALSE, held |-> {}, left |-> {}, part |-> 0, new |-> {},
         problem |-> "none", ends |-> FALSE, failed |-> FALSE]

\* A run: its place, the window it began in, the parts the meeting held, the
\* transcripts left to store, the part it is at, the parts it stored.
Run == [at : Stages, over : BOOLEAN, held : SUBSET Parts, left : SUBSET X, part : 0..N,
        new : SUBSET Parts, problem : {"none", "final", "again"}, ends : BOOLEAN, failed : BOOLEAN]

TypeOK ==
    /\ listed \in [X -> {"no", "going", "yes", "gone"}] /\ over \in BOOLEAN
    /\ rows = [p \in DOMAIN rows |-> rows[p]] /\ DOMAIN rows \subseteq Parts
    /\ \A p \in DOMAIN rows : rows[p] \in [of : X, state : {"pending", "stored"}, ingested : BOOLEAN]
    /\ \A p, q \in DOMAIN rows : rows[p].of = rows[q].of => p = q
    /\ DOMAIN disk \subseteq Parts /\ \A p \in DOMAIN disk : disk[p] \in X
    /\ state \in States /\ attempts \in 0..MaxIngestAttempts /\ asked \in BOOLEAN
    /\ run \in Run
    /\ told \in [X -> {"nothing", "lost", "again", "unclaimed"}] /\ tried \in [Parts -> Nat]
    /\ faults \in 0..MaxFaults

NoParts == [p \in {} |-> 0]

Init ==
    /\ listed = [x \in X |-> "no"] /\ over = FALSE
    /\ rows = NoParts /\ disk = NoParts /\ state = "none" /\ attempts = 0 /\ asked = FALSE
    /\ run = Idle /\ faults = 0
    /\ told = [x \in X |-> "nothing"] /\ tried = [p \in Parts |-> 0]

With(f, p, v)  == [q \in DOMAIN f \cup {p} |-> IF q = p THEN v ELSE f[q]]
Without(f, p)  == [q \in DOMAIN f \ {p} |-> f[q]]

First(S) == CHOOSE p \in S : \A q \in S : p <= q
Last(S)  == IF S = {} THEN 0 ELSE CHOOSE p \in S : \A q \in S : q <= p

Pending == {p \in DOMAIN rows : rows[p].state = "pending"}
Stored  == {p \in DOMAIN rows : rows[p].state = "stored"}

Fault == faults < MaxFaults /\ faults' = faults + 1
GoesTo(at) == run' = [run EXCEPT !.at = at]
Says(x, what) == told' = [told EXCEPT ![x] = what]

-----------------------------------------------------------------------------
(* The meeting and its provider.                                           *)

\* Teams begins a transcript, in the window; it may be listed after a later one.
Begins(x) == /\ listed[x] = "no" /\ ~over /\ listed' = [listed EXCEPT ![x] = "going"]
             /\ UNCHANGED <<over, kept, run, faults, ghosts>>
Finishes(x)   == /\ listed[x] = "going" /\ listed' = [listed EXCEPT ![x] = "yes"]
             /\ UNCHANGED <<over, kept, run, faults, ghosts>>
Expires(x) == /\ listed[x] = "yes" /\ listed' = [listed EXCEPT ![x] = "gone"]
              /\ UNCHANGED <<over, kept, run, faults, ghosts>>
WindowEnds == /\ ~over /\ over' = TRUE
              /\ UNCHANGED <<listed, kept, run, faults, ghosts>>

-----------------------------------------------------------------------------
(* Selection: _select_in and _repaired.                                    *)

Closes == state \in {"refused", "fetched", "ingested", "failed"}

Selects ==
    /\ run.at = "idle"
    /\ \/ rows # NoParts /\ run' = [Idle EXCEPT !.at = "repairing", !.over = over]
       \/ rows = NoParts /\ ~Closes /\ run' = [Idle EXCEPT !.at = "asking", !.over = over]
       \* Nothing to ask: closed, or its hint has not run out.
       \/ rows = NoParts /\ (Closes \/ state = "later") /\ run' = [Idle EXCEPT !.at = "offering"]
    /\ UNCHANGED <<listed, over, kept, faults, ghosts>>

\* mark_part_stored, which resets the attempts.
MarksKeepingAttempts(p) ==      \* a mutant
    rows' = [rows EXCEPT ![p].state = "stored"] /\ UNCHANGED attempts

Marks(p) == rows' = [rows EXCEPT ![p].state = "stored"] /\ attempts' = 0

RepairsNone == {}       \* a mutant: what a kill left is not looked for
Left == Pending \cap DOMAIN disk

Repairs ==
    /\ run.at = "repairing" /\ Left # {}
    /\ LET p == First(Left) IN
       \/ Marks(p) /\ run' = [run EXCEPT !.new = {p}] /\ Says(rows[p].of, "nothing") /\ UNCHANGED faults
       \/ GoesTo("offering") /\ Fault /\ UNCHANGED <<rows, attempts, told>>
    /\ UNCHANGED <<listed, over, disk, state, asked, tried>>

\* The row, if it repaired a part; then whether the meeting is asked about.
StillAsked == Pending # {} \/ ~asked

Repaired ==
    /\ run.at = "repairing" /\ Left = {}
    /\ \/ /\ state' = IF run.new # {} THEN "fetched" ELSE state
          /\ run' = [run EXCEPT !.at = IF StillAsked THEN "asking" ELSE "offering",
                                !.held = Stored, !.new = {}]
          /\ UNCHANGED faults
       \/ run.new # {} /\ state # "fetched" /\ GoesTo("offering") /\ Fault /\ UNCHANGED state
    /\ UNCHANGED <<listed, over, rows, disk, attempts, asked, ghosts>>

-----------------------------------------------------------------------------
(* The answer: _Run._match, its decisions in their order, and _settled.    *)

IdsOf(S) == {rows[p].of : p \in S}
Fitting  == {x \in X : listed[x] \in {"going", "yes"}}
Unheld    == Fitting \ IdsOf(run.held)

Unfinished == \E x \in Unheld : listed[x] = "going"
Overlap    == \E c \in Clashes : c \subseteq Unheld \cup IdsOf(run.held) /\ c \cap Unheld # {}
Early      == \E x \in Unheld, y \in IdsOf(run.held) : x < y

\* An answer with no captures is the meeting's row, unless it holds parts.
Answers(kind, ends) ==
    /\ \/ /\ state' = IF run.held = {} THEN kind ELSE state
          /\ run' = [run EXCEPT !.at = "noting", !.ends = ends] /\ UNCHANGED faults
       \/ run.held = {} /\ Fault /\ run' = Idle /\ UNCHANGED state

\* Every new part, in time order, up to the first refused for good.
Downloads ==
    \/ Answers("absent", TRUE)          \* the meeting expired
    \/ \E S \in SUBSET Unheld :
          /\ S # {} /\ \A x \in S, y \in Unheld \ S : x < y
          /\ run' = [run EXCEPT !.at = "storing", !.ends = TRUE, !.left = S,
                                !.problem = IF S = Unheld THEN "none" ELSE "final"]
          /\ UNCHANGED <<state, faults>>

Asks ==
    /\ run.at = "asking"
    /\ \/ Answers("later", FALSE)                             \* a fault, or unclassified
       \/ Answers("refused", TRUE)    \* a stray, another occurrence's, a first part gone
       \/ Unfinished /\ Answers("skipped", FALSE)
       \/ Unheld = {} /\ Answers("absent", TRUE)
       \/ Unheld # {} /\ ~Unfinished /\ (Overlap \/ Early) /\ Answers("refused", TRUE)
       \/ Unheld # {} /\ ~Unfinished /\ ~Overlap /\ ~Early /\ Downloads
    /\ told' = [x \in X |-> IF told[x] = "unclaimed" THEN "nothing" ELSE told[x]]
    /\ UNCHANGED <<listed, over, rows, disk, attempts, asked, tried>>

\* TranscriptSourceUnavailable.
AsksNobody == /\ run.at = "asking" /\ GoesTo("offering")
              /\ UNCHANGED <<listed, over, kept, faults, ghosts>>

-----------------------------------------------------------------------------
(* Storing what was answered, a part at a time: _stored.                   *)

\* The number a pending row holds for it, or the next one.
NextNumber(x) == Last(DOMAIN rows) + 1      \* a mutant: its pending row is not looked for

NumberOf(x) == IF x \in IdsOf(Pending) THEN CHOOSE p \in Pending : rows[p].of = x
               ELSE Last(DOMAIN rows) + 1

NeverBefore(x) == FALSE         \* a mutant: no look at the pending rows
BeforePending(x) == x \notin IdsOf(Pending) /\ \E y \in IdsOf(Pending) : y > x

Stops(problem) == run' = [run EXCEPT !.at = "settling", !.problem = problem]

\* record_pending_part.
Claims ==
    /\ run.at = "storing" /\ run.left # {}
    /\ LET x == First(run.left) IN
       \/ BeforePending(x) /\ Stops("final") /\ Says(x, "lost") /\ UNCHANGED <<rows, faults>>
       \/ /\ ~BeforePending(x) /\ rows' = With(rows, NumberOf(x), Row(x, "pending", FALSE))
          /\ run' = [run EXCEPT !.at = "writing", !.part = NumberOf(x)]
          /\ UNCHANGED <<told, faults>>
       \/ /\ ~BeforePending(x) /\ Fault
          /\ Stops("again") /\ Says(x, "unclaimed") /\ UNCHANGED rows
    /\ UNCHANGED <<listed, over, disk, state, attempts, asked, tried>>

\* A refusal that waiting may clear keeps the row.
DropsIt(p) == Without(rows, p)      \* a mutant
KeepsIt(p) == rows

\* write_capture never overwrites; a failed one may have left the capture.
WritesCapture ==
    /\ run.at = "writing"
    /\ LET p == run.part  x == rows[p].of IN
       \/ p \notin DOMAIN disk /\ disk' = With(disk, p, x) /\ GoesTo("marking")
          /\ UNCHANGED <<rows, told, faults>>
       \/ /\ p \notin DOMAIN disk /\ disk' \in {disk, With(disk, p, x)}
          /\ rows' = KeepsIt(p) /\ Stops("again") /\ Says(x, "again") /\ Fault
       \/ /\ IF p \in DOMAIN disk THEN UNCHANGED faults ELSE Fault
          /\ rows' = Without(rows, p) /\ Stops("final") /\ Says(x, "lost") /\ UNCHANGED disk
       \* The row could not be dropped either.
       \/ Fault /\ Stops("again") /\ Says(x, "again") /\ UNCHANGED <<rows, disk>>
    /\ UNCHANGED <<listed, over, state, attempts, asked, tried>>

MarksIt ==
    /\ run.at = "marking"
    /\ LET p == run.part IN
       \/ /\ Marks(p) /\ Says(rows[p].of, "nothing") /\ UNCHANGED faults
          /\ run' = [run EXCEPT !.at = "storing", !.left = @ \ {rows[p].of}, !.new = @ \cup {p}]
       \/ Stops("again") /\ Says(rows[p].of, "again") /\ Fault /\ UNCHANGED <<rows, attempts>>
    /\ UNCHANGED <<listed, over, disk, state, asked, tried>>

\* The row of the answer; a failed write of it ends the run.
NewState == CASE run.new # {} -> "fetched"
              [] run.new = {} /\ (run.held # {} \/ run.problem = "none") -> state
              [] OTHER -> IF run.problem = "final" THEN "refused" ELSE "later"

Settles ==
    /\ run.at = "settling" \/ (run.at = "storing" /\ run.left = {})
    /\ \/ state' = NewState /\ GoesTo("noting") /\ UNCHANGED faults
       \/ (run.new # {} \/ NewState # state) /\ run' = Idle /\ Fault /\ UNCHANGED state
    /\ UNCHANGED <<listed, over, rows, disk, attempts, asked, ghosts>>

\* record_part_ask: a capture, an absence or a refusal for good counts as asked.
Counts == run.held \cup run.new # {} /\ run.ends

Notes ==
    /\ run.at = "noting" /\ GoesTo("offering")
    /\ \/ asked' = (IF Counts THEN run.over ELSE asked) /\ UNCHANGED faults
       \/ Counts /\ Fault /\ UNCHANGED asked
    /\ UNCHANGED <<listed, over, rows, disk, state, attempts, ghosts>>

-----------------------------------------------------------------------------
(* Ingestion: _awaiting_ingestion, ingest_captures, _ingest_capture.       *)

Waiting == {p \in Stored : ~rows[p].ingested}

Exhausted     == state \in {"fetched", "failed"} /\ attempts >= MaxIngestAttempts

Offers ==
    /\ run.at = "offering"
    /\ \/ (Waiting = {} \/ Exhausted) /\ run' = Idle /\ UNCHANGED faults
       \/ /\ Waiting # {} /\ ~Exhausted /\ UNCHANGED faults
          /\ run' = [Idle EXCEPT !.at = "ingesting"]
       \* The rows, or the meeting's record, are not read.
       \/ /\ run' \in {Idle, [Idle EXCEPT !.at = "recording", !.failed = TRUE]}
          /\ Waiting # {} /\ ~Exhausted /\ Fault
    /\ UNCHANGED <<listed, over, kept, ghosts>>

\* One part: extracted, and marked so; or busy, which ends the meeting uncounted.
ToDo == {p \in Waiting : p > run.part}

Ingests ==
    /\ run.at = "ingesting" /\ ToDo # {}
    /\ LET p == First(ToDo) IN
       \/ /\ rows[p].of \notin Unreadable /\ rows' = [rows EXCEPT ![p].ingested = TRUE]
          /\ run' = [run EXCEPT !.part = p] /\ UNCHANGED faults
       \/ /\ IF rows[p].of \in Unreadable THEN UNCHANGED faults ELSE Fault
          /\ run' = [run EXCEPT !.part = p, !.failed = TRUE] /\ UNCHANGED rows
       \/ run' = Idle /\ Fault /\ UNCHANGED rows
    /\ UNCHANGED <<listed, over, disk, state, attempts, asked, ghosts>>

\* record_transcript_state; if it fails the next run offers the parts again.
Records ==
    /\ run.at = "recording" \/ (run.at = "ingesting" /\ ToDo = {})
    /\ run' = Idle
    /\ \/ /\ state' = IF run.failed THEN "failed" ELSE "ingested"
          /\ attempts' = IF run.failed THEN attempts + 1 ELSE 0
          /\ tried' = [p \in Parts |-> IF run.failed /\ p \in Waiting THEN tried[p] + 1 ELSE tried[p]]
          /\ UNCHANGED faults
       \/ Fault /\ UNCHANGED <<state, attempts, tried>>
    /\ UNCHANGED <<listed, over, rows, disk, asked, told>>

-----------------------------------------------------------------------------
\* Killed, or abandoned at its budget.
CutOff == /\ run # Idle /\ run' = Idle /\ Fault
          /\ UNCHANGED <<listed, over, kept, ghosts>>

Steps == \/ Selects \/ Repairs \/ Repaired \/ Asks \/ AsksNobody \/ Claims \/ WritesCapture
         \/ MarksIt \/ Settles \/ Notes \/ Offers \/ Ingests \/ Records

Next == \/ \E x \in X : Begins(x) \/ Finishes(x) \/ Expires(x)
        \/ WindowEnds \/ Steps \/ CutOff

Spec == Init /\ [][Next]_vars

\* The timers begin a run again and again, and it goes on unless it is cut off.
LiveSpec == Spec /\ WF_vars(Steps)

-----------------------------------------------------------------------------
(* Properties.                                                             *)

\* However a run ended, every capture has the row of the transcript it holds, and
\* every stored part its capture: none is lost, numbered twice or taken for another.
CapturesHaveRows ==
    /\ \A p \in DOMAIN disk : p \in DOMAIN rows /\ rows[p].of = disk[p]
    /\ Stored \subseteq DOMAIN disk

\* Parts are numbered in time order, also when an earlier transcript is listed late,
\* a pending part is fetched again, or one before it was lost.
TimeOrder == \A p, q \in Stored : p < q => rows[p].of < rows[q].of

\* What is stored stays stored, under its number, with its capture, and is not ingested
\* twice: no claim, repair or dropped row of a later part touches it.
StoredStays ==
    [][\A p \in Stored : /\ p \in Stored' /\ rows'[p].of = rows[p].of /\ disk'[p] = disk[p]
                         /\ rows[p].ingested => rows'[p].ingested]_vars

\* A part of which the run said it is tried again is asked about again.
AskedAgain == \A x \in X : told[x] = "again" => x \in IdsOf(Pending)

\* The meeting will be asked about: _select_in at the next run.
WillAsk == IF rows = NoParts THEN ~Closes ELSE StillAsked

\* "could not be claimed ...; tried again next run" (_stored).
TriedAgain == \A x \in X : told[x] = "unclaimed" /\ run = Idle => WillAsk

\* Every stored part is ingested at last, or failed as often as the cap allows: also
\* one stored after the meeting's ingestion was given up.
EveryPartIsTried ==
    \A p \in Parts : p \in Stored ~> (p \in Stored /\ rows[p].ingested) \/ tried[p] >= MaxIngestAttempts

=============================================================================
