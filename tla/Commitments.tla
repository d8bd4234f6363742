---------------------------- MODULE Commitments ----------------------------
(***************************************************************************)
(* One commitment in its scope's ledger, commitments_log.md: the line its  *)
(* approval writes, by the desk that approved it or by the catch-up of a   *)
(* later start of the daemon, the lines of the PM's own marks, due dates   *)
(* and undos (src/pm_ai/app/commitments.py), and the fold that reads them  *)
(* (src/pm_ai/core/commitment_log.py).                                     *)
(*                                                                         *)
(* The ledger is only ever appended to, by processes that share nothing    *)
(* else: each reads it, decides, and appends only to the ledger it read.   *)
(* An append may be cut short by an error or a kill.                       *)
(*                                                                         *)
(* `approved` stands for the proposals table: the n-th replacement of the  *)
(* item, approved at an instant, in the order of the numbers, supersedes   *)
(* the one approved before (Proposals).  Instants are numbers; no two      *)
(* stamps of the microsecond clock are equal: it moves when it is read.    *)
(***************************************************************************)
EXTENDS Naturals, Sequences, FiniteSets

CONSTANTS Desks,        \* the processes the PM works from
          Asked,        \* what he asks of them, besides approving
          Attempts,     \* ATTEMPTS: tries against a ledger that keeps growing
          Window,       \* UNDO_WINDOW
          MaxEdits,     \* bound: the replacements of the item
          MaxClock,     \* bound: the last instant
          MaxLines,     \* bound: the lines of the ledger
          MaxFaults     \* bound: how often the clock is set back or an append cut

Marks    == {"fulfilled", "altered", "broken", "withdrawn"}
Terminal == {"fulfilled", "broken", "withdrawn"}
Verbs    == Marks \cup {"altered and due", "due", "undo", "record"}

ASSUME CommitmentsAssumption ==
    /\ Asked \subseteq Verbs \ {"record"}
    /\ Attempts \in Nat \ {0} /\ Window \in Nat /\ MaxEdits \in Nat
    /\ MaxClock \in Nat /\ MaxLines \in Nat /\ MaxFaults \in Nat

Numbers  == 0..MaxEdits
Instants == 1..MaxClock

VARIABLES
    approved,   \* the instant each replacement was approved at, 0 if it was not
    ledger,     \* the lines of the commitment
    desk,       \* what each process of the PM is doing
    keeper,     \* the daemon's catch-up
    clock,
    faults      \* ghost: how often the clock went back or an append was cut

vars == <<approved, ledger, desk, keeper, clock, faults>>

Line == [kind : {"pending", "revised", "marked", "due_set", "undone"},
         n : Numbers,               \* of pending and revised: the proposal
         mark : Marks \cup {"none"},
         of : Nat,                  \* of undone: where the mark is
         at : Instants,             \* `occurred`
         end : {"whole", "unended", "cut"}]

Idle == [at |-> "idle"]
Down == [at |-> "down"]

\* `n` is the proposal to record, `shown` the version of --if-version, if any.
Reading   == [at : {"reading"}, verb : Verbs, n : Numbers, shown : Nat, tries : 0..Attempts]
Appending == [at : {"appending"}, verb : Verbs, n : Numbers, shown : Nat, tries : 0..Attempts,
              size : Nat, lines : Seq(Line)]
Catching  == [at : {"listing", "reading", "appending"}, n : Numbers, size : Nat,
              tries : 0..Attempts]

TypeOK ==
    /\ approved \in [Numbers -> 0..MaxClock]
    /\ ledger \in Seq(Line)
    /\ \A k \in DOMAIN ledger : ledger[k].kind = "undone" => ledger[k].of \in 1..k - 1
    /\ desk \in [Desks -> {Idle} \cup Reading \cup Appending]
    /\ keeper \in {Down} \cup Catching
    /\ clock \in 0..MaxClock
    /\ faults \in 0..MaxFaults

Init ==
    /\ approved = [n \in Numbers |-> 0]
    /\ ledger = << >>
    /\ desk = [d \in Desks |-> Idle]
    /\ keeper = Down
    /\ clock = 0
    /\ faults = 0

-----------------------------------------------------------------------------
(* parse_ledger and fold: what the first n lines say.                      *)

\* A last line without its newline is dropped until an append adds one; a line
\* cut in the middle does not parse.
Readable(n) == {k \in 1..n : \/ ledger[k].end = "whole"
                             \/ ledger[k].end = "unended" /\ k < n}

\* The `entry` of a line: the proposal is no part of a pending line's.
Entry(l) == CASE l.kind = "pending" -> <<l.kind>>
              [] l.kind = "revised" -> <<l.kind, l.n>>
              [] l.kind = "undone"  -> <<l.kind, l.of>>
              [] OTHER              -> <<l.kind, l.mark, l.at>>

\* Of the lines of one entry the first counts.
Counted(n) == {k \in Readable(n) : \A j \in Readable(n) :
                  Entry(ledger[j]) = Entry(ledger[k]) => k <= j}

OfKind(n, kinds) == {k \in Counted(n) : ledger[k].kind \in kinds}

\* The PM's desk decides nothing about a root that a line it cannot read names.
Malformed(n) == \E k \in 1..n : k < n /\ ledger[k].end = "cut"
Held(n)      == OfKind(n, {"pending"}) # {}

Highest(S) == CHOOSE m \in S : \A k \in S : k <= m

HeadNumber(n) == Highest({ledger[k].n : k \in OfKind(n, {"pending", "revised"})})
Newest(n)    == Highest(Counted(n))
ChangedAt(n) == Highest({ledger[k].at : k \in Counted(n)})

\* `_undone_marks`: a done mark undone in time, and nothing in between.
Undoes(n, u, m) ==
    /\ ledger[u].of = m /\ ledger[m].mark = "fulfilled"
    /\ ledger[m].at <= ledger[u].at /\ ledger[u].at - ledger[m].at <= Window
    /\ ~\E k \in Counted(n) \ {m, u} : ledger[m].at < ledger[k].at /\ ledger[k].at < ledger[u].at

Dropped(n) == {m \in OfKind(n, {"marked"}) : \E u \in OfKind(n, {"undone"}) : Undoes(n, u, m)}

\* MARKABLE, for the states the PM's marks reach.
Answer(state, mark) ==
    IF state = mark /\ mark # "altered" THEN "already"
    ELSE IF state = "fulfilled" /\ mark \in {"altered", "withdrawn"} THEN "refused" ELSE "yes"

\* The mark in force after the marks of K up to an instant, 0 if there is none.
StateOf(k) == IF k = 0 THEN "pending" ELSE ledger[k].mark

MarkAt(K, t, before) ==
    LET now == {k \in K : ledger[k].at = t}
        it  == CHOOSE k \in now : TRUE
    IN  IF now # {} /\ Answer(StateOf(before), ledger[it].mark) = "yes" THEN it ELSE before

MarkOf(K) ==
    LET upTo[t \in 0..MaxClock] == IF t = 0 THEN 0 ELSE MarkAt(K, t, upTo[t - 1])
    IN  upTo[MaxClock]

InForce(n) == MarkOf(OfKind(n, {"marked"}) \ Dropped(n))
State(n)   == StateOf(InForce(n))

-----------------------------------------------------------------------------
(* What a process will append, from the first n lines it read.             *)

ALine(kind, at) ==
    [kind |-> kind, n |-> 0, mark |-> "none", of |-> 0, at |-> at, end |-> "whole"]

Value(n, kind) == [ALine(kind, approved[n]) EXCEPT !.n = n]
Mark(m, at)    == [ALine("marked", at) EXCEPT !.mark = m]

\* CommitmentRecorder.record and _lines_for: the line the ledger lacks.
HoldsNone(size, n) == ~Held(size) /\ ~Malformed(size)   \* a mutant: no revision is caught up

Lacks(size, n) ==
    IF ~Held(size) THEN ~Malformed(size) ELSE n > HeadNumber(size)

LineFor(size, n) == <<Value(n, IF Held(size) THEN "revised" ELSE "pending")>>

\* `_occurred`: never before a line it follows.
JustNow(size, now) == now       \* a mutant: the clock as it is

Occurred(size, now) == IF now > ChangedAt(size) THEN now ELSE ChangedAt(size) + 1

\* `_changed`: --if-version names the newest line.
FirstTryOnly(d, size) ==        \* a mutant: not looked at when decided again
    desk[d].shown \in {0, Newest(size)} \/ desk[d].tries > 0

AsShown(d, size) == desk[d].shown \in {0, Newest(size)}

MarkDecided(d, size, m) == AsShown(d, size) /\ Answer(State(size), m) = "yes"

DueDecided(d, size) == AsShown(d, size) /\ State(size) \notin Terminal

UndoesWhateverIs(d, size, at) == AsShown(d, size)    \* a mutant: done or not

UndoDecided(d, size, at) ==
    /\ AsShown(d, size) /\ State(size) = "fulfilled"
    /\ Newest(size) = InForce(size)
    /\ at - ledger[InForce(size)].at <= Window

\* `decide` of mark, altered, set_due and undo: the lines, none if it refuses or
\* has nothing to write.
Decided(d, size, at) ==
    LET verb == desk[d].verb
        mark == IF verb = "altered and due" THEN "altered" ELSE verb
    IN  CASE verb = "due" ->
               IF DueDecided(d, size) THEN <<ALine("due_set", at)>> ELSE << >>
          [] verb = "undo" ->
               IF UndoDecided(d, size, at)
                 THEN <<[ALine("undone", at) EXCEPT !.of = InForce(size)]>> ELSE << >>
          [] verb \in Marks \cup {"altered and due"} ->
               IF ~MarkDecided(d, size, mark) THEN << >>
               ELSE IF verb = mark THEN <<Mark(mark, at)>>
               ELSE <<Mark(mark, at), ALine("due_set", at)>>

-----------------------------------------------------------------------------
(* The PM and his processes.                                               *)

Ends(d) == desk' = [desk EXCEPT ![d] = Idle]

Starts(d, verb, n, shown) ==
    /\ desk[d].at = "idle"
    /\ desk' = [desk EXCEPT ![d] =
          [at |-> "reading", verb |-> verb, n |-> n, shown |-> shown, tries |-> 0]]

Stamps(at) == at \in Instants /\ \A n \in Numbers : approved[n] # at

\* An approval, committed; the process then records it, or dies before it does.
Approves(d, n) ==
    /\ approved[n] = 0 /\ \A m \in Numbers : m > n => approved[m] = 0
    /\ Stamps(clock + 1) /\ clock' = clock + 1
    /\ approved' = [approved EXCEPT ![n] = clock']
    /\ Starts(d, "record", n, 0)
    /\ UNCHANGED <<ledger, keeper, faults>>

Approved(n) == approved[n] # 0 /\ \A m \in Numbers : m > n => approved[m] = 0

\* An approve of what is approved already repairs what was left unwritten.
ApprovesAgain(d, n) ==
    /\ Approved(n) /\ Starts(d, "record", n, 0)
    /\ UNCHANGED <<approved, ledger, keeper, clock, faults>>

\* A mark, a due date or an undo of the commitment as it was shown.
Asks(d, verb, pinned) ==
    /\ Held(Len(ledger)) /\ ~Malformed(Len(ledger))
    /\ Starts(d, verb, 0, IF pinned THEN Newest(Len(ledger)) ELSE 0)
    /\ UNCHANGED <<approved, ledger, keeper, clock, faults>>

Plans(d, size, lines) ==
    desk' = [desk EXCEPT ![d] =
        [at |-> "appending", verb |-> desk[d].verb, n |-> desk[d].n, shown |-> desk[d].shown,
         tries |-> desk[d].tries, size |-> size, lines |-> lines]]

\* The ledger is read and the line found there, or not to be written, or planned.
ReadsToRecord(d) ==
    LET size == Len(ledger) IN
    /\ desk[d].at = "reading" /\ desk[d].verb = "record"
    /\ IF Lacks(size, desk[d].n) THEN Plans(d, size, LineFor(size, desk[d].n)) ELSE Ends(d)
    /\ UNCHANGED <<approved, ledger, keeper, clock, faults>>

\* CommitmentDesk._write, as far as its append.
ReadsToWrite(d) ==
    LET size == Len(ledger) IN
    /\ desk[d].at = "reading" /\ desk[d].verb # "record"
    /\ \/ /\ ~Held(size) \/ Malformed(size)
          /\ Ends(d) /\ UNCHANGED clock
       \/ /\ Held(size) /\ ~Malformed(size)
          /\ LET at    == Occurred(size, clock + 1)
                 lines == Decided(d, size, at)
             IN  /\ Stamps(at)
                 /\ \/ lines # << >> /\ Plans(d, size, lines) /\ clock' = clock + 1
                    \/ lines = << >> /\ Ends(d) /\ UNCHANGED clock
    /\ UNCHANGED <<approved, ledger, keeper, faults>>

\* _compare_and_append: only to a ledger that is as it was read.
AsGrown(size) == Len(ledger) >= size    \* a mutant: appended to whatever is there

AsRead(size)  == Len(ledger) = size
Grows(lines)  == Len(ledger \o lines) <= MaxLines /\ ledger' = ledger \o lines

Again(d) ==
    desk' = [desk EXCEPT ![d] =
        IF @.tries + 1 = Attempts THEN Idle
        ELSE [at |-> "reading", verb |-> @.verb, n |-> @.n, shown |-> @.shown,
              tries |-> @.tries + 1]]

Appends(d) ==
    /\ desk[d].at = "appending"
    /\ \/ AsRead(desk[d].size) /\ Grows(desk[d].lines) /\ Ends(d)
       \/ ~AsRead(desk[d].size) /\ Again(d) /\ UNCHANGED ledger
    /\ UNCHANGED <<approved, keeper, clock, faults>>

\* Whole lines, then part of one: an error or a kill in the middle of the write.
GrowsInPart(lines) ==
    /\ faults < MaxFaults /\ faults' = faults + 1
    /\ \E last \in DOMAIN lines, end \in {"unended", "cut"} :
          Grows([k \in 1..last |-> IF k = last THEN [lines[k] EXCEPT !.end = end] ELSE lines[k]])

AppendsInPart(d) ==
    /\ desk[d].at = "appending" /\ AsRead(desk[d].size)
    /\ GrowsInPart(desk[d].lines) /\ Ends(d)
    /\ UNCHANGED <<approved, keeper, clock>>

\* The process is killed, or the ledger is busy or cannot be read.
Abandons(d) ==
    /\ desk[d].at # "idle" /\ Ends(d)
    /\ UNCHANGED <<approved, ledger, keeper, clock, faults>>

-----------------------------------------------------------------------------
(* The catch-up of a start of the daemon: catch_up and _catch_up_scope.    *)

\* The ledger is read before the approved rows are listed.
DaemonStarts ==
    /\ keeper.at = "down"
    /\ keeper' = [at |-> "listing", n |-> 0, size |-> Len(ledger), tries |-> 0]
    /\ UNCHANGED <<approved, ledger, desk, clock, faults>>

Lists ==
    /\ keeper.at = "listing"
    /\ IF \E n \in Numbers : Approved(n)
         THEN keeper' = [keeper EXCEPT !.at = "reading", !.n = CHOOSE n \in Numbers : Approved(n)]
         ELSE keeper' = Down
    /\ UNCHANGED <<approved, ledger, desk, clock, faults>>

\* The body is read, and its line made if it is still approved.
Prepares ==
    /\ keeper.at = "reading"
    /\ keeper' = IF Approved(keeper.n) /\ Lacks(keeper.size, keeper.n)
                   THEN [keeper EXCEPT !.at = "appending"] ELSE Down
    /\ UNCHANGED <<approved, ledger, desk, clock, faults>>

\* In the writer's step it is looked at again; and appended, or the ledger, grown
\* since, is read again.
CatchesUp ==
    /\ keeper.at = "appending"
    /\ \/ ~Approved(keeper.n) /\ keeper' = Down /\ UNCHANGED ledger
       \/ /\ Approved(keeper.n) /\ AsRead(keeper.size)
          /\ Grows(LineFor(keeper.size, keeper.n)) /\ keeper' = Down
       \/ /\ Approved(keeper.n) /\ ~AsRead(keeper.size)
          /\ keeper' = IF keeper.tries + 1 = Attempts THEN Down
                         ELSE [keeper EXCEPT !.at = "reading", !.size = Len(ledger),
                                             !.tries = @ + 1]
          /\ UNCHANGED ledger
    /\ UNCHANGED <<approved, desk, clock, faults>>

CatchesUpInPart ==
    /\ keeper.at = "appending" /\ Approved(keeper.n) /\ AsRead(keeper.size)
    /\ GrowsInPart(LineFor(keeper.size, keeper.n)) /\ keeper' = Down
    /\ UNCHANGED <<approved, desk, clock>>

\* The daemon is killed, or its store or the ledger is busy: the next start tries.
DaemonEnds ==
    /\ keeper.at # "down" /\ keeper' = Down
    /\ UNCHANGED <<approved, ledger, desk, clock, faults>>

-----------------------------------------------------------------------------
ClockIsSetBack ==
    /\ faults < MaxFaults /\ faults' = faults + 1
    /\ clock' \in 0..clock - 1
    /\ UNCHANGED <<approved, ledger, desk, keeper>>

Works(d) == ReadsToRecord(d) \/ ReadsToWrite(d) \/ Appends(d) \/ AppendsInPart(d) \/ Abandons(d)

Next == \/ \E d \in Desks : Works(d)
        \/ \E d \in Desks, n \in Numbers : Approves(d, n) \/ ApprovesAgain(d, n)
        \/ \E d \in Desks, verb \in Asked, pinned \in BOOLEAN : Asks(d, verb, pinned)
        \/ DaemonStarts \/ Lists \/ Prepares \/ CatchesUp \/ CatchesUpInPart \/ DaemonEnds
        \/ ClockIsSetBack

Spec == Init /\ [][Next]_vars

\* The daemon is started again and again, and of its starts some are not killed:
\* in them the catch-up's reads and its append do go through.
LiveSpec == /\ Spec /\ WF_vars(DaemonStarts)
            /\ SF_vars(Lists) /\ SF_vars(Prepares) /\ SF_vars(CatchesUp)

-----------------------------------------------------------------------------
(* Properties.                                                             *)

\* No line is in the ledger twice: a desk and the catch-up that both found an
\* approval unrecorded, and a process that tried again after its append was cut,
\* leave one; only a line whose newline was never written may have a second.
EachLineOnce ==
    \A j, k \in Readable(Len(ledger)) :
        j < k /\ Entry(ledger[j]) = Entry(ledger[k]) => ledger[j].end = "unended"

Added == {k \in 1..Len(ledger') : k > Len(ledger)}

\* What the PM is told is in force: the mark he made is the state from then on,
\* and an undo gives the state there would be without that mark.  A line that
\* lacks but its newline is no part of what was read, and counts from the next
\* append on: then it does not hold.
Ended == \A k \in 1..Len(ledger) : ledger[k].end # "unended"

ToldIsInForce ==
    [][\A k \in Added :
          Ended /\ ledger'[k].end = "whole" =>
            /\ ledger'[k].kind = "marked" => State(Len(ledger))' = ledger'[k].mark
            /\ ledger'[k].kind = "undone" =>
                 State(Len(ledger))' =
                   StateOf(MarkOf(OfKind(Len(ledger), {"marked"})
                                    \ (Dropped(Len(ledger)) \cup {ledger'[k].of})))]_vars

\* With --if-version a line follows the line that was the newest when shown.
ActsOnShown ==
    [][\A d \in Desks :
          (desk[d].at = "appending" /\ desk[d].shown # 0 /\ desk'[d] = Idle /\ Added # {})
            => Newest(Len(ledger)) = desk[d].shown]_vars

\* What is approved is recorded in the end, though the process that approved it
\* died, unless a line that names it must first be mended by hand.
Recorded(n) == Held(Len(ledger)) /\ n <= HeadNumber(Len(ledger))

ApprovedIsRecorded ==
    \A n \in Numbers :
        Approved(n) ~> (~Approved(n) \/ Recorded(n) \/ Malformed(Len(ledger)))

\* "a `revised` line never changes the state".
RevisedKeepsState ==
    [][(Added # {} /\ \A k \in Added : ledger'[k].kind = "revised")
          => State(Len(ledger))' = State(Len(ledger))]_vars

=============================================================================
