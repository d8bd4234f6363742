----------------------------- MODULE Proposals -----------------------------
(***************************************************************************)
(* The action items of a meeting and what becomes of them: the proposals   *)
(* table of StorageService (src/pm_ai/storage/service.py) under the rules  *)
(* of src/pm_ai/domain/proposals.py, the desks through which the PM        *)
(* approves, rejects and edits them from several processes at once         *)
(* (src/pm_ai/app/proposals.py), the re-summary that stages them again and *)
(* the sweep that expires them.  What follows an approval is Commitments.  *)
(*                                                                         *)
(* Every change of a row is one transaction (_proposal_step).  What a desk *)
(* read and the change it asks for are steps apart: any other process may  *)
(* come between, and a process may be killed.                              *)
(*                                                                         *)
(* An edit of a row inserts a replacement: <<r, n>> is the n-th made of the*)
(* root r, and <<r, 0>> the item as it was summarised.  Of an item's values*)
(* the model keeps two: `what`, which the PM edits, and `due`, which a     *)
(* re-summary may rewrite.                                                 *)
(***************************************************************************)
EXTENDS Naturals, FiniteSets

CONSTANTS Roots,        \* the items the summaries of the meeting produce
          Whats, Dues,  \* the values of an item's two fields
          WhatOf,       \* the `what` of each root: its id is a digest of it
          Desks,        \* the processes the PM works from
          MaxEdits,     \* bound: the replacements made of one root
          MaxVersion    \* bound: the version up to which a re-summary rewrites

ASSUME FieldsAssumption == WhatOf \in [Roots -> Whats]
ASSUME BoundsAssumption ==
    MaxEdits \in Nat /\ MaxVersion \in Nat

Numbers == 0..MaxEdits
Ids     == Roots \X Numbers

VARIABLES
    rows,       \* the proposals table
    desk        \* what each desk is doing

vars == <<rows, desk>>

States   == {"staged", "approved", "rejected", "expired", "superseded"}
Terminal == {"rejected", "expired", "superseded"}
Live     == {"staged", "approved"}

Row == [state : States, version : Nat, what : Whats, due : Dues, late : BOOLEAN,
        parent : Numbers]

NoRow == [state |-> "none"]

\* A desk between its read of a row and the answer to the PM.
Busy == [at : {"writing", "lost"}, id : Ids,
         verb : {"approve", "reject", "edit", "edit and approve"},
         what : Whats, due : Dues, seen : States, expected : Nat,
         pinned : BOOLEAN, retried : BOOLEAN,
         why : {"none", "terminal", "version", "illegal"}]

Idle == [at |-> "idle"]

TypeOK ==
    /\ rows \in [Ids -> Row \cup {NoRow}]
    /\ desk \in [Desks -> Busy \cup {Idle}]
    /\ \A i \in Ids : rows[i] # NoRow /\ i[2] > 0 => rows[i].parent < i[2]
    /\ \A d \in Desks : desk[d] # Idle => ~(desk[d].pinned /\ desk[d].retried)

Init ==
    /\ rows = [i \in Ids |-> NoRow]
    /\ desk = [d \in Desks |-> Idle]

-----------------------------------------------------------------------------
(* The rules of a row.                                                     *)

\* Past its review window, though the sweep has not reached it.
Overdue(row) == row.state = "staged" /\ row.late
Seen(row)    == IF Overdue(row) THEN "expired" ELSE row.state

\* `allowed`, for a type that records a commitment and has no executor.
Allowed(from, to) ==
    \/ from = "staged" /\ to \in {"approved", "rejected", "expired", "superseded"}
    \/ from = "approved" /\ to = "superseded"

\* `check_change`: why a change is refused, in the order it looks.
LateUnchecked(row, to) == row.state \in Terminal    \* a mutant: the desk alone looks

Closed(row, to) == \/ row.state \in Terminal
                   \/ Overdue(row) /\ to # "expired"

Refusal(row, to, expected) ==
    IF Closed(row, to) THEN "terminal"
    ELSE IF expected # row.version THEN "version"
    ELSE IF ~Allowed(row.state, to) THEN "illegal" ELSE "none"

\* edit_proposal: an expired row is edited, though not changed.
EditRefusal(row, expected) ==
    IF row.state \in Terminal /\ row.state # "expired" THEN "terminal"
    ELSE IF expected # row.version THEN "version" ELSE "none"

Moved(row, to) == [row EXCEPT !.state = to, !.version = @ + 1]

\* The rows below `i` in its chain: what is reached by `replaces` from it.
Replacing(r, S) == {n \in Numbers : rows[<<r, n>>] # NoRow /\ n > 0
                                   /\ rows[<<r, n>>].parent \in S}

Below(i) == {n \in Numbers :
               \A S \in SUBSET Numbers :
                   Replacing(i[1], S \cup {i[2]}) \subseteq S => n \in S}

NoneLivesBelow(i) == \A n \in Below(i) : rows[<<i[1], n>>].state \notin Live

\* One more than the highest replacement made of the root.
IsNext(r, n) == LET made == {m \in Numbers : rows[<<r, m>>] # NoRow} IN
                (\A m \in made : m < n) /\ n - 1 \in made

-----------------------------------------------------------------------------
(* What the PM asks of a desk.  A request refused at sight changes nothing *)
(* and is left out.                                                        *)

Target(v) == IF v = "approve" THEN "approved" ELSE "rejected"

Asked(i, v, w, seen, pinned) ==
    [at |-> "writing", id |-> i, verb |-> v, what |-> w, due |-> rows[i].due,
     seen |-> seen, expected |-> rows[i].version, pinned |-> pinned,
     retried |-> FALSE, why |-> "none"]

\* ProposalDesk._change, as far as the row it read.
AsksChange(d, i, v, pinned) ==
    /\ desk[d].at = "idle" /\ rows[i].state # "none"
    /\ v \in {"approve", "reject"} /\ rows[i].state # Target(v)
    /\ ~(v = "reject" /\ rows[i].state = "approved")
    /\ desk' = [desk EXCEPT ![d] = Asked(i, v, rows[i].what, rows[i].state, pinned)]
    /\ UNCHANGED rows

\* ProposalDesk._edit, as far as the row it read; an edit to the value it
\* holds already is none.
AsksEdit(d, i, v, w, pinned) ==
    /\ desk[d].at = "idle" /\ v \in {"edit", "edit and approve"}
    /\ Seen(rows[i]) \in Live \cup {"expired"}
    /\ Seen(rows[i]) = "expired" => NoneLivesBelow(i)
    /\ w # rows[i].what
    /\ desk' = [desk EXCEPT ![d] = Asked(i, v, w, Seen(rows[i]), pinned)]
    /\ UNCHANGED rows

-----------------------------------------------------------------------------
(* The change a desk asked for, in one transaction, and what follows.      *)

Ends(d)       == [desk EXCEPT ![d] = Idle]
Loses(d, why) == [desk EXCEPT ![d].at = "lost", ![d].why = why]

\* change_proposal.
Changes(d) ==
    LET i   == desk[d].id
        to  == Target(desk[d].verb)
        why == Refusal(rows[i], to, desk[d].expected)
    IN  /\ desk[d].at = "writing" /\ desk[d].verb \in {"approve", "reject"}
        /\ \/ /\ why = "none"
              /\ rows' = [rows EXCEPT ![i] = Moved(@, to)]
              /\ desk' = Ends(d)
           \/ /\ why # "none"
              /\ desk' = Loses(d, why)
              /\ UNCHANGED rows

\* The replacement of row i an edit by desk d makes.
Replacement(d, i) ==
    [state |-> CASE desk[d].verb = "edit and approve" -> "approved"
                 [] Seen(rows[i]) = "expired"         -> "staged"
                 [] OTHER                             -> rows[i].state,
     version |-> 1, what |-> desk[d].what, due |-> desk[d].due, late |-> FALSE,
     parent |-> i[2]]

\* An expired row is left as it is, and replaced only if nothing below it lives.
ReplacesAlways(i) == TRUE   \* a mutant: the primary key is relied on

MayReplace(i) == Seen(rows[i]) = "expired" => NoneLivesBelow(i)

\* edit_proposal.
Edits(d) ==
    LET i   == desk[d].id
        why == EditRefusal(rows[i], desk[d].expected)
    IN  /\ desk[d].at = "writing" /\ desk[d].verb \in {"edit", "edit and approve"}
        /\ \/ /\ why = "none" /\ MayReplace(i)
              /\ \E n \in Numbers :
                   /\ IsNext(i[1], n)
                   /\ rows' = [rows EXCEPT
                        ![i] = IF Seen(@) = "expired" THEN @ ELSE Moved(@, "superseded"),
                        ![<<i[1], n>>] = Replacement(d, i)]
              /\ desk' = Ends(d)
           \/ /\ why = "none" /\ ~MayReplace(i)
              /\ desk' = Ends(d)
              /\ UNCHANGED rows
           \/ /\ why # "none"
              /\ desk' = Loses(d, why)
              /\ UNCHANGED rows

\* A change that was refused: the row is read again, and the change tried once
\* more if only its version had moved.  An edit is made anew from that row.
RetriesPinned(d) ==         \* a mutant: --if-version holds for the first try
    /\ desk[d].why = "version" /\ ~desk[d].retried
    /\ Seen(rows[desk[d].id]) = desk[d].seen

MayTryAgain(d) ==
    /\ desk[d].why = "version" /\ ~desk[d].pinned /\ ~desk[d].retried
    /\ Seen(rows[desk[d].id]) = desk[d].seen

SameEditAgain(d) ==         \* a mutant: the values first computed are kept
    [desk[d] EXCEPT !.at = "writing", !.why = "none", !.retried = TRUE,
                    !.expected = rows[desk[d].id].version]

AsReadAgain(d) ==
    LET row == rows[desk[d].id] IN
    [desk[d] EXCEPT
        !.at = "writing", !.why = "none", !.retried = TRUE, !.expected = row.version,
        !.due = IF desk[d].verb \in {"approve", "reject"} THEN @ ELSE row.due]

FindsItDone(d) ==
    /\ desk[d].verb \in {"approve", "reject"}
    /\ rows[desk[d].id].state = Target(desk[d].verb)

Reloads(d) ==
    /\ desk[d].at = "lost"
    /\ \/ FindsItDone(d) /\ desk' = Ends(d)
       \/ /\ ~FindsItDone(d) /\ MayTryAgain(d)
          /\ desk' = [desk EXCEPT ![d] = AsReadAgain(d)]
       \/ ~FindsItDone(d) /\ ~MayTryAgain(d) /\ desk' = Ends(d)
    /\ UNCHANGED rows

\* The process is killed, or the store is busy for longer than it waits.
Abandons(d) ==
    /\ desk[d].at # "idle"
    /\ desk' = Ends(d)
    /\ UNCHANGED rows

-----------------------------------------------------------------------------
(* The clock, the sweep and the re-summary.                                *)

WindowCloses(i) ==
    /\ rows[i].state = "staged" /\ ~rows[i].late
    /\ rows' = [rows EXCEPT ![i].late = TRUE]
    /\ UNCHANGED desk

\* overdue_proposals, read before, and expire_overdue, one transaction: each row
\* by the version read.  PastIsFrozen is why no version has moved meanwhile.
Expires(row) == Overdue(row) /\ Refusal(row, "expired", row.version) = "none"

Sweeps(S) ==
    /\ S # {} /\ \A i \in S : Expires(rows[i])
    /\ rows' = [i \in Ids |-> IF i \in S THEN Moved(rows[i], "expired") ELSE rows[i]]
    /\ UNCHANGED desk

Fresh(P) == {r \in P : rows[<<r, 0>>].state = "none"}

\* An item that stays live after this summary holds the same `what`.
Repeats(P, r) ==
    \E j \in Ids : /\ rows[j].state \in Live /\ ~Overdue(rows[j])
                   /\ rows[j].what = WhatOf[r]
                   /\ j[2] > 0 \/ rows[j].state = "approved" \/ j[1] \in P

\* The new ones that are staged: of those that repeat each other the first.
Stageable(P, S) ==
    /\ S \subseteq Fresh(P)
    /\ \A r \in S : ~Repeats(P, r) /\ \A q \in S \ {r} : WhatOf[q] # WhatOf[r]
    /\ \A r \in Fresh(P) \ S : Repeats(P, r) \/ \E q \in S : WhatOf[q] = WhatOf[r]

\* _restage: an item still waiting is rewritten, and keeps its window.
RewritesInPlace(row, u) ==  \* a mutant: the version stays
    IF row.state = "staged" /\ ~Overdue(row) THEN [row EXCEPT !.due = u] ELSE row

Restaged(row, u) ==
    IF row.state = "staged" /\ ~Overdue(row) /\ row.due # u
      THEN [row EXCEPT !.due = u, !.version = @ + 1] ELSE row

\* Waiting, and no longer produced.
Dropped(row) ==
    IF row.state = "staged" /\ ~Overdue(row) THEN Moved(row, "superseded") ELSE row

\* stage_summary_items: a summary produces the items P with these dates.
Summarizes(P, due) ==
    /\ \A r \in P : rows[<<r, 0>>] # NoRow => rows[<<r, 0>>].version < MaxVersion
    /\ \E S \in SUBSET P :
        /\ Stageable(P, S)
        /\ rows' = [i \in Ids |->
              IF i[2] > 0 THEN rows[i]
              ELSE IF i[1] \in S
                THEN [state |-> "staged", version |-> 1, what |-> WhatOf[i[1]],
                      due |-> due[i[1]], late |-> FALSE, parent |-> 0]
              ELSE IF i[1] \in P THEN Restaged(rows[i], due[i[1]])
              ELSE Dropped(rows[i])]
    /\ UNCHANGED desk

-----------------------------------------------------------------------------
Asks(d) == \E i \in Ids, v \in {"approve", "reject", "edit", "edit and approve"}, pinned \in BOOLEAN :
              \/ AsksChange(d, i, v, pinned)
              \/ \E w \in Whats : AsksEdit(d, i, v, w, pinned)

Works(d) == Changes(d) \/ Edits(d) \/ Reloads(d) \/ Abandons(d)

Next == \/ \E d \in Desks : Asks(d) \/ Works(d)
        \/ \E i \in Ids : WindowCloses(i)
        \/ \E S \in SUBSET Ids : Sweeps(S)
        \/ \E P \in SUBSET Roots : \E due \in [P -> Dues] : Summarizes(P, due)

Spec == Init /\ [][Next]_vars

-----------------------------------------------------------------------------
(* Properties.                                                             *)

\* An edit takes every value the PM did not give from the row it replaces, also
\* when a re-summary rewrote that row after the PM's desk had read it.
EditsKeepRewrites ==
    \A i \in Ids : (rows[i] # NoRow /\ i[2] > 0) =>
        rows[i].due = rows[<<i[1], rows[i].parent>>].due

\* What is rejected, superseded, expired, or past its window although no sweep
\* has reached it, is changed by nobody: not by a desk that read it before, not
\* by a re-summary; only the sweep still writes down that it expired.
PastIsFrozen ==
    [][\A i \in Ids :
          /\ rows[i].state \in Terminal => rows'[i] = rows[i]
          /\ Overdue(rows[i]) => rows'[i] \in {rows[i], Moved(rows[i], "expired")}]_vars

\* With --if-version the PM approves the values that were shown, or nothing.
ShownIsApproved ==
    [][\A d \in Desks, i \in Ids :
          (/\ desk[d].at = "writing" /\ desk[d].id = i /\ desk[d].verb = "approve" /\ desk[d].pinned
           /\ desk'[d].at = "idle" /\ rows[i].state = "staged" /\ rows'[i].state = "approved")
            => rows'[i].what = desk[d].what /\ rows'[i].due = desk[d].due]_vars

\* Of the replacements made directly of one item at most one is live: two edits
\* at once, and a second one of an expired item, leave one.
OneLiveReplacement ==
    \A i, j \in Ids :
        /\ rows[i].state \in Live /\ rows[j].state \in Live
        /\ i[1] = j[1] /\ i[2] > 0 /\ j[2] > 0 /\ rows[i].parent = rows[j].parent
        => i = j

\* "editing an expired proposal stages a replacement, at most one live one".
OneLiveInChain ==
    \A i, j \in Ids :
        (Seen(rows[i]) \in Live /\ Seen(rows[j]) \in Live /\ i[1] = j[1]) => i = j

=============================================================================
