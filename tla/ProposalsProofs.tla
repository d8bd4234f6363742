-------------------------- MODULE ProposalsProofs --------------------------
(***************************************************************************)
(* Proofs about Proposals, for any items, values and desks and any number  *)
(* of replacements.  The inductive invariant says that a row which was     *)
(* replaced is closed and holds the date its replacements hold, and that   *)
(* what a desk computed from a row is what the row still holds, as long as *)
(* the row is at the version the desk read.                                *)
(***************************************************************************)
EXTENDS Proposals, TLAPS

There(i) == rows[i] # NoRow

\* A row that was replaced is closed, and its replacements hold its date.
ChainInv ==
    \A i \in Ids : There(i) /\ i[2] > 0 =>
        LET p == rows[<<i[1], rows[i].parent>>] IN
        /\ p # NoRow /\ (p.state \in Terminal \/ Overdue(p))
        /\ rows[i].due = p.due

Edit == {"edit", "edit and approve"}

\* What a desk that has not changed its row yet holds of it.
DeskAt(d) ==
    LET row == rows[desk[d].id] IN
    /\ row # NoRow /\ desk[d].expected <= row.version
    /\ desk[d].at = "writing" /\ desk[d].expected = row.version =>
          /\ desk[d].verb \in Edit \/ ~desk[d].retried => desk[d].due = row.due
          /\ desk[d].verb = "approve" /\ ~desk[d].retried => desk[d].what = row.what

DeskInv == \A d \in Desks : desk[d] # Idle => DeskAt(d)

IInv == TypeOK /\ ChainInv /\ OneLiveReplacement /\ DeskInv

-----------------------------------------------------------------------------

\* A replacement and its root are known by their two numbers.
LEMMA IdsFacts ==
  /\ \A i \in Ids : i[1] \in Roots /\ i[2] \in Numbers /\ i = <<i[1], i[2]>>
  /\ \A r \in Roots, n \in Numbers : <<r, n>> \in Ids
  /\ Numbers \subseteq Nat /\ MaxEdits \in Nat
  BY BoundsAssumption DEF Ids, Numbers

\* A place holds a row, or none.
LEMMA RowFacts ==
  ASSUME TypeOK, NEW i \in Ids
  PROVE  /\ rows[i] = NoRow \/ rows[i] \in Row
         /\ rows[i] = NoRow <=> rows[i].state = "none"
         /\ rows[i].state \in States <=> rows[i] # NoRow
<1>1. rows[i] = NoRow \/ rows[i] \in Row
  BY DEF TypeOK
<1>2. rows[i] = NoRow => rows[i].state = "none"
  BY DEF NoRow
<1>3. rows[i] \in Row => rows[i].state \in States
  BY DEF Row
<1> QED
  BY <1>1, <1>2, <1>3 DEF States

LEMMA SameVersion == \A n \in Nat : n <= n
  OBVIOUS

LEMMA InitEstablishes == Init => IInv
<1> SUFFICES ASSUME Init PROVE IInv
  OBVIOUS
<1>1. TypeOK
  BY DEF Init, TypeOK
<1>2. \A i \in Ids : rows[i] = NoRow /\ rows[i].state = "none"
  BY DEF Init, NoRow
<1>3. ChainInv /\ OneLiveReplacement
  BY <1>2 DEF ChainInv, There, OneLiveReplacement, Live
<1>4. DeskInv
  BY DEF Init, DeskInv
<1> QED
  BY <1>1, <1>3, <1>4 DEF IInv

\* How a row that is there may change in one step, whoever takes it.
Changed(i, a, b) ==
    /\ b \in Row /\ b.parent = a.parent /\ b.what = a.what
    /\ b.version >= a.version /\ (b.version = a.version => b.due = a.due)
    /\ a.state \in Terminal => b = a
    /\ Overdue(a) => b \in {a, Moved(a, "expired")}
    /\ b.state \in Live => a.state \in Live
    /\ i[2] > 0 => b.due = a.due

RowsKeep == \A i \in Ids : There(i) => Changed(i, rows[i], rows'[i])

\* What a step may do to a row: nothing; close its window; move it; rewrite its date.
LEMMA SameIsChange ==
  ASSUME NEW i \in Ids, NEW a \in Row
  PROVE  Changed(i, a, a)
<1>1. a.version \in Nat
  BY DEF Row
<1> QED
  BY <1>1 DEF Changed

\* A row with another state and version, or another date and version.
Stated(a, to, v) == [a EXCEPT !.state = to, !.version = v]
Dated(a, u, v)   == [a EXCEPT !.due = u, !.version = v]

LEMMA StatedFacts ==
  ASSUME NEW a \in Row, NEW to \in States, NEW v \in Nat
  PROVE  LET b == Stated(a, to, v) IN
         /\ b \in Row /\ b.parent = a.parent /\ b.what = a.what /\ b.due = a.due
         /\ b.state = to /\ b.version = v /\ b.late = a.late
  BY DEF Row, Stated

LEMMA DatedFacts ==
  ASSUME NEW a \in Row, NEW u \in Dues, NEW v \in Nat
  PROVE  LET b == Dated(a, u, v) IN
         /\ b \in Row /\ b.parent = a.parent /\ b.what = a.what /\ b.due = u
         /\ b.state = a.state /\ b.version = v
  BY DEF Row, Dated

LEMMA LateIsChange ==
  ASSUME NEW i \in Ids, NEW a \in Row, a.state = "staged", ~a.late
  PROVE  Changed(i, a, [a EXCEPT !.late = TRUE])
<1> DEFINE b == [a EXCEPT !.late = TRUE]
<1>1. /\ b \in Row /\ b.parent = a.parent /\ b.what = a.what /\ b.version = a.version
      /\ b.due = a.due /\ b.state = a.state /\ a.version \in Nat
  BY DEF Row
<1> HIDE DEF b
<1>2. a.state \notin Terminal /\ ~Overdue(a)
  BY DEF Terminal, Overdue
<1>3. Changed(i, a, b)
  BY <1>1, <1>2 DEF Changed
<1> QED
  BY <1>3 DEF b

LEMMA MoveIsChange ==
  ASSUME NEW i \in Ids, NEW a \in Row, NEW to \in States, a.state \notin Terminal,
         Overdue(a) => to = "expired", to \in Live => a.state \in Live
  PROVE  Changed(i, a, Moved(a, to))
<1>1. /\ Moved(a, to) \in Row /\ Moved(a, to).parent = a.parent /\ Moved(a, to).what = a.what
      /\ Moved(a, to).version = a.version + 1 /\ Moved(a, to).due = a.due
      /\ Moved(a, to).state = to /\ a.version \in Nat
  <2>1. a.version \in Nat /\ a.version + 1 \in Nat
    BY DEF Row
  <2>2. Moved(a, to) = Stated(a, to, a.version + 1)
    BY Zenon DEF Moved, Stated
  <2> QED
    BY <2>1, <2>2, StatedFacts
<1> QED
  BY <1>1 DEF Changed

LEMMA RewriteIsChange ==
  ASSUME NEW i \in Ids, i[2] = 0, NEW a \in Row, a.state = "staged", ~Overdue(a), NEW u \in Dues
  PROVE  Changed(i, a, Dated(a, u, a.version + 1))
<1>1. a.version \in Nat /\ a.version + 1 \in Nat /\ a.version + 1 > a.version
  BY DEF Row
<1>2. a.state \notin Terminal
  BY DEF Terminal
<1> QED
  BY <1>1, <1>2, DatedFacts DEF Changed

LEMMA RowIsThere == \A b \in Row : b # NoRow /\ b.state \in States /\ b.state # "none"
<1>1. \A b \in Row : b.state \in States
  BY DEF Row
<1>2. NoRow.state = "none" /\ "none" \notin States
  BY DEF NoRow, States
<1> QED
  BY <1>1, <1>2

\* A closed row keeps its date, and stays closed.
LEMMA ClosedStays ==
  ASSUME TypeOK, NEW j \in Ids, There(j), Changed(j, rows[j], rows'[j]),
         rows[j].state \in Terminal \/ Overdue(rows[j])
  PROVE  /\ rows'[j] # NoRow /\ (rows'[j].state \in Terminal \/ Overdue(rows'[j]))
         /\ \/ rows'[j].due = rows[j].due /\ rows'[j].state \notin Live
            \/ rows'[j] = rows[j] /\ Overdue(rows[j])
<1>1. rows[j] \in Row
  BY RowFacts DEF There
<1>2. rows'[j] \in {rows[j], Moved(rows[j], "expired")}
  BY DEF Changed
<1>3. CASE rows'[j] = rows[j]
  BY <1>1, <1>3, RowIsThere DEF Terminal, Live
<1>4. CASE rows'[j] = Moved(rows[j], "expired")
  <2>1. rows[j].version + 1 \in Nat
    BY <1>1 DEF Row
  <2>2. Moved(rows[j], "expired") = Stated(rows[j], "expired", rows[j].version + 1)
    BY Zenon DEF Moved, Stated
  <2>3. "expired" \in States /\ "expired" \in Terminal /\ "expired" \notin Live
    BY DEF States, Terminal, Live
  <2>4. /\ Moved(rows[j], "expired") \in Row /\ Moved(rows[j], "expired").state = "expired"
        /\ Moved(rows[j], "expired").due = rows[j].due
    BY <1>1, <2>1, <2>2, <2>3, StatedFacts
  <2> QED
    BY <1>4, <2>3, <2>4, RowIsThere
<1> QED
  BY <1>2, <1>3, <1>4

\* A replacement that is there keeps its parent, its date, and the closed row it replaced.
LEMMA ReplacementKept ==
  ASSUME TypeOK, ChainInv, RowsKeep, NEW i \in Ids, There(i), i[2] > 0
  PROVE  LET p == rows'[<<i[1], rows'[i].parent>>] IN
         /\ rows'[i].parent = rows[i].parent /\ rows'[i] # NoRow
         /\ rows'[i].state \in Live => rows[i].state \in Live
         /\ p # NoRow /\ (p.state \in Terminal \/ Overdue(p))
         /\ rows'[i].due = p.due
<1>1. /\ rows[i] \in Row /\ rows'[i].parent = rows[i].parent /\ rows'[i] \in Row
      /\ rows'[i].due = rows[i].due /\ (rows'[i].state \in Live => rows[i].state \in Live)
  BY RowFacts DEF RowsKeep, There, Changed
<1> DEFINE j == <<i[1], rows[i].parent>>
<1>2. j \in Ids
  BY <1>1, IdsFacts DEF Row
<1>3. There(j) /\ (rows[j].state \in Terminal \/ Overdue(rows[j])) /\ rows[i].due = rows[j].due
  BY <1>1 DEF ChainInv, There
<1> HIDE DEF j
<1>4. /\ rows'[j] # NoRow /\ (rows'[j].state \in Terminal \/ Overdue(rows'[j]))
      /\ rows'[j].due = rows[j].due
  BY <1>2, <1>3, ClosedStays DEF RowsKeep
<1> QED
  BY <1>1, <1>3, <1>4, RowIsThere DEF j

\* No new replacement: the chains stay as they are.
LEMMA ChainsKept ==
  ASSUME TypeOK, ChainInv, OneLiveReplacement, RowsKeep,
         \A i \in Ids : ~There(i) /\ i[2] > 0 => rows'[i] = NoRow
  PROVE  ChainInv' /\ OneLiveReplacement'
<1>1. ASSUME NEW i \in Ids, rows'[i] # NoRow, i[2] > 0
      PROVE  LET p == rows'[<<i[1], rows'[i].parent>>] IN
             /\ rows'[i].parent = rows[i].parent
             /\ rows'[i].state \in Live => rows[i].state \in Live
             /\ p # NoRow /\ (p.state \in Terminal \/ Overdue(p))
             /\ rows'[i].due = p.due
  <2>1. There(i)
    BY <1>1
  <2> QED
    BY <1>1, <2>1, ReplacementKept
<1>2. ChainInv'
  BY <1>1 DEF ChainInv, There, Overdue
<1>3. \A i \in Ids : rows'[i].state \in Live => rows'[i] # NoRow
  BY DEF Live, NoRow
<1>4. OneLiveReplacement'
  BY <1>1, <1>3 DEF OneLiveReplacement
<1> QED
  BY <1>2, <1>4

-----------------------------------------------------------------------------
(* What each step does to the rows.                                         *)

LEMMA ChangeKeeps ==
  ASSUME TypeOK, NEW d \in Desks, desk[d] \in Busy,
         NEW to \in {"approved", "rejected"},
         Refusal(rows[desk[d].id], to, desk[d].expected) = "none", There(desk[d].id),
         rows' = [rows EXCEPT ![desk[d].id] = Moved(@, to)]
  PROVE  /\ RowsKeep /\ rows' \in [Ids -> Row \cup {NoRow}]
         /\ \A i \in Ids : ~There(i) => rows'[i] = NoRow
         /\ rows'[desk[d].id] = Moved(rows[desk[d].id], to)
         /\ desk[d].expected = rows[desk[d].id].version
<1> DEFINE i == desk[d].id
<1>1. i \in Ids /\ rows \in [Ids -> Row \cup {NoRow}]
  BY DEF Busy, TypeOK
<1>2. rows[i] \in Row
  BY <1>1, RowFacts DEF There
<1>3. /\ ~Closed(rows[i], to) /\ desk[d].expected = rows[i].version /\ Allowed(rows[i].state, to)
  BY DEF Refusal
<1>4. Changed(i, rows[i], Moved(rows[i], to))
  <2>1. rows[i].state \notin Terminal /\ ~Overdue(rows[i]) /\ to \in States
        /\ (to \in Live => rows[i].state \in Live)
    BY <1>3 DEF Closed, Allowed, Live, States
  <2> QED
    BY <1>1, <1>2, <2>1, MoveIsChange
<1>5. rows'[i] = Moved(rows[i], to) /\ \A j \in Ids : j # i => rows'[j] = rows[j]
  BY <1>1
<1>6. Moved(rows[i], to) \in Row
  BY <1>4 DEF Changed
<1>7. rows' \in [Ids -> Row \cup {NoRow}]
  BY <1>1, <1>6
<1>8. RowsKeep
  BY <1>4, <1>5, SameIsChange, RowFacts DEF RowsKeep, There
<1> QED
  BY <1>3, <1>5, <1>7, <1>8 DEF There

LEMMA WindowKeeps ==
  ASSUME TypeOK, NEW i \in Ids, WindowCloses(i)
  PROVE  /\ RowsKeep /\ rows' \in [Ids -> Row \cup {NoRow}]
         /\ \A j \in Ids : ~There(j) => rows'[j] = NoRow
<1>1. rows \in [Ids -> Row \cup {NoRow}] /\ rows[i] \in Row
  BY RowFacts DEF TypeOK, WindowCloses, States
<1>2. rows' = [rows EXCEPT ![i] = [rows[i] EXCEPT !.late = TRUE]]
  BY DEF WindowCloses
<1>3. /\ rows'[i] = [rows[i] EXCEPT !.late = TRUE]
      /\ \A j \in Ids : j # i => rows'[j] = rows[j]
  BY <1>1, <1>2
<1>4. Changed(i, rows[i], [rows[i] EXCEPT !.late = TRUE])
  BY <1>1, LateIsChange DEF WindowCloses
<1>5. [rows[i] EXCEPT !.late = TRUE] \in Row
  BY <1>4 DEF Changed
<1>6. RowsKeep
  BY <1>3, <1>4, SameIsChange, RowFacts DEF RowsKeep, There
<1>7. rows' \in [Ids -> Row \cup {NoRow}]
  BY <1>1, <1>2, <1>5
<1> QED
  BY <1>1, <1>3, <1>6, <1>7, RowIsThere DEF There

LEMMA SweepKeeps ==
  ASSUME TypeOK, NEW S \in SUBSET Ids, Sweeps(S)
  PROVE  /\ RowsKeep /\ rows' \in [Ids -> Row \cup {NoRow}]
         /\ \A j \in Ids : ~There(j) => rows'[j] = NoRow
<1>1. rows \in [Ids -> Row \cup {NoRow}]
  BY DEF TypeOK
<1>2. \A i \in S : rows[i] \in Row /\ Overdue(rows[i]) /\ rows[i].state \notin Terminal
  BY RowFacts DEF Sweeps, Expires, Overdue, States, Terminal
<1>3. \A i \in Ids : rows'[i] = IF i \in S THEN Moved(rows[i], "expired") ELSE rows[i]
  BY DEF Sweeps
<1>4. "expired" \in States /\ "expired" \notin Live
  BY DEF States, Live
<1>5. \A i \in S : Changed(i, rows[i], Moved(rows[i], "expired"))
  BY <1>2, <1>4, MoveIsChange
<1>6. \A i \in S : Moved(rows[i], "expired") \in Row
  BY <1>5 DEF Changed
<1>7. RowsKeep
  BY <1>3, <1>5, SameIsChange, RowFacts DEF RowsKeep, There
<1>8. rows' \in [Ids -> Row \cup {NoRow}]
  BY <1>1, <1>3, <1>6 DEF Sweeps
<1> QED
  BY <1>2, <1>3, <1>7, <1>8, RowIsThere DEF There

LEMMA SummaryKeeps ==
  ASSUME TypeOK, NEW P \in SUBSET Roots, NEW due \in [P -> Dues], Summarizes(P, due)
  PROVE  /\ RowsKeep /\ rows' \in [Ids -> Row \cup {NoRow}]
         /\ \A j \in Ids : ~There(j) /\ j[2] > 0 => rows'[j] = NoRow
<1>1. rows \in [Ids -> Row \cup {NoRow}]
  BY DEF TypeOK
<1>2. PICK S \in SUBSET P :
        /\ S \subseteq Fresh(P)
        /\ rows' = [i \in Ids |->
              IF i[2] > 0 THEN rows[i]
              ELSE IF i[1] \in S
                THEN [state |-> "staged", version |-> 1, what |-> WhatOf[i[1]],
                      due |-> due[i[1]], late |-> FALSE, parent |-> 0]
              ELSE IF i[1] \in P THEN Restaged(rows[i], due[i[1]])
              ELSE Dropped(rows[i])]
  BY DEF Summarizes, Stageable
<1>3. ASSUME NEW i \in Ids
      PROVE  /\ There(i) => Changed(i, rows[i], rows'[i])
             /\ rows'[i] \in Row \cup {NoRow}
             /\ ~There(i) /\ i[2] > 0 => rows'[i] = NoRow
  <2>1. /\ i[1] \in Roots /\ i[2] \in Nat /\ i = <<i[1], i[2]>>
        /\ rows[i] \in Row \cup {NoRow} /\ (There(i) => rows[i] \in Row)
    BY <1>1, IdsFacts, RowFacts DEF There
  <2>2. There(i) => Changed(i, rows[i], rows[i])
    BY <2>1, SameIsChange
  <2>3. CASE i[2] > 0
    BY <1>2, <2>1, <2>2, <2>3 DEF There
  <2>4. CASE i[2] = 0 /\ i[1] \in S
    <3>1. rows'[i] = [state |-> "staged", version |-> 1, what |-> WhatOf[i[1]],
                      due |-> due[i[1]], late |-> FALSE, parent |-> 0]
      BY <1>2, <2>1, <2>4
    <3>2. WhatOf[i[1]] \in Whats /\ due[i[1]] \in Dues /\ "staged" \in States /\ 0 \in Numbers
      BY <2>1, <2>4, FieldsAssumption, BoundsAssumption DEF States, Numbers
    <3>3. rows'[i] \in Row
      BY <3>1, <3>2 DEF Row
    <3>4. rows[i].state = "none"
      BY <1>2, <2>1, <2>4 DEF Fresh
    <3> QED
      BY <2>4, <3>3, <3>4, RowFacts DEF There
  <2>5. CASE i[2] = 0 /\ i[1] \notin S /\ i[1] \in P
    <3>1. rows'[i] = Restaged(rows[i], due[i[1]]) /\ due[i[1]] \in Dues
      BY <1>2, <2>1, <2>5
    <3>2. CASE rows[i].state = "staged" /\ ~Overdue(rows[i]) /\ rows[i].due # due[i[1]]
      <4>1. rows[i] \in Row
        BY <2>1, <3>2, RowFacts DEF States
      <4>2. rows'[i] = Dated(rows[i], due[i[1]], rows[i].version + 1)
        BY <3>1, <3>2, Zenon DEF Restaged, Dated
      <4>3. Changed(i, rows[i], rows'[i])
        BY <2>5, <3>1, <3>2, <4>1, <4>2, RewriteIsChange
      <4> QED
        BY <2>5, <4>3 DEF Changed
    <3>3. CASE ~(rows[i].state = "staged" /\ ~Overdue(rows[i]) /\ rows[i].due # due[i[1]])
      <4>1. rows'[i] = rows[i]
        BY <3>1, <3>3 DEF Restaged
      <4> QED
        BY <2>1, <2>2, <2>5, <4>1
    <3> QED
      BY <3>2, <3>3
  <2>6. CASE i[2] = 0 /\ i[1] \notin P
    <3>1. rows'[i] = Dropped(rows[i])
      BY <1>2, <2>1, <2>6
    <3>2. CASE rows[i].state = "staged" /\ ~Overdue(rows[i])
      <4>1. rows[i] \in Row /\ rows[i].state \notin Terminal
        BY <2>1, <3>2, RowFacts DEF States, Terminal
      <4>2. rows'[i] = Moved(rows[i], "superseded")
        BY <3>1, <3>2 DEF Dropped
      <4>3. "superseded" \in States /\ "superseded" \notin Live
        BY DEF States, Live
      <4>4. Changed(i, rows[i], rows'[i])
        BY <3>2, <4>1, <4>2, <4>3, MoveIsChange
      <4> QED
        BY <2>6, <4>4 DEF Changed
    <3>3. CASE ~(rows[i].state = "staged" /\ ~Overdue(rows[i]))
      <4>1. rows'[i] = rows[i]
        BY <3>1, <3>3 DEF Dropped
      <4> QED
        BY <2>1, <2>2, <2>6, <4>1
    <3> QED
      BY <3>2, <3>3
  <2> QED
    BY <2>1, <2>3, <2>4, <2>5, <2>6
<1>4. rows' \in [Ids -> Row \cup {NoRow}]
  BY <1>2, <1>3
<1> QED
  BY <1>3, <1>4 DEF RowsKeep

-----------------------------------------------------------------------------
(* A replacement is made.                                                   *)

\* Row c is the replacement that desk d makes of row i.
Replaces(d, i, c) ==
    /\ desk[d] \in Busy /\ i = desk[d].id /\ There(i) /\ desk[d].verb \in Edit
    /\ EditRefusal(rows[i], desk[d].expected) = "none" /\ MayReplace(i)
    /\ desk[d].due = rows[i].due
    /\ c[1] = i[1] /\ IsNext(i[1], c[2])
    /\ rows' = [rows EXCEPT
          ![i] = IF Seen(@) = "expired" THEN @ ELSE Moved(@, "superseded"),
          ![c] = Replacement(d, i)]

\* Its place was free and above the row it replaces.
LEMMA ReplacesPlace ==
  ASSUME TypeOK, NEW d \in Desks, NEW i \in Ids, NEW c \in Ids, Replaces(d, i, c)
  PROVE  /\ ~There(c) /\ c # i /\ c[2] > 0 /\ i[2] < c[2]
         /\ rows[i] \in Row /\ (rows[i].state \notin Terminal \/ Seen(rows[i]) = "expired")
         /\ rows'[i] = IF Seen(rows[i]) = "expired" THEN rows[i] ELSE Moved(rows[i], "superseded")
         /\ rows'[c] = Replacement(d, i)
         /\ \A j \in Ids : j # i /\ j # c => rows'[j] = rows[j]
<1>1. /\ i[1] \in Roots /\ i[2] \in Nat /\ i = <<i[1], i[2]>> /\ i[2] \in Numbers
      /\ c[1] \in Roots /\ c[2] \in Nat /\ c = <<c[1], c[2]>> /\ c[2] \in Numbers
      /\ Numbers \subseteq Nat
  BY IdsFacts
<1> DEFINE made == {m \in Numbers : rows[<<i[1], m>>] # NoRow}
<1>2. (\A m \in made : m < c[2]) /\ c[2] - 1 \in made
  BY DEF Replaces, IsNext
<1>3. i[2] \in made
  BY <1>1 DEF Replaces, There
<1>4. i[2] < c[2] /\ c[2] \notin made /\ c[2] > 0
  BY <1>1, <1>2, <1>3
<1>5. ~There(c) /\ c # i
  BY <1>1, <1>4 DEF Replaces, There
<1>6. rows[i] \in Row /\ rows \in [Ids -> Row \cup {NoRow}]
  BY RowFacts DEF Replaces, TypeOK, There
<1>7. rows[i].state \notin Terminal \/ Seen(rows[i]) = "expired"
  BY DEF Replaces, EditRefusal, Seen, Overdue
<1>8. /\ rows'[i] = IF Seen(rows[i]) = "expired" THEN rows[i] ELSE Moved(rows[i], "superseded")
      /\ rows'[c] = Replacement(d, i)
      /\ \A j \in Ids : j # i /\ j # c => rows'[j] = rows[j]
  BY <1>5, <1>6 DEF Replaces
<1> QED
  BY <1>4, <1>5, <1>6, <1>7, <1>8

\* The rows that were there change as any row may; the new one is a row.
LEMMA ReplacesRows ==
  ASSUME TypeOK, NEW d \in Desks, NEW i \in Ids, NEW c \in Ids, Replaces(d, i, c)
  PROVE  /\ RowsKeep /\ rows' \in [Ids -> Row \cup {NoRow}]
         /\ rows'[c] \in Row /\ rows'[c].parent = i[2] /\ rows'[c].due = rows[i].due
         /\ rows'[i] # NoRow /\ rows'[i].due = rows[i].due
         /\ rows'[i].state \in Terminal \/ Overdue(rows'[i])
<1>1. /\ ~There(c) /\ c # i /\ c[2] > 0 /\ i[2] < c[2]
      /\ rows[i] \in Row /\ (rows[i].state \notin Terminal \/ Seen(rows[i]) = "expired")
      /\ rows'[i] = IF Seen(rows[i]) = "expired" THEN rows[i] ELSE Moved(rows[i], "superseded")
      /\ rows'[c] = Replacement(d, i)
      /\ \A j \in Ids : j # i /\ j # c => rows'[j] = rows[j]
  BY ReplacesPlace
<1>2. rows'[c] \in Row /\ rows'[c].parent = i[2] /\ rows'[c].due = rows[i].due
  <2>1. /\ desk[d].what \in Whats /\ desk[d].due \in Dues /\ desk[d].due = rows[i].due
        /\ rows[i].state \in States /\ i[2] \in Numbers
    BY <1>1, IdsFacts DEF Replaces, Busy, Row
  <2>2. \E st \in States : Replacement(d, i) =
           [state |-> st, version |-> 1, what |-> desk[d].what, due |-> desk[d].due,
            late |-> FALSE, parent |-> i[2]]
    <3>1. "approved" \in States /\ "staged" \in States
      BY DEF States
    <3> QED
      BY <2>1, <3>1 DEF Replacement
  <2> QED
    BY <1>1, <2>1, <2>2 DEF Row
<1>3. CASE Seen(rows[i]) = "expired"
  <2>1. rows'[i] = rows[i]
    BY <1>1, <1>3
  <2>2. rows[i].state \in Terminal \/ Overdue(rows[i])
    BY <1>3 DEF Seen, Terminal
  <2>3. RowsKeep
    BY <1>1, <2>1, SameIsChange, RowFacts DEF RowsKeep, There
  <2>4. rows' \in [Ids -> Row \cup {NoRow}]
    <3>1. rows' = [rows EXCEPT ![i] = rows[i], ![c] = rows'[c]]
      BY <1>1, <1>3, Zenon DEF Replaces
    <3> QED
      BY <1>1, <1>2, <3>1 DEF TypeOK
  <2> QED
    BY <1>1, <1>2, <2>1, <2>2, <2>3, <2>4, RowIsThere
<1>4. CASE Seen(rows[i]) # "expired"
  <2>1. rows'[i] = Moved(rows[i], "superseded")
    BY <1>1, <1>4
  <2>2. rows[i].state \notin Terminal /\ ~Overdue(rows[i])
    BY <1>1, <1>4 DEF Seen
  <2>3. "superseded" \in States /\ "superseded" \in Terminal /\ "superseded" \notin Live
    BY DEF States, Terminal, Live
  <2>4. Changed(i, rows[i], Moved(rows[i], "superseded"))
    BY <1>1, <2>2, <2>3, MoveIsChange
  <2>5. RowsKeep
    BY <1>1, <2>1, <2>4, SameIsChange, RowFacts DEF RowsKeep, There
  <2>6. rows'[i] \in Row /\ rows'[i].due = rows[i].due /\ rows'[i].state = "superseded"
    <3>1. rows[i].version + 1 \in Nat
      BY <1>1 DEF Row
    <3>2. Moved(rows[i], "superseded") = Stated(rows[i], "superseded", rows[i].version + 1)
      BY Zenon DEF Moved, Stated
    <3> QED
      BY <1>1, <2>1, <2>3, <3>1, <3>2, StatedFacts
  <2>7. rows' \in [Ids -> Row \cup {NoRow}]
    BY <1>2, <2>6 DEF Replaces, TypeOK
  <2> QED
    BY <1>2, <2>3, <2>5, <2>6, <2>7, RowIsThere
<1> QED
  BY <1>3, <1>4

\* Of what replaced the row before, nothing lives.
LEMMA NoOtherLives ==
  ASSUME TypeOK, ChainInv, NEW d \in Desks, NEW i \in Ids, NEW c \in Ids, Replaces(d, i, c),
         NEW j \in Ids, There(j), j[1] = i[1], j[2] > 0, rows[j].parent = i[2]
  PROVE  rows[j].state \notin Live
<1>1. /\ j = <<i[1], j[2]>> /\ j[2] \in Numbers /\ i = <<i[1], i[2]>>
  BY IdsFacts
<1>2. rows[i].state \in Terminal \/ Overdue(rows[i])
  BY <1>1 DEF ChainInv, There
<1>3. rows[i].state \notin Terminal \/ Seen(rows[i]) = "expired"
  BY ReplacesPlace
<1>4. Seen(rows[i]) = "expired"
  BY <1>2, <1>3 DEF Seen
<1>5. NoneLivesBelow(i)
  BY <1>4 DEF Replaces, MayReplace
<1>6. j[2] \in Below(i)
  <2>1. \A S \in SUBSET Numbers : j[2] \in Replacing(i[1], S \cup {i[2]})
    BY <1>1 DEF Replacing, There
  <2> QED
    BY <1>1, <2>1 DEF Below
<1> QED
  BY <1>1, <1>5, <1>6 DEF NoneLivesBelow

LEMMA ReplacesKeeps ==
  ASSUME TypeOK, ChainInv, OneLiveReplacement,
         NEW d \in Desks, NEW i \in Ids, NEW c \in Ids, Replaces(d, i, c)
  PROVE  ChainInv' /\ OneLiveReplacement'
<1>1. /\ RowsKeep /\ rows' \in [Ids -> Row \cup {NoRow}]
      /\ rows'[c] \in Row /\ rows'[c].parent = i[2] /\ rows'[c].due = rows[i].due
      /\ rows'[i] # NoRow /\ rows'[i].due = rows[i].due
      /\ rows'[i].state \in Terminal \/ Overdue(rows'[i])
  BY ReplacesRows
<1>2. \A j \in Ids : j # c /\ rows'[j] # NoRow => There(j)
  <2>1. \A j \in Ids : j # i /\ j # c => rows'[j] = rows[j]
    BY ReplacesPlace
  <2>2. There(i)
    BY DEF Replaces
  <2> QED
    BY <2>1, <2>2 DEF There
<1>3. c[1] = i[1] /\ i = <<i[1], i[2]>> /\ c[2] > 0
  BY IdsFacts, ReplacesPlace DEF Replaces
<1>4. ASSUME NEW j \in Ids, rows'[j] # NoRow, j[2] > 0, j # c
      PROVE  LET p == rows'[<<j[1], rows'[j].parent>>] IN
             /\ rows'[j].parent = rows[j].parent /\ There(j)
             /\ rows'[j].state \in Live => rows[j].state \in Live
             /\ p # NoRow /\ (p.state \in Terminal \/ Overdue(p))
             /\ rows'[j].due = p.due
  <2>1. There(j)
    BY <1>2, <1>4
  <2> QED
    BY <1>1, <1>4, <2>1, ReplacementKept
<1>5. ChainInv'
  <2>1. LET p == rows'[<<c[1], rows'[c].parent>>] IN
        p # NoRow /\ (p.state \in Terminal \/ Overdue(p)) /\ rows'[c].due = p.due
    BY <1>1, <1>3
  <2> QED
    BY <1>4, <2>1 DEF ChainInv, There, Overdue
<1>6. OneLiveReplacement'
  <2>1. \A j \in Ids : rows'[j].state \in Live => rows'[j] # NoRow
    BY DEF Live, NoRow
  <2>2. ASSUME NEW j \in Ids, j # c, rows'[j].state \in Live, j[1] = i[1], j[2] > 0,
               rows'[j].parent = i[2]
        PROVE  FALSE
    BY <1>4, <2>1, <2>2, NoOtherLives
  <2>3. ASSUME NEW j \in Ids, NEW k \in Ids, j # c, k # c,
               rows'[j].state \in Live, rows'[k].state \in Live, j[1] = k[1],
               j[2] > 0, k[2] > 0, rows'[j].parent = rows'[k].parent
        PROVE  j = k
    BY <1>4, <2>1, <2>3 DEF OneLiveReplacement
  <2> QED
    BY <1>1, <1>3, <2>2, <2>3 DEF OneLiveReplacement
<1> QED
  BY <1>5, <1>6

-----------------------------------------------------------------------------
(* The desks.                                                               *)

LEMMA DeskFacts ==
  ASSUME TypeOK, NEW d \in Desks
  PROVE  /\ desk \in [Desks -> Busy \cup {Idle}]
         /\ desk[d] = Idle \/ desk[d] \in Busy
         /\ desk[d] = Idle <=> desk[d].at = "idle"
         /\ desk[d] # Idle => ~(desk[d].pinned /\ desk[d].retried)
<1>1. desk \in [Desks -> Busy \cup {Idle}]
  BY DEF TypeOK
<1>2. desk[d] \in Busy => desk[d].at # "idle"
  BY DEF Busy
<1>3. Idle.at = "idle"
  BY DEF Idle
<1> QED
  BY <1>1, <1>2, <1>3 DEF TypeOK

\* A desk that another's step leaves alone still knows of its row what it did.
LEMMA DeskKept ==
  ASSUME TypeOK, DeskInv, RowsKeep, NEW e \in Desks, desk[e] # Idle, desk'[e] = desk[e]
  PROVE  DeskAt(e)'
<1>1. desk[e] \in Busy /\ DeskAt(e)
  BY DeskFacts DEF DeskInv
<1>2. desk[e].id \in Ids /\ desk[e].expected \in Nat
  BY <1>1 DEF Busy
<1> DEFINE i == desk[e].id
<1>3. There(i) /\ rows[i] \in Row /\ Changed(i, rows[i], rows'[i])
  BY <1>1, <1>2, RowFacts DEF DeskAt, There, RowsKeep
<1>4. rows[i].version \in Nat /\ rows'[i].version \in Nat /\ rows'[i] # NoRow
      /\ rows'[i].version >= rows[i].version /\ rows'[i].what = rows[i].what
      /\ (rows'[i].version = rows[i].version => rows'[i].due = rows[i].due)
  BY <1>3, RowIsThere DEF Changed, Row
<1>5. desk[e].expected <= rows[i].version
  BY <1>1 DEF DeskAt
<1>6. desk[e].expected <= rows'[i].version
      /\ (desk[e].expected = rows'[i].version => rows'[i].version = rows[i].version)
  BY <1>2, <1>4, <1>5
<1> QED
  BY <1>1, <1>4, <1>6 DEF DeskAt

\* What is to be shown of the desk that takes a step.
DeskStep(d) ==
    /\ \A e \in Desks : e # d => desk'[e] = desk[e]
    /\ desk' \in [Desks -> Busy \cup {Idle}]
    /\ desk'[d] # Idle => ~(desk'[d].pinned /\ desk'[d].retried) /\ DeskAt(d)'

LEMMA DeskStepKeeps ==
  ASSUME TypeOK, DeskInv, RowsKeep, NEW d \in Desks, DeskStep(d)
  PROVE  /\ DeskInv' /\ desk' \in [Desks -> Busy \cup {Idle}]
         /\ \A e \in Desks : desk'[e] # Idle => ~(desk'[e].pinned /\ desk'[e].retried)
<1>1. \A e \in Desks : e # d /\ desk'[e] # Idle => DeskAt(e)'
  BY DeskKept DEF DeskStep
<1>2. \A e \in Desks : desk'[e] # Idle => ~(desk'[e].pinned /\ desk'[e].retried)
  BY DeskFacts DEF DeskStep
<1>3. DeskInv'
  BY <1>1 DEF DeskStep, DeskInv
<1> QED
  BY <1>2, <1>3 DEF DeskStep

LEMMA SameRows ==
  ASSUME TypeOK, UNCHANGED rows
  PROVE  /\ RowsKeep /\ rows' \in [Ids -> Row \cup {NoRow}]
         /\ \A j \in Ids : ~There(j) => rows'[j] = NoRow
  BY SameIsChange, RowFacts DEF TypeOK, RowsKeep, There

\* The desk becomes idle.
LEMMA DeskEnds ==
  ASSUME TypeOK, NEW d \in Desks, desk' = Ends(d)
  PROVE  DeskStep(d)
<1>1. /\ desk'[d] = Idle /\ desk' \in [Desks -> Busy \cup {Idle}]
      /\ \A e \in Desks : e # d => desk'[e] = desk[e]
  BY DeskFacts DEF Ends
<1> QED
  BY <1>1 DEF DeskStep

\* It asks for a change of a row it has just read.
LEMMA DeskAsks ==
  ASSUME TypeOK, NEW d \in Desks, Asks(d)
  PROVE  DeskStep(d) /\ UNCHANGED rows
<1>1. PICK i \in Ids, v \in {"approve", "reject", "edit", "edit and approve"},
           pinned \in BOOLEAN, w \in Whats, seen \in States :
        /\ There(i) /\ desk' = [desk EXCEPT ![d] = Asked(i, v, w, seen, pinned)]
        /\ v = "approve" => w = rows[i].what
        /\ UNCHANGED rows
  <2>1. PICK i \in Ids, v \in {"approve", "reject", "edit", "edit and approve"},
             pinned \in BOOLEAN :
          AsksChange(d, i, v, pinned) \/ \E w \in Whats : AsksEdit(d, i, v, w, pinned)
    BY DEF Asks
  <2>2. CASE AsksChange(d, i, v, pinned)
    <3>1. rows[i] \in Row /\ There(i)
      BY <2>2, RowFacts DEF AsksChange, There
    <3>2. rows[i].state \in States /\ rows[i].what \in Whats
      BY <3>1 DEF Row
    <3> QED
      BY <2>1, <2>2, <3>1, <3>2 DEF AsksChange
  <2>3. CASE \E w \in Whats : AsksEdit(d, i, v, w, pinned)
    <3>1. PICK w \in Whats : AsksEdit(d, i, v, w, pinned)
      BY <2>3
    <3>2. Seen(rows[i]) \in {"staged", "approved", "expired"} /\ v # "approve"
      BY <3>1 DEF AsksEdit, Live
    <3>3. Seen(rows[i]) \in States /\ There(i)
      BY <3>2, RowFacts DEF Seen, Overdue, States, There
    <3> QED
      BY <2>1, <3>1, <3>2, <3>3 DEF AsksEdit
  <2> QED
    BY <2>1, <2>2, <2>3
<1>2. rows[i] \in Row /\ rows[i].version \in Nat /\ rows[i].due \in Dues
  BY <1>1, RowFacts DEF There, Row
<1> DEFINE a == Asked(i, v, w, seen, pinned)
<1>3. /\ a \in Busy /\ a.id = i /\ a.expected = rows[i].version /\ a.due = rows[i].due
      /\ a.what = w /\ a.verb = v /\ ~a.retried
  BY <1>2 DEF Asked, Busy
<1> HIDE DEF a
<1>4. desk'[d] = a /\ desk' \in [Desks -> Busy \cup {Idle}]
      /\ \A e \in Desks : e # d => desk'[e] = desk[e]
  BY <1>1, <1>3, DeskFacts DEF a
<1>5. DeskAt(d)'
  <2>1. rows[i].version <= rows[i].version
    BY <1>2, SameVersion, Zenon
  <2> QED
    BY <1>1, <1>3, <1>4, <2>1 DEF DeskAt, There
<1> QED
  BY <1>1, <1>3, <1>4, <1>5 DEF DeskStep

\* Its change was refused.
LEMMA DeskLoses ==
  ASSUME TypeOK, DeskInv, NEW d \in Desks, desk[d].at = "writing", UNCHANGED rows,
         NEW why \in {"none", "terminal", "version", "illegal"}, desk' = Loses(d, why)
  PROVE  DeskStep(d)
<1>1. desk[d] \in Busy /\ desk[d] # Idle /\ DeskAt(d) /\ ~(desk[d].pinned /\ desk[d].retried)
  BY DeskFacts DEF DeskInv
<1> DEFINE a == [desk[d] EXCEPT !.at = "lost", !.why = why]
<1>2. /\ a \in Busy /\ a.at = "lost" /\ a.id = desk[d].id /\ a.expected = desk[d].expected
      /\ a.pinned = desk[d].pinned /\ a.retried = desk[d].retried
  BY <1>1 DEF Busy
<1>3. desk' = [desk EXCEPT ![d] = a]
  BY DeskFacts DEF Loses
<1> HIDE DEF a
<1>4. desk'[d] = a /\ desk' \in [Desks -> Busy \cup {Idle}]
      /\ \A e \in Desks : e # d => desk'[e] = desk[e]
  BY <1>2, <1>3, DeskFacts
<1>5. DeskAt(d)'
  BY <1>1, <1>2, <1>4 DEF DeskAt
<1> QED
  BY <1>1, <1>2, <1>4, <1>5 DEF DeskStep

\* It reads its row again, and gives up or asks once more.
LEMMA DeskReloads ==
  ASSUME TypeOK, DeskInv, NEW d \in Desks, Reloads(d)
  PROVE  DeskStep(d) /\ UNCHANGED rows
<1>1. CASE desk' = Ends(d)
  BY <1>1, DeskEnds DEF Reloads
<1>2. CASE MayTryAgain(d) /\ desk' = [desk EXCEPT ![d] = AsReadAgain(d)]
  <2>1. desk[d] \in Busy /\ desk[d] # Idle /\ DeskAt(d) /\ ~desk[d].pinned /\ UNCHANGED rows
    BY <1>2, DeskFacts DEF Reloads, DeskInv, MayTryAgain
  <2>2. rows[desk[d].id] \in Row /\ desk[d].id \in Ids
    BY <2>1, RowFacts DEF DeskAt, Busy
  <2>3. rows[desk[d].id].version \in Nat /\ rows[desk[d].id].due \in Dues
    BY <2>2 DEF Row
  <2> DEFINE a == AsReadAgain(d)
  <2>4. /\ a \in Busy /\ a.id = desk[d].id /\ a.expected = rows[desk[d].id].version
        /\ a.pinned = desk[d].pinned /\ a.retried /\ a.verb = desk[d].verb
        /\ desk[d].verb \in Edit => a.due = rows[desk[d].id].due
    BY <2>1, <2>3 DEF AsReadAgain, Busy, Edit
  <2> HIDE DEF a
  <2>5. desk'[d] = a /\ desk' \in [Desks -> Busy \cup {Idle}]
        /\ \A e \in Desks : e # d => desk'[e] = desk[e]
    BY <1>2, <2>4, DeskFacts DEF a
  <2>6. DeskAt(d)'
    <3>1. rows[desk[d].id].version <= rows[desk[d].id].version
      BY <2>3
    <3> QED
      BY <2>1, <2>4, <2>5, <3>1 DEF DeskAt
  <2> QED
    BY <2>1, <2>4, <2>5, <2>6 DEF DeskStep
<1> QED
  BY <1>1, <1>2 DEF Reloads

-----------------------------------------------------------------------------
(* Every step.                                                              *)

\* A step that inserts no replacement.
LEMMA PlainStep ==
  ASSUME IInv, RowsKeep, rows' \in [Ids -> Row \cup {NoRow}],
         \A j \in Ids : ~There(j) /\ j[2] > 0 => rows'[j] = NoRow,
         UNCHANGED desk \/ \E d \in Desks : DeskStep(d)
  PROVE  IInv' /\ RowsKeep
<1>1. TypeOK /\ ChainInv /\ OneLiveReplacement /\ DeskInv
  BY DEF IInv
<1>2. ChainInv' /\ OneLiveReplacement'
  BY <1>1, ChainsKept
<1>3. /\ DeskInv' /\ desk' \in [Desks -> Busy \cup {Idle}]
      /\ \A e \in Desks : desk'[e] # Idle => ~(desk'[e].pinned /\ desk'[e].retried)
  <2>1. CASE UNCHANGED desk
    <3>1. \A e \in Desks : desk'[e] # Idle => DeskAt(e)'
      BY <1>1, <2>1, DeskKept
    <3> QED
      BY <1>1, <2>1, <3>1 DEF DeskInv, TypeOK
  <2>2. CASE \E d \in Desks : DeskStep(d)
    BY <1>1, <2>2, DeskStepKeeps
  <2> QED
    BY <2>1, <2>2
<1>4. \A i \in Ids : rows'[i] # NoRow /\ i[2] > 0 => rows'[i].parent < i[2]
  BY <1>1 DEF TypeOK, RowsKeep, There, Changed
<1>5. TypeOK'
  BY <1>3, <1>4 DEF TypeOK
<1> QED
  BY <1>2, <1>3, <1>5 DEF IInv

\* change_proposal.
LEMMA ChangesKeeps ==
  ASSUME IInv, NEW d \in Desks, Changes(d)
  PROVE  IInv' /\ RowsKeep
<1>1. TypeOK /\ DeskInv /\ desk[d] # Idle /\ desk[d] \in Busy /\ DeskAt(d)
  BY DeskFacts DEF IInv, Changes, Idle, DeskInv
<1> DEFINE to  == Target(desk[d].verb)
           why == Refusal(rows[desk[d].id], to, desk[d].expected)
<1>2. to \in {"approved", "rejected"} /\ why \in {"none", "terminal", "version", "illegal"}
  BY DEF Target, Refusal
<1>3. CASE why = "none"
  <2>1. rows' = [rows EXCEPT ![desk[d].id] = Moved(@, to)] /\ desk' = Ends(d)
    BY <1>3 DEF Changes
  <2>2. /\ RowsKeep /\ rows' \in [Ids -> Row \cup {NoRow}]
        /\ \A i \in Ids : ~There(i) => rows'[i] = NoRow
    BY <1>1, <1>2, <1>3, <2>1, ChangeKeeps DEF DeskAt, There
  <2> QED
    BY <1>1, <2>1, <2>2, DeskEnds, PlainStep
<1>4. CASE why # "none"
  <2>1. UNCHANGED rows /\ desk' = Loses(d, why) /\ desk[d].at = "writing"
    BY <1>4 DEF Changes
  <2> HIDE DEF why
  <2>2. DeskStep(d)
    BY <1>1, <1>2, <2>1, DeskLoses
  <2> QED
    BY <1>1, <2>1, <2>2, SameRows, PlainStep
<1> QED
  BY <1>3, <1>4

\* edit_proposal.
LEMMA EditsKeeps ==
  ASSUME IInv, NEW d \in Desks, Edits(d)
  PROVE  IInv' /\ RowsKeep
<1>1. TypeOK /\ ChainInv /\ OneLiveReplacement /\ DeskInv
      /\ desk[d] # Idle /\ desk[d] \in Busy /\ DeskAt(d)
  BY DeskFacts DEF IInv, Edits, Idle, DeskInv
<1> DEFINE i   == desk[d].id
           why == EditRefusal(rows[i], desk[d].expected)
<1>2. why \in {"none", "terminal", "version"} /\ i \in Ids
  BY <1>1 DEF EditRefusal, Busy
<1>3. CASE why = "none" /\ MayReplace(i)
  <2>1. PICK n \in Numbers :
          /\ IsNext(i[1], n) /\ desk' = Ends(d)
          /\ rows' = [rows EXCEPT
               ![i] = IF Seen(@) = "expired" THEN @ ELSE Moved(@, "superseded"),
               ![<<i[1], n>>] = Replacement(d, i)]
    BY <1>3 DEF Edits
  <2> DEFINE c == <<i[1], n>>
  <2>2. c \in Ids /\ c[1] = i[1] /\ c[2] = n
    BY <1>2, IdsFacts
  <2>3. desk[d].due = rows[i].due
    <3>1. desk[d].expected = rows[i].version
      BY <1>3 DEF EditRefusal
    <3> QED
      BY <1>1, <3>1 DEF DeskAt, Edits, Edit
  <2>4. Replaces(d, i, c)
    BY <1>1, <1>2, <1>3, <2>1, <2>2, <2>3 DEF Replaces, DeskAt, There, Edits, Edit
  <2> HIDE DEF c, i
  <2>5. ChainInv' /\ OneLiveReplacement'
    BY <1>1, <1>2, <2>2, <2>4, ReplacesKeeps
  <2>6. /\ RowsKeep /\ rows' \in [Ids -> Row \cup {NoRow}] /\ rows'[c].parent = i[2]
    BY <1>1, <1>2, <2>2, <2>4, ReplacesRows
  <2>7. /\ DeskInv' /\ desk' \in [Desks -> Busy \cup {Idle}]
        /\ \A e \in Desks : desk'[e] # Idle => ~(desk'[e].pinned /\ desk'[e].retried)
    BY <1>1, <2>1, <2>6, DeskEnds, DeskStepKeeps
  <2>8. \A j \in Ids : rows'[j] # NoRow /\ j[2] > 0 => rows'[j].parent < j[2]
    <3>1. /\ i[2] < c[2] /\ There(i) /\ \A j \in Ids : j # i /\ j # c => rows'[j] = rows[j]
      <4>1. i[2] < c[2] /\ \A j \in Ids : j # i /\ j # c => rows'[j] = rows[j]
        BY <1>1, <1>2, <2>2, <2>4, ReplacesPlace
      <4>2. There(i)
        BY <2>4 DEF Replaces
      <4> QED
        BY <4>1, <4>2
    <3>2. \A j \in Ids : j # c /\ rows'[j] # NoRow => There(j)
      BY <3>1 DEF There
    <3>3. \A j \in Ids : There(j) => rows'[j].parent = rows[j].parent
      BY <2>6 DEF RowsKeep, Changed
    <3> QED
      BY <1>1, <2>6, <3>1, <3>2, <3>3 DEF TypeOK, There
  <2>9. TypeOK'
    BY <2>6, <2>7, <2>8 DEF TypeOK
  <2> QED
    BY <2>5, <2>6, <2>7, <2>9 DEF IInv
<1>4. CASE why = "none" /\ ~MayReplace(i)
  <2>1. UNCHANGED rows /\ desk' = Ends(d)
    BY <1>4 DEF Edits
  <2> QED
    BY <1>1, <2>1, SameRows, DeskEnds, PlainStep
<1>5. CASE why # "none"
  <2>1. UNCHANGED rows /\ desk' = Loses(d, why) /\ desk[d].at = "writing"
    BY <1>5 DEF Edits
  <2> HIDE DEF why
  <2>2. DeskStep(d)
    BY <1>1, <1>2, <2>1, DeskLoses
  <2> QED
    BY <1>1, <2>1, <2>2, SameRows, PlainStep
<1> QED
  BY <1>3, <1>4, <1>5

LEMMA NextKeeps == IInv /\ [Next]_vars => IInv' /\ RowsKeep
<1> SUFFICES ASSUME IInv, [Next]_vars PROVE IInv' /\ RowsKeep
  OBVIOUS
<1>1. TypeOK /\ DeskInv
  BY DEF IInv
<1>2. ASSUME NEW d \in Desks, Asks(d) PROVE IInv' /\ RowsKeep
  BY <1>1, <1>2, DeskAsks, SameRows, PlainStep
<1>3. ASSUME NEW d \in Desks, Works(d) PROVE IInv' /\ RowsKeep
  <2>1. CASE Reloads(d)
    BY <1>1, <2>1, DeskReloads, SameRows, PlainStep
  <2>2. CASE Abandons(d)
    <3>1. UNCHANGED rows /\ desk' = Ends(d)
      BY <2>2 DEF Abandons
    <3> QED
      BY <1>1, <3>1, DeskEnds, SameRows, PlainStep
  <2> QED
    BY <1>3, <2>1, <2>2, ChangesKeeps, EditsKeeps DEF Works
<1>4. ASSUME NEW i \in Ids, WindowCloses(i) PROVE IInv' /\ RowsKeep
  <2>1. UNCHANGED desk
    BY <1>4 DEF WindowCloses
  <2> QED
    BY <1>1, <1>4, <2>1, WindowKeeps, PlainStep
<1>5. ASSUME NEW S \in SUBSET Ids, Sweeps(S) PROVE IInv' /\ RowsKeep
  <2>1. UNCHANGED desk
    BY <1>5 DEF Sweeps
  <2> QED
    BY <1>1, <1>5, <2>1, SweepKeeps, PlainStep
<1>6. ASSUME NEW P \in SUBSET Roots, NEW due \in [P -> Dues], Summarizes(P, due) PROVE IInv' /\ RowsKeep
  <2>1. UNCHANGED desk
    BY <1>6 DEF Summarizes
  <2> QED
    BY <1>1, <1>6, <2>1, SummaryKeeps, PlainStep
<1>7. CASE UNCHANGED vars
  BY <1>1, <1>7, SameRows, PlainStep DEF vars
<1> QED
  BY <1>2, <1>3, <1>4, <1>5, <1>6, <1>7 DEF Next

-----------------------------------------------------------------------------

\* The invariant holds whatever the desks, the sweep and the summaries do, in
\* whatever order.
THEOREM Invariance == Spec => []IInv
  BY InitEstablishes, NextKeeps, PTL DEF Spec

\* Every value is of its type: a replacement is numbered above what it replaced, and
\* a pinned request is not tried again.
THEOREM TypeCorrect == Spec => []TypeOK
<1>1. IInv => TypeOK
  BY DEF IInv
<1> QED
  BY <1>1, Invariance, PTL

\* An edit keeps the date a re-summary gave the row after the desk had read it.
THEOREM EditsKeep == Spec => []EditsKeepRewrites
<1>1. IInv => EditsKeepRewrites
  BY DEF IInv, ChainInv, There, EditsKeepRewrites
<1> QED
  BY <1>1, Invariance, PTL

\* Of the replacements made of one row one at most is live.
THEOREM OneReplacementLives == Spec => []OneLiveReplacement
<1>1. IInv => OneLiveReplacement
  BY DEF IInv
<1> QED
  BY <1>1, Invariance, PTL

\* What is closed is changed by nobody, and what is past its window only expires.
THEOREM ClosedIsFrozen == Spec => PastIsFrozen
<1>1. IInv /\ [Next]_vars =>
        [\A i \in Ids :
            /\ rows[i].state \in Terminal => rows'[i] = rows[i]
            /\ Overdue(rows[i]) => rows'[i] \in {rows[i], Moved(rows[i], "expired")}]_vars
  <2> SUFFICES ASSUME IInv, [Next]_vars, NEW i \in Ids
               PROVE  /\ rows[i].state \in Terminal => rows'[i] = rows[i]
                      /\ Overdue(rows[i]) => rows'[i] \in {rows[i], Moved(rows[i], "expired")}
    OBVIOUS
  <2>1. RowsKeep /\ TypeOK
    BY NextKeeps DEF IInv
  <2>2. rows[i].state \in Terminal \/ Overdue(rows[i]) => There(i)
    BY <2>1, RowFacts DEF Terminal, Overdue, There
  <2> QED
    BY <2>1, <2>2 DEF RowsKeep, Changed
<1> QED
  BY <1>1, Invariance, PTL DEF Spec, PastIsFrozen

\* A pinned approval approves what the PM was shown.
THEOREM ApprovedAsShown == Spec => ShownIsApproved
<1>1. IInv /\ [Next]_vars =>
        [\A d \in Desks, i \in Ids :
            (/\ desk[d].at = "writing" /\ desk[d].id = i /\ desk[d].verb = "approve" /\ desk[d].pinned
             /\ desk'[d].at = "idle" /\ rows[i].state = "staged" /\ rows'[i].state = "approved")
              => rows'[i].what = desk[d].what /\ rows'[i].due = desk[d].due]_vars
  <2> SUFFICES ASSUME IInv, [Next]_vars, NEW d \in Desks, NEW i \in Ids,
                      desk[d].at = "writing", desk[d].id = i, desk[d].verb = "approve",
                      desk[d].pinned, desk'[d].at = "idle", rows[i].state = "staged",
                      rows'[i].state = "approved"
               PROVE  rows'[i].what = desk[d].what /\ rows'[i].due = desk[d].due
    OBVIOUS
  <2>1. TypeOK /\ DeskInv /\ desk[d] # Idle /\ desk[d] \in Busy /\ DeskAt(d) /\ ~desk[d].retried
    BY DeskFacts DEF IInv, Idle, DeskInv
  <2>2. Changes(d)
    <3>1. UNCHANGED rows => FALSE
      OBVIOUS
    <3>2. UNCHANGED desk => FALSE
      OBVIOUS
    <3>3. ASSUME NEW e \in Desks, DeskStep(e) PROVE e = d
      BY <3>3 DEF DeskStep
    <3>4. \A e \in Desks : ~Asks(e)
      BY <2>1, <3>1, DeskAsks
    <3>5. ASSUME NEW e \in Desks, Works(e) PROVE Changes(d)
      <4>1. ~Reloads(e) /\ ~Abandons(e)
        BY <3>1 DEF Reloads, Abandons
      <4>2. desk' = Ends(e) \/ \E why \in {"none", "terminal", "version", "illegal"} : desk' = Loses(e, why)
        BY <3>5, <4>1 DEF Works, Changes, Edits, Refusal, EditRefusal
      <4>3. e = d
        BY <2>1, <4>2, DeskFacts DEF Ends, Loses
      <4> QED
        BY <3>5, <4>1, <4>3 DEF Works, Edits
    <3>6. \A S \in SUBSET Ids : ~Sweeps(S)
      BY <3>2 DEF Sweeps
    <3>7. \A j \in Ids : ~WindowCloses(j)
      BY <3>2 DEF WindowCloses
    <3>8. \A P \in SUBSET Roots : \A due \in [P -> Dues] : ~Summarizes(P, due)
      BY <3>2 DEF Summarizes
    <3> QED
      BY <3>1, <3>4, <3>5, <3>6, <3>7, <3>8 DEF Next, vars
  <2>3. Refusal(rows[i], "approved", desk[d].expected) = "none"
        /\ rows' = [rows EXCEPT ![i] = Moved(@, "approved")]
    BY <2>2 DEF Changes, Target
  <2>4. /\ rows'[i] = Moved(rows[i], "approved") /\ desk[d].expected = rows[i].version
        /\ i \in Ids
    BY <2>1, <2>3, ChangeKeeps DEF DeskAt, There
  <2>5. rows[i].what = desk[d].what /\ rows[i].due = desk[d].due
    BY <2>1, <2>4 DEF DeskAt
  <2>6. rows[i] \in Row
    BY <2>1, <2>4, RowFacts DEF DeskAt
  <2>7. rows'[i].what = rows[i].what /\ rows'[i].due = rows[i].due
    <3>1. rows[i].version + 1 \in Nat /\ "approved" \in States
      BY <2>6 DEF Row, States
    <3>2. Moved(rows[i], "approved") = Stated(rows[i], "approved", rows[i].version + 1)
      BY Zenon DEF Moved, Stated
    <3> QED
      BY <2>4, <2>6, <3>1, <3>2, StatedFacts
  <2> QED
    BY <2>5, <2>7
<1> QED
  BY <1>1, Invariance, PTL DEF Spec, ShownIsApproved

=============================================================================
