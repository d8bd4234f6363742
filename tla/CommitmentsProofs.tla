------------------------- MODULE CommitmentsProofs -------------------------
(***************************************************************************)
(* Commitments, for every number of processes, of proposals, of tries and  *)
(* of lines: its state has its types, no line is in the ledger twice, what *)
(* the PM is told is in force is what the fold then says, and a version he *)
(* pinned is the one his line follows.                                     *)
(*                                                                         *)
(* The inductive invariant IInv says of the ledger how its lines follow    *)
(* one another, and of every process, the catch-up among them, that what   *)
(* it would append fits the ledger it has read for as long as no other has *)
(* appended.  The fold goes through the instants (MarkOf): what is proved  *)
(* of it rests on the least instant at which it would be wrong.            *)
(***************************************************************************)
EXTENDS Commitments, TLAPS, WellFoundedInduction

LEMMA LeastExists ==
    ASSUME NEW S \in SUBSET Nat, S # {}
    PROVE  \E m \in S : \A k \in S : m <= k
<1>1. IsWellFoundedOn({ss \in Nat \X Nat : ss[1] < ss[2]}, Nat)
  BY NatLessThanWellFounded DEF OpToRel
<1>2. PICK m \in S : \A k \in S : <<k, m>> \notin {ss \in Nat \X Nat : ss[1] < ss[2]}
  BY <1>1, WFMin
<1>3. ASSUME NEW k \in S PROVE m <= k
  <2>1. <<k, m>> \in Nat \X Nat
    OBVIOUS
  <2> QED
    BY <1>2, <2>1
<1> QED
  BY <1>3

\* The highest of a set of numbers that has a bound.
LEMMA HighestIsGreatest ==
    ASSUME NEW b \in Nat, NEW S \in SUBSET (0..b), S # {}
    PROVE  Highest(S) \in S /\ \A k \in S : k <= Highest(S)
<1> DEFINE M == {n \in Nat : b - n \in S}
<1>1. M \in SUBSET Nat /\ \A k \in S : b - k \in M
  OBVIOUS
<1>2. M # {}
  BY <1>1
<1> HIDE DEF M
<1>3. PICK n \in M : \A m \in M : n <= m
  BY <1>1, <1>2, LeastExists
<1>4. b - n \in S
  BY <1>3 DEF M
<1>5. ASSUME NEW k \in S PROVE k <= b - n
  <2>1. n <= b - k
    BY <1>1, <1>3
  <2> QED
    BY <1>1, <1>3, <2>1
<1> QED
  BY <1>4, <1>5 DEF Highest

-----------------------------------------------------------------------------
(* The mark in force, mark after mark.                                     *)

UpTo(f, K) == f = [t \in 0..MaxClock |-> IF t = 0 THEN 0 ELSE MarkAt(K, t, f[t - 1])]

LEMMA UpToExists == \A K : \E f : UpTo(f, K) /\ MarkOf(K) = f[MaxClock]
<1> SUFFICES ASSUME NEW K PROVE \E f : UpTo(f, K) /\ MarkOf(K) = f[MaxClock]
  OBVIOUS
<1> DEFINE Part(f, m) == f = [t \in 0..m |-> IF t = 0 THEN 0 ELSE MarkAt(K, t, f[t - 1])]
           Bad == {m \in Nat : ~\E f : Part(f, m)}
<1>1. Bad = {}
  <2> SUFFICES ASSUME Bad # {} PROVE FALSE
    OBVIOUS
  <2>1. PICK m \in Bad : \A k \in Bad : m <= k
    <3>1. Bad \in SUBSET Nat
      OBVIOUS
    <3> HIDE DEF Bad
    <3> QED
      BY <3>1, LeastExists
  <2>2. m # 0
    <3>1. Part([t \in 0..0 |-> 0], 0)
      OBVIOUS
    <3> QED
      BY <2>1, <3>1
  <2>3. m \in Nat /\ m - 1 \in Nat /\ m - 1 \notin Bad
    <3>1. m \in Nat
      BY <2>1
    <3>2. m - 1 \in Nat /\ ~(m <= m - 1)
      BY <2>2, <3>1
    <3> HIDE DEF Bad
    <3> QED
      BY <2>1, <3>1, <3>2
  <2>4. PICK f : Part(f, m - 1)
    BY <2>3
  <2> DEFINE g == [t \in 0..m |-> IF t = m THEN MarkAt(K, m, f[m - 1]) ELSE f[t]]
  <2>5. \A t \in 0..m : g[t] = IF t = 0 THEN 0 ELSE MarkAt(K, t, g[t - 1])
    <3> SUFFICES ASSUME NEW t \in 0..m PROVE g[t] = IF t = 0 THEN 0 ELSE MarkAt(K, t, g[t - 1])
      OBVIOUS
    <3>1. CASE t = m
      <4>1. g[t - 1] = f[m - 1]
        BY <2>2, <2>3, <3>1
      <4> QED
        BY <2>2, <2>3, <3>1, <4>1
    <3>2. CASE t # m
      <4>1. t \in 0..m - 1 /\ (t # 0 => t - 1 \in 0..m /\ t - 1 # m)
        BY <2>3, <3>2
      <4>2. g[t] = f[t] /\ (t # 0 => g[t - 1] = f[t - 1])
        BY <2>3, <3>2, <4>1
      <4>3. f[t] = IF t = 0 THEN 0 ELSE MarkAt(K, t, f[t - 1])
        BY <2>4, <4>1
      <4> QED
        BY <4>2, <4>3
    <3> QED
      BY <3>1, <3>2
  <2>6. Part(g, m)
    BY <2>5
  <2> QED
    BY <2>1, <2>6
<1>2. \E f : UpTo(f, K)
  <2>1. MaxClock \in Nat
    BY CommitmentsAssumption
  <2>2. \E f : Part(f, MaxClock)
    BY <1>1, <2>1
  <2> QED
    BY <2>2 DEF UpTo
<1>3. MarkOf(K) = (CHOOSE f : UpTo(f, K))[MaxClock]
  BY DEF MarkOf, UpTo
<1> QED
  BY <1>2, <1>3

LEMMA UpToFacts ==
    \A K, f : UpTo(f, K) => f[0] = 0 /\ \A t \in 1..MaxClock : f[t] = MarkAt(K, t, f[t - 1])
BY CommitmentsAssumption DEF UpTo

LEMMA MarkAtFacts ==
    \A K, t, b : /\ MarkAt(K, t, b) \in K \cup {b}
                 /\ (\A k \in K : ledger[k].at # t) => MarkAt(K, t, b) = b
<1> SUFFICES ASSUME NEW K, NEW t, NEW b
             PROVE  /\ MarkAt(K, t, b) \in K \cup {b}
                    /\ (\A k \in K : ledger[k].at # t) => MarkAt(K, t, b) = b
  OBVIOUS
<1> DEFINE now == {k \in K : ledger[k].at = t}
<1>1. CASE now = {}
  BY <1>1 DEF MarkAt
<1>2. CASE now # {}
  <2>1. (CHOOSE k \in now : TRUE) \in now
    BY <1>2
  <2> QED
    BY <1>2, <2>1 DEF MarkAt
<1> QED
  BY <1>1, <1>2

LEMMA UpToIn == \A K, f : UpTo(f, K) => \A t \in 0..MaxClock : f[t] \in K \cup {0}
<1> SUFFICES ASSUME NEW K, NEW f, UpTo(f, K), NEW u \in 0..MaxClock, f[u] \notin K \cup {0}
             PROVE  FALSE
  OBVIOUS
<1> DEFINE Bad == {t \in Nat : t \in 0..MaxClock /\ f[t] \notin K \cup {0}}
<1>1. PICK t \in Bad : \A s \in Bad : t <= s
  <2>1. Bad \in SUBSET Nat /\ Bad # {}
    BY CommitmentsAssumption
  <2> HIDE DEF Bad
  <2> QED
    BY <2>1, LeastExists
<1>2. t \in 1..MaxClock /\ t - 1 \in 0..MaxClock /\ ~(t <= t - 1) /\ f[t] \notin K \cup {0}
  BY <1>1, UpToFacts, CommitmentsAssumption
<1>3. f[t - 1] \in K \cup {0}
  BY <1>1, <1>2
<1> HIDE DEF Bad
<1> QED
  BY <1>2, <1>3, UpToFacts, MarkAtFacts

\* The mark in force is one of the marks, if any is.
LEMMA MarkOfIn == \A K : MarkOf(K) \in K \cup {0}
BY UpToExists, UpToIn, CommitmentsAssumption

\* After the last of the marks nothing more changes.
LEMMA StillAfter ==
    \A K, f : \A s \in 0..MaxClock :
        UpTo(f, K) /\ (\A k \in K : ledger[k].at \in Nat /\ ledger[k].at <= s)
            => \A t \in s..MaxClock : f[t] = f[s]
<1> SUFFICES ASSUME NEW K, NEW f, NEW s \in 0..MaxClock, UpTo(f, K),
                    \A k \in K : ledger[k].at \in Nat /\ ledger[k].at <= s,
                    NEW u \in s..MaxClock, f[u] # f[s]
             PROVE  FALSE
  OBVIOUS
<1> DEFINE Bad == {t \in Nat : t \in s..MaxClock /\ f[t] # f[s]}
<1>1. PICK t \in Bad : \A r \in Bad : t <= r
  <2>1. Bad \in SUBSET Nat /\ Bad # {}
    BY CommitmentsAssumption
  <2> HIDE DEF Bad
  <2> QED
    BY <2>1, LeastExists
<1>2. /\ t \in Nat /\ t # s /\ s < t /\ t <= MaxClock /\ f[t] # f[s]
      /\ t \in 1..MaxClock /\ t - 1 \in s..MaxClock /\ t - 1 \in Nat /\ ~(t <= t - 1)
  BY <1>1, CommitmentsAssumption
<1>3. f[t - 1] = f[s]
  BY <1>1, <1>2
<1> HIDE DEF Bad
<1>4. \A k \in K : ledger[k].at # t
  BY <1>2
<1> QED
  BY <1>2, <1>3, <1>4, UpToFacts, MarkAtFacts

-----------------------------------------------------------------------------
(* The same of the ledger after a step.                                    *)

LEMMA UpToExistsNext == (\A K : \E f : UpTo(f, K) /\ MarkOf(K) = f[MaxClock])'
BY UpToExists, PTL

LEMMA UpToFactsNext ==
    (\A K, f : UpTo(f, K) => f[0] = 0 /\ \A t \in 1..MaxClock : f[t] = MarkAt(K, t, f[t - 1]))'
BY UpToFacts, PTL

LEMMA StillAfterNext ==
    (\A K, f : \A s \in 0..MaxClock :
        UpTo(f, K) /\ (\A k \in K : ledger[k].at \in Nat /\ ledger[k].at <= s)
            => \A t \in s..MaxClock : f[t] = f[s])'
BY StillAfter, PTL

\* Two ledgers that have the same marks up to an instant agree up to it.
LEMMA Agree ==
    ASSUME NEW K, NEW M, NEW f, NEW g, NEW s \in 0..MaxClock, UpTo(f, K), UpTo(g, M)',
           0 \notin K, \A k \in K : ledger'[k] = ledger[k],
           \A t \in 1..s : {k \in K : ledger[k].at = t} = {k \in M : ledger'[k].at = t}
    PROVE  \A t \in 0..s : f[t] = g[t]
<1> SUFFICES ASSUME NEW u \in 0..s, f[u] # g[u] PROVE FALSE
  OBVIOUS
<1> DEFINE Bad == {t \in Nat : t \in 0..s /\ f[t] # g[t]}
<1>0. s \in Nat /\ s <= MaxClock /\ MaxClock \in Nat
  BY CommitmentsAssumption
<1>1. PICK t \in Bad : \A r \in Bad : t <= r
  <2>1. Bad \in SUBSET Nat /\ Bad # {}
    BY <1>0
  <2> HIDE DEF Bad
  <2> QED
    BY <2>1, LeastExists
<1>2. f[0] = 0 /\ g[0] = 0
  BY UpToFacts, UpToFactsNext
<1>3. /\ t \in Nat /\ f[t] # g[t] /\ t \in 1..s /\ t \in 1..MaxClock
      /\ t - 1 \in 0..s /\ t - 1 \in 0..MaxClock /\ ~(t <= t - 1)
  BY <1>0, <1>1, <1>2
<1>4. f[t - 1] = g[t - 1]
  BY <1>1, <1>3
<1> HIDE DEF Bad
<1> DEFINE b   == f[t - 1]
           now == {k \in K : ledger[k].at = t}
           it  == CHOOSE k \in now : TRUE
<1>5. f[t] = MarkAt(K, t, b) /\ g[t] = MarkAt(M, t, b)'
  BY <1>3, <1>4, UpToFacts, UpToFactsNext
<1>6. b \in K \cup {0}
  BY <1>3, UpToIn
<1>7. StateOf(b) = StateOf(b)'
  BY <1>6 DEF StateOf
<1>8. {k \in M : ledger'[k].at = t} = now
  BY <1>3
<1>9. MarkAt(K, t, b) = IF now # {} /\ Answer(StateOf(b), ledger[it].mark) = "yes" THEN it ELSE b
  BY DEF MarkAt
<1>10. MarkAt(M, t, b)' = IF now # {} /\ Answer(StateOf(b)', ledger'[it].mark) = "yes" THEN it ELSE b
  <2> DEFINE then == {k \in M : ledger'[k].at = t}
  <2>1. MarkAt(M, t, b)' =
          IF then # {} /\ Answer(StateOf(b)', ledger'[CHOOSE k \in then : TRUE].mark) = "yes"
            THEN CHOOSE k \in then : TRUE ELSE b
    BY DEF MarkAt
  <2> HIDE DEF b, now
  <2> QED
    BY <1>8, <2>1
<1>11. now # {} => it \in K
  OBVIOUS
<1> HIDE DEF b, now, it
<1>12. MarkAt(K, t, b) = MarkAt(M, t, b)'
  BY <1>7, <1>9, <1>10, <1>11
<1> QED
  BY <1>3, <1>5, <1>12

\* The same marks, the same one in force.
LEMMA SameMarks ==
    ASSUME NEW K, 0 \notin K, \A k \in K : ledger'[k] = ledger[k]
    PROVE  MarkOf(K)' = MarkOf(K)
<1>1. PICK f : UpTo(f, K) /\ MarkOf(K) = f[MaxClock]
  BY UpToExists
<1>2. PICK g : UpTo(g, K)' /\ MarkOf(K)' = g[MaxClock]
  BY UpToExistsNext
<1>3. MaxClock \in 0..MaxClock
  BY CommitmentsAssumption
<1>4. \A t \in 1..MaxClock : {k \in K : ledger[k].at = t} = {k \in K : ledger'[k].at = t}
  OBVIOUS
<1>5. f[MaxClock] = g[MaxClock]
  BY <1>1, <1>2, <1>3, <1>4, Agree
<1> QED
  BY <1>1, <1>2, <1>5

\* A later mark that the state takes is the one in force.
LEMMA NewMark ==
    ASSUME NEW K, NEW j, 0 \notin K, j # 0, \A k \in K : ledger'[k] = ledger[k],
           NEW a \in 1..MaxClock, ledger'[j].at = a,
           \A k \in K : ledger[k].at \in Nat /\ ledger[k].at < a,
           Answer(StateOf(MarkOf(K)), ledger'[j].mark) = "yes"
    PROVE  MarkOf(K \cup {j})' = j
<1> DEFINE M == K \cup {j}
<1>0. a \in Nat /\ a - 1 \in 0..MaxClock /\ a \in 0..MaxClock /\ a \in 1..MaxClock
      /\ MaxClock \in Nat /\ MaxClock \in a..MaxClock /\ MaxClock \in a - 1..MaxClock
  BY CommitmentsAssumption
<1>1. PICK f : UpTo(f, K) /\ MarkOf(K) = f[MaxClock]
  BY UpToExists
<1>2. PICK g : UpTo(g, M)' /\ MarkOf(M)' = g[MaxClock]
  BY UpToExistsNext
<1>3. \A k \in K : ledger[k].at <= a - 1 /\ ledger[k].at # a /\ k # j
  BY <1>0
<1>4. MarkOf(K) = f[a - 1]
  <2>1. \A t \in a - 1..MaxClock : f[t] = f[a - 1]
    BY <1>0, <1>1, <1>3, StillAfter
  <2> QED
    BY <1>0, <1>1, <2>1
<1>5. \A t \in 1..a - 1 : {k \in K : ledger[k].at = t} = {k \in M : ledger'[k].at = t}
  BY <1>0, <1>3
<1>6. f[a - 1] = g[a - 1]
  <2> HIDE DEF M
  <2>1. \A t \in 0..a - 1 : f[t] = g[t]
    BY <1>0, <1>1, <1>2, <1>5, Agree
  <2> QED
    BY <1>0, <2>1
<1>7. g[a] = MarkAt(M, a, g[a - 1])'
  BY <1>0, <1>2, UpToFactsNext
<1> DEFINE b == g[a - 1]
<1>8. StateOf(b)' = StateOf(MarkOf(K))
  BY <1>4, <1>6, MarkOfIn DEF StateOf
<1>9. {k \in M : ledger'[k].at = a} = {j} /\ (CHOOSE k \in {j} : TRUE) = j
  BY <1>3
<1>10. MarkAt(M, a, b)' = j
  <2>1. MarkAt(M, a, b)' =
          IF {j} # {} /\ Answer(StateOf(b)', ledger'[CHOOSE k \in {j} : TRUE].mark) = "yes"
            THEN CHOOSE k \in {j} : TRUE ELSE b
    BY <1>9 DEF MarkAt
  <2> HIDE DEF b
  <2> QED
    BY <1>8, <1>9, <2>1
<1>11. g[MaxClock] = g[a]
  <2>1. \A k \in M : ledger'[k].at \in Nat /\ ledger'[k].at <= a
    BY <1>0
  <2> HIDE DEF M
  <2>2. UpTo(g, M)'
    BY <1>2
  <2>3. \A t \in a..MaxClock : g[t] = g[a]
    BY <2>1, <2>2, <1>0, StillAfterNext
  <2> QED
    BY <1>0, <2>3
<1> QED
  BY <1>2, <1>7, <1>10, <1>11

-----------------------------------------------------------------------------
(* What is read of the ledger.                                             *)

Dated == {"marked", "due_set", "undone"}

\* Of the lines of one entry that can be parsed only those without their newline
\* have a second.
OnceInv ==
    \A j, k \in 1..Len(ledger) :
        j < k /\ ledger[j].end # "cut" /\ ledger[k].end # "cut"
          /\ Entry(ledger[j]) = Entry(ledger[k]) => ledger[j].end = "unended"

\* A mark, a due date or an undo is dated no earlier than any line before it.
LateInv ==
    Ended => \A j, k \in 1..Len(ledger) :
        j < k /\ ledger[j].end = "whole" /\ ledger[k].end = "whole" /\ ledger[k].kind \in Dated
          => ledger[j].at <= ledger[k].at

LedgerType ==
    /\ ledger \in Seq(Line)
    /\ \A k \in DOMAIN ledger : ledger[k].kind = "undone" => ledger[k].of \in 1..k - 1

LedgerInv == LedgerType /\ OnceInv /\ LateInv

\* The entries of two lines tell their kinds apart, and what each kind says.
LEMMA EntryFacts ==
    ASSUME NEW a \in Line, NEW b \in Line, Entry(a) = Entry(b)
    PROVE  /\ a.kind = b.kind
           /\ a.kind = "revised" => a.n = b.n
           /\ a.kind = "undone" => a.of = b.of
           /\ a.kind \in {"marked", "due_set"} => a.mark = b.mark /\ a.at = b.at
<1>1. /\ a.kind \in {"pending", "revised", "marked", "due_set", "undone"}
      /\ b.kind \in {"pending", "revised", "marked", "due_set", "undone"}
  BY DEF Line
<1>2. Entry(a)[1] = a.kind /\ Entry(b)[1] = b.kind
  BY <1>1 DEF Entry
<1>3. a.kind = b.kind
  BY <1>2
<1>4. CASE a.kind = "pending"
  BY <1>3, <1>4
<1>5. CASE a.kind = "revised"
  <2>1. <<a.kind, a.n>> = <<b.kind, b.n>>
    BY <1>3, <1>5 DEF Entry
  <2> QED
    BY <1>3, <1>5, <2>1
<1>6. CASE a.kind = "undone"
  <2>1. <<a.kind, a.of>> = <<b.kind, b.of>>
    BY <1>3, <1>6 DEF Entry
  <2> QED
    BY <1>3, <1>6, <2>1
<1>7. CASE a.kind \in {"marked", "due_set"}
  <2>1. <<a.kind, a.mark, a.at>> = <<b.kind, b.mark, b.at>>
    BY <1>3, <1>7 DEF Entry
  <2> QED
    BY <1>3, <1>7, <2>1
<1> QED
  BY <1>1, <1>4, <1>5, <1>6, <1>7

LEMMA Lines ==
    ASSUME LedgerType, NEW n \in 0..Len(ledger)
    PROVE  /\ Len(ledger) \in Nat /\ DOMAIN ledger = 1..Len(ledger)
           /\ Counted(n) \subseteq Readable(n) /\ Readable(n) \subseteq 1..n
           /\ \A k \in 1..Len(ledger) : ledger[k] \in Line
           /\ \A k \in Readable(n) : k \in 1..Len(ledger) /\ ledger[k] \in Line
                                     /\ ledger[k].end # "cut"
           /\ 0 \notin Counted(n)
BY DEF LedgerType, Counted, Readable

\* Of every entry a line is counted.
LEMMA Representative ==
    ASSUME LedgerType, NEW n \in 0..Len(ledger), NEW j \in Readable(n)
    PROVE  \E i \in Counted(n) : Entry(ledger[i]) = Entry(ledger[j])
<1> DEFINE S == {i \in Readable(n) : Entry(ledger[i]) = Entry(ledger[j])}
<1>1. S \in SUBSET Nat /\ S # {}
  BY Lines
<1>2. PICK i \in S : \A k \in S : i <= k
  <2> HIDE DEF S
  <2> QED
    BY <1>1, LeastExists
<1>3. i \in Counted(n)
  BY <1>2 DEF Counted
<1> QED
  BY <1>2, <1>3

LEMMA ChangedAtFacts ==
    ASSUME LedgerType, NEW n \in 0..Len(ledger), Counted(n) # {}
    PROVE  ChangedAt(n) \in Instants /\ \A k \in Counted(n) : ledger[k].at <= ChangedAt(n)
<1> DEFINE S == {ledger[k].at : k \in Counted(n)}
<1>1. MaxClock \in Nat /\ S \in SUBSET (0..MaxClock) /\ S # {} /\ S \subseteq Instants
  BY Lines, CommitmentsAssumption DEF Line, Instants
<1>2. ChangedAt(n) = Highest(S)
  BY DEF ChangedAt
<1>3. Highest(S) \in S /\ \A x \in S : x <= Highest(S)
  <2> HIDE DEF S
  <2> QED
    BY <1>1, HighestIsGreatest
<1> QED
  BY <1>1, <1>2, <1>3

LEMMA NewestFacts ==
    ASSUME LedgerType, NEW n \in 0..Len(ledger), Counted(n) # {}
    PROVE  Newest(n) \in Counted(n) /\ \A k \in Counted(n) : k <= Newest(n)
<1>1. n \in Nat /\ Counted(n) \in SUBSET (0..n)
  BY Lines
<1> QED
  BY <1>1, HighestIsGreatest DEF Newest

LEMMA HeadFacts ==
    ASSUME LedgerType, NEW n \in 0..Len(ledger), Held(n)
    PROVE  /\ HeadNumber(n) \in Numbers
           /\ \A k \in OfKind(n, {"pending", "revised"}) : ledger[k].n <= HeadNumber(n)
<1> DEFINE S == {ledger[k].n : k \in OfKind(n, {"pending", "revised"})}
<1>1. MaxEdits \in Nat /\ S \in SUBSET (0..MaxEdits)
  BY Lines, CommitmentsAssumption DEF Line, Numbers, OfKind
<1>2. S # {}
  BY DEF Held, OfKind
<1>3. Highest(S) \in S /\ \A x \in S : x <= Highest(S)
  <2> HIDE DEF S
  <2> QED
    BY <1>1, <1>2, HighestIsGreatest
<1> QED
  BY <1>1, <1>3 DEF HeadNumber, Numbers

\* Nothing read twice and no newline missing: every whole line counts.
LEMMA CountedAll ==
    ASSUME LedgerInv, Ended
    PROVE  /\ Counted(Len(ledger)) = Readable(Len(ledger))
           /\ Readable(Len(ledger)) = {k \in 1..Len(ledger) : ledger[k].end = "whole"}
<1> DEFINE n == Len(ledger)
<1>1. Readable(n) = {k \in 1..n : ledger[k].end = "whole"}
  BY DEF Readable, Ended
<1>2. ASSUME NEW k \in Readable(n), NEW j \in Readable(n), Entry(ledger[j]) = Entry(ledger[k]), j < k
      PROVE  FALSE
  <2>1. j \in 1..n /\ k \in 1..n /\ ledger[j].end = "whole" /\ ledger[k].end = "whole"
    BY <1>1
  <2> QED
    BY <1>2, <2>1 DEF LedgerInv, OnceInv
<1>3. n \in Nat
  BY DEF LedgerInv, LedgerType
<1>4. Counted(n) = Readable(n)
  BY <1>1, <1>2, <1>3 DEF Counted
<1> QED
  BY <1>1, <1>4

\* The mark in force is a mark that is counted.
LEMMA InForceFacts ==
    ASSUME LedgerType, NEW n \in 0..Len(ledger), InForce(n) # 0
    PROVE  InForce(n) \in OfKind(n, {"marked"}) /\ InForce(n) \in Counted(n)
<1>1. InForce(n) \in (OfKind(n, {"marked"}) \ Dropped(n)) \cup {0}
  BY MarkOfIn DEF InForce
<1> QED
  BY <1>1 DEF OfKind

-----------------------------------------------------------------------------
(* What may be appended to the ledger as it is.                            *)

After(at) == \A k \in Counted(Len(ledger)) : ledger[k].at < at

FitsValue(lines) ==
    \E l \in Line : /\ lines = <<l>> /\ l.end = "whole" /\ l.kind \in {"pending", "revised"}
                    /\ \A j \in Readable(Len(ledger)) : Entry(ledger[j]) # Entry(l)

FitsMark(lines) ==
    \E m \in Marks, at \in Instants :
        /\ After(at) /\ Answer(State(Len(ledger)), m) = "yes"
        /\ lines \in {<<Mark(m, at)>>, <<Mark(m, at), ALine("due_set", at)>>}

FitsDue(lines) == \E at \in Instants : After(at) /\ lines = <<ALine("due_set", at)>>

\* What an undo was decided on.
IsUndoable(at) ==
    /\ State(Len(ledger)) = "fulfilled" /\ Newest(Len(ledger)) = InForce(Len(ledger))
    /\ at - ledger[InForce(Len(ledger))].at <= Window

FitsUndo(lines) ==
    \E at \in Instants :
        /\ After(at) /\ IsUndoable(at)
        /\ lines = <<[ALine("undone", at) EXCEPT !.of = InForce(Len(ledger))]>>

Fits(lines) == FitsValue(lines) \/ FitsMark(lines) \/ FitsDue(lines) \/ FitsUndo(lines)

\* What the proofs need of each of them.
Apt(lines) ==
    /\ lines \in Seq(Line) /\ Len(lines) \in 1..2
    /\ \A i \in 1..Len(lines) :
          /\ lines[i].end = "whole"
          /\ \A j \in Readable(Len(ledger)) : Entry(ledger[j]) # Entry(lines[i])
          /\ lines[i].kind = "undone" => lines[i].of \in 1..Len(ledger)
          /\ lines[i].kind \in Dated => After(lines[i].at)
          /\ \A h \in 1..i - 1 : Entry(lines[h]) # Entry(lines[i]) /\ lines[h].at = lines[i].at

LEMMA LinesMade ==
    ASSUME NEW at \in Instants
    PROVE  /\ ALine("due_set", at) \in Line /\ ALine("due_set", at).kind = "due_set"
           /\ ALine("due_set", at).at = at /\ ALine("due_set", at).end = "whole"
           /\ \A m \in Marks : /\ Mark(m, at) \in Line /\ Mark(m, at).kind = "marked"
                               /\ Mark(m, at).mark = m /\ Mark(m, at).at = at
                               /\ Mark(m, at).end = "whole"
           /\ \A f \in Nat : LET u == [ALine("undone", at) EXCEPT !.of = f] IN
                 u \in Line /\ u.kind = "undone" /\ u.of = f /\ u.at = at /\ u.end = "whole"
<1>0. 0 \in Numbers
  BY CommitmentsAssumption DEF Numbers
<1>1. /\ ALine("due_set", at) \in Line /\ ALine("due_set", at).kind = "due_set"
      /\ ALine("due_set", at).at = at /\ ALine("due_set", at).end = "whole"
  BY <1>0 DEF ALine, Line
<1>2. ASSUME NEW m \in Marks
      PROVE  /\ Mark(m, at) \in Line /\ Mark(m, at).kind = "marked"
             /\ Mark(m, at).mark = m /\ Mark(m, at).at = at /\ Mark(m, at).end = "whole"
  <2> DEFINE a == ALine("marked", at)
  <2>1. a \in Line /\ a.kind = "marked" /\ a.at = at /\ a.end = "whole"
    BY <1>0 DEF ALine, Line
  <2> HIDE DEF a
  <2>2. LET r == [a EXCEPT !.mark = m] IN
        r \in Line /\ r.kind = "marked" /\ r.mark = m /\ r.at = at /\ r.end = "whole"
    BY <2>1 DEF Line
  <2> QED
    BY <2>2 DEF Mark, a
<1>3. ASSUME NEW f \in Nat
      PROVE  LET u == [ALine("undone", at) EXCEPT !.of = f] IN
             u \in Line /\ u.kind = "undone" /\ u.of = f /\ u.at = at /\ u.end = "whole"
  <2> DEFINE a == ALine("undone", at)
  <2>1. a \in Line /\ a.kind = "undone" /\ a.at = at /\ a.end = "whole"
    BY <1>0 DEF ALine, Line
  <2> HIDE DEF a
  <2>2. LET r == [a EXCEPT !.of = f] IN
        r \in Line /\ r.kind = "undone" /\ r.of = f /\ r.at = at /\ r.end = "whole"
    BY <2>1 DEF Line
  <2> QED
    BY <2>2 DEF a
<1> QED
  BY <1>1, <1>2, <1>3

\* A mark or a due date that is later than all that counts is not there yet.
LEMMA LaterIsNew ==
    ASSUME LedgerType, NEW l \in Line, l.kind \in {"marked", "due_set"}, After(l.at)
    PROVE  \A j \in Readable(Len(ledger)) : Entry(ledger[j]) # Entry(l)
<1> SUFFICES ASSUME NEW j \in Readable(Len(ledger)), Entry(ledger[j]) = Entry(l) PROVE FALSE
  OBVIOUS
<1>1. Len(ledger) \in 0..Len(ledger)
  BY DEF LedgerType
<1>2. PICK i \in Counted(Len(ledger)) : Entry(ledger[i]) = Entry(ledger[j])
  BY <1>1, Representative
<1>3. ledger[i] \in Line
  BY <1>1, Lines
<1>4. ledger[i].at = l.at
  BY <1>2, <1>3, EntryFacts
<1> QED
  BY <1>2, <1>3, <1>4 DEF After, Line, Instants

\* An undo of the newest line is not there yet.
LEMMA UndoIsNew ==
    ASSUME LedgerType, NEW l \in Line, l.kind = "undone", l.of = InForce(Len(ledger)),
           State(Len(ledger)) = "fulfilled", Newest(Len(ledger)) = InForce(Len(ledger))
    PROVE  /\ l.of \in 1..Len(ledger) /\ l.of \in OfKind(Len(ledger), {"marked"})
           /\ \A k \in Counted(Len(ledger)) : k <= l.of
           /\ \A j \in Readable(Len(ledger)) : Entry(ledger[j]) # Entry(l)
<1>1. Len(ledger) \in 0..Len(ledger)
  BY DEF LedgerType
<1>2. InForce(Len(ledger)) # 0
  BY DEF State, StateOf
<1>3. l.of \in OfKind(Len(ledger), {"marked"}) /\ l.of \in Counted(Len(ledger)) /\ l.of \in 1..Len(ledger)
  BY <1>1, <1>2, InForceFacts, Lines
<1>4. \A k \in Counted(Len(ledger)) : k <= l.of
  BY <1>1, <1>3, NewestFacts
<1>5. ASSUME NEW j \in Readable(Len(ledger)), Entry(ledger[j]) = Entry(l) PROVE FALSE
  <2>1. PICK i \in Counted(Len(ledger)) : Entry(ledger[i]) = Entry(ledger[j])
    BY <1>1, Representative
  <2>2. ledger[i] \in Line /\ i \in DOMAIN ledger /\ i \in Nat
    BY <1>1, Lines
  <2>3. ledger[i].kind = "undone" /\ ledger[i].of = l.of
    BY <1>5, <2>1, <2>2, EntryFacts
  <2>4. l.of \in 1..i - 1
    BY <2>2, <2>3 DEF LedgerType
  <2> QED
    BY <1>4, <2>1, <2>2, <2>4
<1> QED
  BY <1>3, <1>4, <1>5

LEMMA FitsIsApt == ASSUME LedgerType, NEW lines, Fits(lines) PROVE Apt(lines)
<1>1. CASE FitsValue(lines)
  <2>1. PICK l \in Line : /\ lines = <<l>> /\ l.end = "whole" /\ l.kind \in {"pending", "revised"}
                          /\ \A j \in Readable(Len(ledger)) : Entry(ledger[j]) # Entry(l)
    BY <1>1 DEF FitsValue
  <2>2. lines \in Seq(Line) /\ Len(lines) = 1 /\ lines[1] = l
    BY <2>1
  <2> QED
    BY <2>1, <2>2 DEF Apt, Dated
<1>2. CASE FitsMark(lines)
  <2>1. PICK m \in Marks, at \in Instants :
            /\ After(at)
            /\ lines \in {<<Mark(m, at)>>, <<Mark(m, at), ALine("due_set", at)>>}
    BY <1>2 DEF FitsMark
  <2> DEFINE a == Mark(m, at)
             b == ALine("due_set", at)
  <2>2. /\ a \in Line /\ a.kind = "marked" /\ a.at = at /\ a.end = "whole"
        /\ b \in Line /\ b.kind = "due_set" /\ b.at = at /\ b.end = "whole"
    BY LinesMade
  <2> HIDE DEF a, b
  <2>3. Entry(a) # Entry(b)
    BY <2>2, EntryFacts
  <2>4. /\ \A j \in Readable(Len(ledger)) : Entry(ledger[j]) # Entry(a)
        /\ \A j \in Readable(Len(ledger)) : Entry(ledger[j]) # Entry(b)
    BY <2>1, <2>2, LaterIsNew
  <2>5. CASE lines = <<a>>
    <3>1. lines \in Seq(Line) /\ Len(lines) = 1 /\ lines[1] = a
      BY <2>2, <2>5
    <3> QED
      BY <2>1, <2>2, <2>4, <3>1 DEF Apt
  <2>6. CASE lines = <<a, b>>
    <3>1. lines \in Seq(Line) /\ Len(lines) = 2 /\ lines[1] = a /\ lines[2] = b
      BY <2>2, <2>6
    <3> QED
      BY <2>1, <2>2, <2>3, <2>4, <3>1 DEF Apt
  <2> QED
    BY <2>1, <2>5, <2>6 DEF a, b
<1>3. CASE FitsDue(lines)
  <2>1. PICK at \in Instants : After(at) /\ lines = <<ALine("due_set", at)>>
    BY <1>3 DEF FitsDue
  <2> DEFINE b == ALine("due_set", at)
  <2>2. b \in Line /\ b.kind = "due_set" /\ b.at = at /\ b.end = "whole"
    BY LinesMade
  <2>3. lines \in Seq(Line) /\ Len(lines) = 1 /\ lines[1] = b
    BY <2>1, <2>2
  <2> HIDE DEF b
  <2>4. \A j \in Readable(Len(ledger)) : Entry(ledger[j]) # Entry(b)
    BY <2>1, <2>2, LaterIsNew
  <2> QED
    BY <2>1, <2>2, <2>3, <2>4 DEF Apt
<1>4. CASE FitsUndo(lines)
  <2>1. PICK at \in Instants :
            /\ After(at) /\ IsUndoable(at)
            /\ lines = <<[ALine("undone", at) EXCEPT !.of = InForce(Len(ledger))]>>
    BY <1>4 DEF FitsUndo
  <2> DEFINE u == [ALine("undone", at) EXCEPT !.of = InForce(Len(ledger))]
  <2>2. InForce(Len(ledger)) \in Nat
    <3>1. Len(ledger) \in 0..Len(ledger)
      BY DEF LedgerType
    <3> QED
      BY <3>1, InForceFacts, Lines
  <2>3. u \in Line /\ u.kind = "undone" /\ u.of = InForce(Len(ledger)) /\ u.at = at /\ u.end = "whole"
    BY <2>2, LinesMade
  <2>4. lines \in Seq(Line) /\ Len(lines) = 1 /\ lines[1] = u
    BY <2>1, <2>3
  <2> HIDE DEF u
  <2>5. u.of \in 1..Len(ledger) /\ \A j \in Readable(Len(ledger)) : Entry(ledger[j]) # Entry(u)
    BY <2>1, <2>3, UndoIsNew DEF IsUndoable
  <2> QED
    BY <2>1, <2>3, <2>4, <2>5 DEF Apt
<1> QED
  BY <1>1, <1>2, <1>3, <1>4 DEF Fits

-----------------------------------------------------------------------------
(* How the ledger grows.                                                   *)

\* What was written of the lines: all, or the first of them and part of the next.
Written(part, lines) ==
    /\ part \in Seq(Line) /\ Len(part) \in 1..Len(lines)
    /\ \A i \in 1..Len(part) :
          /\ part[i].kind = lines[i].kind /\ part[i].n = lines[i].n
          /\ part[i].mark = lines[i].mark /\ part[i].of = lines[i].of /\ part[i].at = lines[i].at
          /\ i < Len(part) => part[i].end = "whole"

LEMMA GrowsWritten ==
    ASSUME NEW lines, Apt(lines), Grows(lines) \/ GrowsInPart(lines)
    PROVE  \E part : Written(part, lines) /\ ledger' = ledger \o part
<1>1. lines \in Seq(Line) /\ Len(lines) \in 1..2 /\ DOMAIN lines = 1..Len(lines)
      /\ \A i \in 1..Len(lines) : lines[i] \in Line /\ lines[i].end = "whole"
  BY DEF Apt
<1>2. CASE Grows(lines)
  <2>1. Written(lines, lines)
    BY <1>1 DEF Written
  <2> QED
    BY <1>2, <2>1 DEF Grows
<1>3. CASE GrowsInPart(lines)
  <2>1. PICK last \in 1..Len(lines), end \in {"unended", "cut"} :
            ledger' = ledger \o [k \in 1..last |-> IF k = last THEN [lines[k] EXCEPT !.end = end]
                                                   ELSE lines[k]]
    BY <1>1, <1>3 DEF GrowsInPart, Grows
  <2> DEFINE cut  == [lines[last] EXCEPT !.end = end]
             part == [k \in 1..last |-> IF k = last THEN [lines[k] EXCEPT !.end = end] ELSE lines[k]]
  <2>2. /\ cut \in Line /\ cut.kind = lines[last].kind /\ cut.n = lines[last].n
        /\ cut.mark = lines[last].mark /\ cut.of = lines[last].of /\ cut.at = lines[last].at
    BY <1>1, <2>1 DEF Line
  <2>3. part = [k \in 1..last |-> IF k = last THEN cut ELSE lines[k]]
    OBVIOUS
  <2> HIDE DEF cut, part
  <2>4. last \in Nat /\ \A k \in 1..last : part[k] \in Line
    BY <1>1, <2>2, <2>3
  <2>5. part \in Seq(Line) /\ Len(part) = last
    BY <2>3, <2>4
  <2>6. Written(part, lines)
    BY <1>1, <2>2, <2>3, <2>5 DEF Written
  <2> QED
    BY <2>1, <2>6 DEF part
<1> QED
  BY <1>2, <1>3

\* Old lines stay, new ones follow.
Follows(part, lines) ==
    /\ ledger' \in Seq(Line) /\ Len(ledger') = Len(ledger) + Len(part)
    /\ Len(ledger) \in Nat /\ Len(part) \in 1..2 /\ Len(lines) \in 1..2
    /\ Len(part) <= Len(lines)
    /\ \A k \in 1..Len(ledger) : ledger'[k] = ledger[k]
    /\ \A i \in 1..Len(part) :
          /\ ledger'[Len(ledger) + i] = part[i]
          /\ part[i] \in Line /\ lines[i] \in Line
          /\ Entry(part[i]) = Entry(lines[i])
    /\ \A k \in 1..Len(ledger') :
          k > Len(ledger) => \E i \in 1..Len(part) : k = Len(ledger) + i

LEMMA Grown ==
    ASSUME LedgerType, NEW lines, Apt(lines), NEW part, Written(part, lines),
           ledger' = ledger \o part
    PROVE  Follows(part, lines)
<1>1. ledger \in Seq(Line) /\ part \in Seq(Line) /\ lines \in Seq(Line) /\ Len(part) \in 1..Len(lines)
      /\ Len(lines) \in 1..2 /\ Len(part) \in 1..2
  <2>1. ledger \in Seq(Line) /\ part \in Seq(Line) /\ Len(part) \in 1..Len(lines)
    BY DEF LedgerType, Written
  <2>2. lines \in Seq(Line) /\ Len(lines) \in 1..2
    BY DEF Apt
  <2>3. \A a \in 1..2 : \A b \in 1..a : b \in 1..2
    OBVIOUS
  <2>4. Len(part) \in 1..2
    BY <2>1, <2>2, <2>3
  <2> QED
    BY <2>1, <2>2, <2>4
<1>2. /\ ledger' \in Seq(Line) /\ Len(ledger') = Len(ledger) + Len(part)
      /\ \A k \in 1..Len(ledger) : ledger'[k] = ledger[k]
      /\ \A i \in 1..Len(part) : ledger'[Len(ledger) + i] = part[i]
  BY <1>1
<1>3. \A i \in 1..Len(part) : /\ part[i] \in Line /\ lines[i] \in Line
                              /\ Entry(part[i]) = Entry(lines[i])
  <2> SUFFICES ASSUME NEW i \in 1..Len(part)
               PROVE  part[i] \in Line /\ lines[i] \in Line /\ Entry(part[i]) = Entry(lines[i])
    OBVIOUS
  <2>1. i \in 1..Len(lines)
    BY <1>1
  <2>2. /\ part[i].kind = lines[i].kind /\ part[i].n = lines[i].n
        /\ part[i].mark = lines[i].mark /\ part[i].of = lines[i].of /\ part[i].at = lines[i].at
    BY DEF Written
  <2>3. Entry(part[i]) = Entry(lines[i])
    BY <2>2 DEF Entry
  <2> QED
    BY <1>1, <2>1, <2>3
<1>4. ASSUME NEW k \in 1..Len(ledger'), k > Len(ledger)
      PROVE  \E i \in 1..Len(part) : k = Len(ledger) + i
  <2>1. k - Len(ledger) \in 1..Len(part) /\ k = Len(ledger) + (k - Len(ledger))
    BY <1>1, <1>2, <1>4
  <2> QED
    BY <2>1
<1> QED
  BY <1>1, <1>2, <1>3, <1>4 DEF Follows

LEMMA LedgerGrows ==
    ASSUME LedgerInv, NEW lines, Apt(lines), NEW part, Written(part, lines),
           ledger' = ledger \o part
    PROVE  LedgerInv'
<1> DEFINE n == Len(ledger)
<1>0. LedgerType
  BY DEF LedgerInv
<1>1. /\ ledger' \in Seq(Line) /\ Len(ledger') = n + Len(part)
      /\ n \in Nat /\ Len(part) \in 1..2 /\ Len(lines) \in 1..2 /\ Len(part) <= Len(lines)
      /\ \A k \in 1..n : ledger'[k] = ledger[k]
      /\ \A i \in 1..Len(part) : /\ ledger'[n + i] = part[i]
                                 /\ part[i] \in Line /\ lines[i] \in Line
                                 /\ Entry(part[i]) = Entry(lines[i])
      /\ \A k \in 1..Len(ledger') : k > n => \E i \in 1..Len(part) : k = n + i
  <2>1. Follows(part, lines)
    BY <1>0, Grown
  <2> QED
    BY <2>1 DEF Follows
<1>2. \A i \in 1..Len(part) : /\ i \in 1..Len(lines)
                              /\ part[i].kind = lines[i].kind /\ part[i].of = lines[i].of
                              /\ part[i].at = lines[i].at
  BY <1>1 DEF Written
<1> HIDE DEF n
<1>3. LedgerType'
  <2> SUFFICES ASSUME NEW k \in 1..Len(ledger'), ledger'[k].kind = "undone"
               PROVE  ledger'[k].of \in 1..k - 1
    BY <1>1 DEF LedgerType
  <2>1. CASE k <= n
    BY <1>0, <1>1, <2>1 DEF LedgerType, n
  <2>2. CASE k > n
    <3>1. PICK i \in 1..Len(part) : k = n + i
      BY <1>1, <2>2
    <3>2. lines[i].of \in 1..n /\ ledger'[k].of = lines[i].of
      BY <1>1, <1>2, <3>1 DEF Apt, n
    <3> QED
      BY <1>1, <3>1, <3>2
  <2> QED
    BY <1>1, <2>1, <2>2
<1>4. OnceInv'
  <2> SUFFICES ASSUME NEW j \in 1..Len(ledger'), NEW k \in 1..Len(ledger'), j < k,
                      ledger'[j].end # "cut", ledger'[k].end # "cut",
                      Entry(ledger'[j]) = Entry(ledger'[k])
               PROVE  ledger'[j].end = "unended"
    BY DEF OnceInv
  <2>1. CASE k <= n
    <3>1. j \in 1..n /\ k \in 1..n
      BY <1>1, <2>1
    <3> QED
      BY <1>1, <3>1 DEF LedgerInv, OnceInv, n
  <2>2. CASE k > n /\ j <= n
    <3>1. PICK i \in 1..Len(part) : k = n + i
      BY <1>1, <2>2
    <3>2. Entry(ledger[j]) = Entry(lines[i]) /\ j \in 1..n
      BY <1>1, <2>2, <3>1
    <3>3. j \notin Readable(n)
      BY <1>2, <3>1, <3>2 DEF Apt, n
    <3>4. ledger[j].end # "whole" /\ ledger[j] \in Line
      BY <1>0, <3>2, <3>3 DEF Readable, LedgerType, n
    <3> QED
      BY <1>1, <3>2, <3>4 DEF Line
  <2>3. CASE j > n
    <3>1. PICK h \in 1..Len(part) : j = n + h
      BY <1>1, <2>3
    <3>2. PICK i \in 1..Len(part) : k = n + i
      <4>1. k > n
        BY <1>1, <2>3
      <4> QED
        BY <1>1, <4>1
    <3>3. h \in 1..i - 1
      BY <1>1, <3>1, <3>2
    <3>4. Entry(lines[h]) = Entry(lines[i])
      BY <1>1, <3>1, <3>2
    <3> QED
      BY <1>2, <3>2, <3>3, <3>4 DEF Apt
  <2> QED
    BY <1>1, <2>1, <2>2, <2>3
<1>5. LateInv'
  <2> SUFFICES ASSUME Ended', NEW j \in 1..Len(ledger'), NEW k \in 1..Len(ledger'), j < k,
                      ledger'[j].end = "whole", ledger'[k].end = "whole", ledger'[k].kind \in Dated
               PROVE  ledger'[j].at <= ledger'[k].at
    BY DEF LateInv
  <2>0. Ended
    BY <1>1 DEF Ended, n
  <2>1. CASE k <= n
    <3>1. j \in 1..n /\ k \in 1..n
      BY <1>1, <2>1
    <3> QED
      BY <1>1, <2>0, <3>1 DEF LedgerInv, LateInv, n
  <2>2. CASE k > n /\ j <= n
    <3>1. PICK i \in 1..Len(part) : k = n + i
      BY <1>1, <2>2
    <3>2. After(lines[i].at) /\ ledger'[k].at = lines[i].at
      BY <1>1, <1>2, <3>1 DEF Apt
    <3>3. j \in Counted(n) /\ ledger'[j] = ledger[j]
      <4>1. j \in 1..n /\ ledger'[j] = ledger[j] /\ ledger[j].end = "whole"
        BY <1>1, <2>2
      <4> QED
        BY <2>0, <4>1, CountedAll DEF n
    <3>4. ledger[j].at < lines[i].at
      BY <3>2, <3>3 DEF After, n
    <3>5. ledger[j].at \in Nat /\ lines[i].at \in Nat
      <4>1. ledger[j] \in Line /\ lines[i] \in Line
        <5>1. j \in 1..n
          BY <1>1, <2>2
        <5> QED
          BY <1>0, <1>1, <3>1, <5>1 DEF LedgerType, n
      <4> QED
        BY <4>1 DEF Line, Instants
    <3> QED
      BY <3>2, <3>3, <3>4, <3>5
  <2>3. CASE j > n
    <3>1. PICK h \in 1..Len(part) : j = n + h
      BY <1>1, <2>3
    <3>2. PICK i \in 1..Len(part) : k = n + i
      <4>1. k > n
        BY <1>1, <2>3
      <4> QED
        BY <1>1, <4>1
    <3>3. h \in 1..i - 1
      BY <1>1, <3>1, <3>2
    <3>4. lines[h].at = lines[i].at
      BY <1>2, <3>2, <3>3 DEF Apt
    <3>5. ledger'[j].at = lines[h].at /\ ledger'[k].at = lines[i].at
      BY <1>1, <1>2, <3>1, <3>2
    <3>6. lines[h].at \in Nat
      <4>1. lines[h] \in Line
        BY <1>1
      <4> QED
        BY <4>1 DEF Line, Instants
    <3> QED
      BY <3>4, <3>5, <3>6
  <2> QED
    BY <1>1, <2>1, <2>2, <2>3
<1> QED
  BY <1>3, <1>4, <1>5 DEF LedgerInv

-----------------------------------------------------------------------------
(* What the processes plan fits the ledger they read.                      *)

\* The value of an approval that the ledger lacks.
LEMMA RecordFits ==
    ASSUME LedgerType, NEW n \in Numbers, approved[n] \in Instants, Lacks(Len(ledger), n)
    PROVE  Fits(LineFor(Len(ledger), n))
<1> DEFINE size == Len(ledger)
           kind == IF Held(size) THEN "revised" ELSE "pending"
           l == Value(n, kind)
<1>0. size \in 0..Len(ledger)
  BY DEF LedgerType
<1>1. l \in Line /\ l.kind = kind /\ l.n = n /\ l.end = "whole"
  <2>1. PICK k \in {"pending", "revised"} : k = kind
    OBVIOUS
  <2> DEFINE a == ALine(k, approved[n])
  <2>2. a \in Line /\ a.kind = k /\ a.end = "whole"
    BY CommitmentsAssumption DEF ALine, Line, Numbers
  <2> HIDE DEF a
  <2>3. LET r == [a EXCEPT !.n = n] IN r \in Line /\ r.kind = k /\ r.n = n /\ r.end = "whole"
    BY <2>2 DEF Line
  <2> QED
    BY <2>1, <2>3 DEF Value, a
<1> HIDE DEF l
<1>2. ASSUME NEW j \in Readable(size), Entry(ledger[j]) = Entry(l) PROVE FALSE
  <2>1. PICK i \in Counted(size) : Entry(ledger[i]) = Entry(ledger[j])
    BY <1>0, Representative
  <2>2. ledger[i] \in Line /\ Entry(ledger[i]) = Entry(l)
    BY <1>0, <1>2, <2>1, Lines
  <2>3. ledger[i].kind = kind /\ (kind = "revised" => ledger[i].n = n)
    BY <1>1, <2>2, EntryFacts
  <2>4. CASE Held(size)
    <3>1. i \in OfKind(size, {"pending", "revised"}) /\ ledger[i].n = n
      BY <2>1, <2>3, <2>4 DEF OfKind
    <3>2. n <= HeadNumber(size) /\ n > HeadNumber(size)
      BY <1>0, <2>4, <3>1, HeadFacts DEF Lacks
    <3>3. n \in Nat /\ HeadNumber(size) \in Nat
      BY <1>0, <2>4, HeadFacts DEF Numbers
    <3> QED
      BY <3>2, <3>3
  <2>5. CASE ~Held(size)
    BY <2>1, <2>3, <2>5 DEF Held, OfKind
  <2> QED
    BY <2>4, <2>5
<1>3. LineFor(size, n) = <<l>>
  BY DEF LineFor, l
<1> HIDE DEF size
<1> QED
  BY <1>1, <1>2, <1>3 DEF Fits, FitsValue, size

\* What the desk decides, at an instant later than all that counts.
LEMMA DecidedFits ==
    ASSUME NEW d \in Desks, desk[d].verb \in Verbs \ {"record"}, NEW at \in Instants, After(at),
           Decided(d, Len(ledger), at) # << >>
    PROVE  /\ Fits(Decided(d, Len(ledger), at))
           /\ desk[d].shown = 0 \/ desk[d].shown = Newest(Len(ledger))
<1> DEFINE verb  == desk[d].verb
           mark  == IF verb = "altered and due" THEN "altered" ELSE verb
           size  == Len(ledger)
           lines == Decided(d, size, at)
<1>1. CASE verb = "due"
  <2>1. lines = IF DueDecided(d, size) THEN <<ALine("due_set", at)>> ELSE << >>
    BY <1>1 DEF Decided, Marks
  <2>2. DueDecided(d, size) /\ lines = <<ALine("due_set", at)>>
    BY <2>1
  <2> QED
    BY <2>2 DEF DueDecided, AsShown, Fits, FitsDue
<1>2. CASE verb = "undo"
  <2>1. lines = IF UndoDecided(d, size, at)
                  THEN <<[ALine("undone", at) EXCEPT !.of = InForce(size)]>> ELSE << >>
    BY <1>2 DEF Decided, Marks
  <2>2. UndoDecided(d, size, at) /\ lines = <<[ALine("undone", at) EXCEPT !.of = InForce(size)]>>
    BY <2>1
  <2> QED
    BY <2>2 DEF UndoDecided, AsShown, Fits, FitsUndo, IsUndoable
<1>3. CASE verb \in Marks \cup {"altered and due"}
  <2>1. lines = IF ~MarkDecided(d, size, mark) THEN << >>
                ELSE IF verb = mark THEN <<Mark(mark, at)>>
                ELSE <<Mark(mark, at), ALine("due_set", at)>>
    BY <1>3 DEF Decided, Marks
  <2>2. MarkDecided(d, size, mark)
    BY <2>1
  <2>3. lines \in {<<Mark(mark, at)>>, <<Mark(mark, at), ALine("due_set", at)>>}
    BY <2>1, <2>2
  <2>4. mark \in Marks
    BY <1>3 DEF Marks
  <2> HIDE DEF mark, lines
  <2>5. FitsMark(lines)
    BY <2>2, <2>3, <2>4 DEF MarkDecided, FitsMark
  <2> QED
    BY <2>2, <2>5 DEF MarkDecided, AsShown, Fits, lines
<1>4. verb \in {"due", "undo"} \cup Marks \cup {"altered and due"}
  BY DEF Verbs
<1> QED
  BY <1>1, <1>2, <1>3, <1>4

\* `_occurred`.
LEMMA OccurredIsAfter ==
    ASSUME LedgerType, Held(Len(ledger)), NEW now \in Nat
    PROVE  LET at == Occurred(Len(ledger), now) IN at \in Nat /\ at >= now /\ After(at)
<1>1. Len(ledger) \in 0..Len(ledger) /\ Counted(Len(ledger)) # {}
  BY DEF LedgerType, Held, OfKind
<1>2. ChangedAt(Len(ledger)) \in Nat /\ \A k \in Counted(Len(ledger)) : ledger[k].at <= ChangedAt(Len(ledger))
  BY <1>1, ChangedAtFacts DEF Instants
<1>3. \A k \in Counted(Len(ledger)) : ledger[k].at \in Nat
  BY <1>1, Lines DEF Line, Instants
<1> QED
  BY <1>2, <1>3 DEF Occurred, After

\* Of a ledger that is as it was the same is said.
LEMMA SameLedger ==
    ASSUME LedgerType, UNCHANGED ledger
    PROVE  LET n == Len(ledger) IN
           /\ Readable(n)' = Readable(n) /\ Counted(n)' = Counted(n)
           /\ Newest(n)' = Newest(n) /\ InForce(n)' = InForce(n) /\ State(n)' = State(n)
           /\ \A m : Lacks(n, m)' <=> Lacks(n, m)
<1> DEFINE n == Len(ledger)
<1>0. Len(ledger)' = n /\ n \in 0..Len(ledger)
  BY DEF LedgerType
<1>1. Readable(n)' = Readable(n)
  BY <1>0 DEF Readable
<1>2. Counted(n)' = Counted(n)
  BY <1>0, <1>1 DEF Counted
<1>3. \A kinds : OfKind(n, kinds)' = OfKind(n, kinds)
  BY <1>0, <1>2 DEF OfKind
<1>4. Newest(n)' = Newest(n)
  BY <1>0, <1>2 DEF Newest
<1>5. \A u, m : Undoes(n, u, m)' <=> Undoes(n, u, m)
  BY <1>0, <1>2 DEF Undoes
<1>6. Dropped(n)' = Dropped(n)
  BY <1>0, <1>3, <1>5 DEF Dropped
<1>7. InForce(n)' = InForce(n)
  <2> DEFINE K == OfKind(n, {"marked"}) \ Dropped(n)
  <2>1. K' = K
    BY <1>3, <1>6
  <2>2. 0 \notin K /\ \A k \in K : ledger'[k] = ledger[k]
    BY <1>0, Lines DEF OfKind
  <2>3. \E L : L = K
    OBVIOUS
  <2>4. PICK L : L = K
    BY <2>3
  <2>5. MarkOf(L)' = MarkOf(L)
    BY <2>2, <2>4, SameMarks
  <2>6. InForce(n) = MarkOf(L)
    BY <2>4 DEF InForce
  <2>7. InForce(n)' = MarkOf(L)'
    BY <1>0, <2>1, <2>4 DEF InForce
  <2> QED
    BY <2>5, <2>6, <2>7
<1>8. State(n)' = State(n)
  BY <1>0, <1>7 DEF State, StateOf
<1>9. \A m : Lacks(n, m)' <=> Lacks(n, m)
  <2>1. Held(n)' <=> Held(n)
    BY <1>0, <1>3 DEF Held
  <2>2. Malformed(n)' <=> Malformed(n)
    BY <1>0 DEF Malformed
  <2>3. HeadNumber(n)' = HeadNumber(n)
    BY <1>0, <1>3 DEF HeadNumber
  <2> QED
    BY <1>0, <2>1, <2>2, <2>3 DEF Lacks
<1> QED
  BY <1>1, <1>2, <1>4, <1>7, <1>8, <1>9

LEMMA SameFits ==
    ASSUME LedgerType, UNCHANGED ledger
    PROVE  \A lines : Fits(lines)' <=> Fits(lines)
<1> DEFINE n == Len(ledger)
<1>1. /\ Readable(n)' = Readable(n) /\ Counted(n)' = Counted(n)
      /\ Newest(n)' = Newest(n) /\ InForce(n)' = InForce(n) /\ State(n)' = State(n)
  BY SameLedger
<1>2. \A at : After(at)' <=> After(at)
  BY <1>1 DEF After
<1>3. \A at : IsUndoable(at)' <=> IsUndoable(at)
  BY <1>1 DEF IsUndoable
<1>4. \A lines : FitsValue(lines)' <=> FitsValue(lines)
  BY <1>1 DEF FitsValue, Entry
<1>5. \A lines : FitsMark(lines)' <=> FitsMark(lines)
  BY <1>1, <1>2 DEF FitsMark
<1>6. \A lines : FitsDue(lines)' <=> FitsDue(lines)
  BY <1>2 DEF FitsDue
<1>7. \A lines : FitsUndo(lines)' <=> FitsUndo(lines)
  BY <1>1, <1>2, <1>3 DEF FitsUndo
<1> QED
  BY <1>4, <1>5, <1>6, <1>7 DEF Fits

-----------------------------------------------------------------------------
(* The inductive invariant: besides what the ledger is, what a process that *)
(* has read it knows of it, as long as it has not grown.                    *)

Doing(x) ==
    /\ x.at # "idle" => x.tries < Attempts /\ (x.verb = "record" => x.shown = 0 /\ approved[x.n] # 0)
    /\ x.at = "appending" =>
         /\ x.size <= Len(ledger)
         /\ x.size = Len(ledger) => Fits(x.lines) /\ (x.shown = 0 \/ x.shown = Newest(x.size))

DeskInv == \A d \in Desks : Doing(desk[d])

KeeperInv ==
    /\ keeper.at \in {"reading", "appending"} => approved[keeper.n] # 0
    /\ keeper.at # "down" => keeper.size <= Len(ledger) /\ keeper.tries < Attempts
    /\ keeper.at = "appending" /\ keeper.size = Len(ledger) => Lacks(Len(ledger), keeper.n)

IInv == TypeOK /\ LedgerInv /\ DeskInv /\ KeeperInv

States == {Idle} \cup Reading \cup Appending

Still == ledger' = ledger /\ \A n \in Numbers : approved[n] # 0 => approved'[n] # 0

Longer == Len(ledger') > Len(ledger) /\ Len(ledger') \in Nat /\ approved' = approved

LEMMA StatesFacts ==
    ASSUME NEW x \in States
    PROVE  /\ x = Idle \/ x \in Reading \/ x \in Appending
           /\ x.at \in {"idle", "reading", "appending"}
           /\ x.at = "idle" => x = Idle
           /\ x.at = "reading" => x \in Reading
           /\ x.at = "appending" => x \in Appending
           /\ x.at # "idle" => /\ x.n \in Numbers /\ x.verb \in Verbs
                               /\ x.shown \in Nat /\ x.tries \in 0..Attempts
BY DEF States, Idle, Reading, Appending

LEMMA StillDoing ==
    ASSUME LedgerType, NEW x \in States, Doing(x), Still
    PROVE  Doing(x)'
<1>1. x.at # "idle" => x.n \in Numbers
  BY StatesFacts
<1>2. Fits(x.lines)' <=> Fits(x.lines)
  BY SameFits DEF Still
<1>3. x.size = Len(ledger) => Newest(x.size)' = Newest(x.size)
  BY SameLedger DEF Still
<1> QED
  BY <1>1, <1>2, <1>3 DEF Doing, Still

LEMMA LongerDoing ==
    ASSUME LedgerType, NEW x \in States, Doing(x), Longer
    PROVE  Doing(x)'
<1>1. x.at = "appending" => x.size \in Nat
  BY StatesFacts DEF Appending
<1>2. Len(ledger) \in Nat
  BY DEF LedgerType
<1> QED
  BY <1>1, <1>2 DEF Doing, Longer

\* One process does something, the others are as they were.
LEMMA DeskSteps ==
    ASSUME TypeOK, DeskInv, Still \/ Longer, NEW d \in Desks, NEW v \in States, Doing(v)',
           desk' = [desk EXCEPT ![d] = v]
    PROVE  DeskInv' /\ desk' \in [Desks -> States]
<1>1. desk \in [Desks -> States] /\ LedgerType
  BY DEF TypeOK, States, LedgerType
<1>2. desk' \in [Desks -> States]
  BY <1>1
<1>3. ASSUME NEW e \in Desks PROVE Doing(desk[e])'
  <2>1. CASE e = d
    <3>1. desk'[e] = v
      BY <1>1, <2>1
    <3> QED
      BY <3>1
  <2>2. CASE e # d
    <3>1. desk'[e] = desk[e]
      BY <1>1, <2>2
    <3>2. PICK x \in States : x = desk[e]
      BY <1>1
    <3>3. Doing(x)
      BY <3>2 DEF DeskInv
    <3>4. Doing(x)'
      BY <1>1, <3>3, StillDoing, LongerDoing
    <3> QED
      BY <3>1, <3>2, <3>4
  <2> QED
    BY <2>1, <2>2
<1> QED
  BY <1>2, <1>3 DEF DeskInv

LEMMA DesksStay ==
    ASSUME TypeOK, DeskInv, Still \/ Longer, UNCHANGED desk
    PROVE  DeskInv' /\ desk' \in [Desks -> States]
<1>1. desk \in [Desks -> States] /\ LedgerType
  BY DEF TypeOK, States, LedgerType
<1>3. ASSUME NEW e \in Desks PROVE Doing(desk[e])'
  <2>2. PICK x \in States : x = desk[e]
    BY <1>1
  <2>3. Doing(x)
    BY <2>2 DEF DeskInv
  <2>4. Doing(x)'
    BY <1>1, <2>3, StillDoing, LongerDoing
  <2> QED
    BY <2>2, <2>4
<1> QED
  BY <1>1, <1>3 DEF DeskInv

LEMMA KeeperStays ==
    ASSUME TypeOK, KeeperInv, Still \/ Longer, UNCHANGED keeper
    PROVE  KeeperInv'
<1>1. Len(ledger) \in Nat /\ LedgerType
  BY DEF TypeOK, LedgerType
<1>2. keeper.at # "down" => keeper.size \in Nat /\ keeper.n \in Numbers
  BY DEF TypeOK, Down, Catching
<1>3. CASE Still
  <2>1. \A m : Lacks(Len(ledger), m)' <=> Lacks(Len(ledger), m)
    BY <1>1, <1>3, SameLedger DEF Still
  <2>2. PICK m : m = keeper.n
    OBVIOUS
  <2>3. Lacks(Len(ledger), m)' <=> Lacks(Len(ledger), m)
    BY <2>1
  <2>4. Lacks(Len(ledger), keeper.n)' <=> Lacks(Len(ledger), keeper.n)
    BY <2>2, <2>3
  <2> QED
    BY <1>2, <1>3, <2>4 DEF KeeperInv, Still
<1>4. CASE Longer
  BY <1>1, <1>2, <1>4 DEF KeeperInv, Longer
<1> QED
  BY <1>3, <1>4

LEMMA LedgerStays == ASSUME LedgerInv, UNCHANGED ledger PROVE LedgerInv'
<1>1. LedgerType'
  BY DEF LedgerInv, LedgerType
<1>2. OnceInv'
  BY DEF LedgerInv, OnceInv, Entry
<1>3. LateInv'
  BY DEF LedgerInv, LateInv, Ended
<1> QED
  BY <1>1, <1>2, <1>3 DEF LedgerInv


\* An append, whole or cut short, of what fits the ledger.
LEMMA Extended ==
    ASSUME TypeOK, LedgerInv, NEW lines, Fits(lines), Grows(lines) \/ GrowsInPart(lines),
           UNCHANGED approved
    PROVE  LedgerInv' /\ Longer
<1>1. LedgerType /\ Apt(lines)
  BY FitsIsApt DEF LedgerInv
<1>2. PICK part : Written(part, lines) /\ ledger' = ledger \o part
  BY <1>1, GrowsWritten
<1>3. LedgerInv'
  BY <1>1, <1>2, LedgerGrows
<1>4. Len(ledger') = Len(ledger) + Len(part) /\ Len(ledger) \in Nat /\ Len(part) \in 1..2
  <2>1. Follows(part, lines)
    BY <1>1, <1>2, Grown
  <2> QED
    BY <2>1 DEF Follows
<1> QED
  BY <1>3, <1>4 DEF Longer

LEMMA TypeOfParts ==
    TypeOK <=> /\ approved \in [Numbers -> 0..MaxClock] /\ LedgerType
               /\ desk \in [Desks -> States] /\ keeper \in {Down} \cup Catching
               /\ clock \in 0..MaxClock /\ faults \in 0..MaxFaults
BY DEF TypeOK, LedgerType, States

LEMMA TypeOfPartsNext ==
    (TypeOK <=> /\ approved \in [Numbers -> 0..MaxClock] /\ LedgerType
                /\ desk \in [Desks -> States] /\ keeper \in {Down} \cup Catching
                /\ clock \in 0..MaxClock /\ faults \in 0..MaxFaults)'
BY TypeOfParts, PTL

\* What a process starts to do.
LEMMA ReadingIsAState ==
    ASSUME NEW verb \in Verbs, NEW n \in Numbers, NEW shown \in Nat, NEW tries \in 0..Attempts
    PROVE  LET v == [at |-> "reading", verb |-> verb, n |-> n, shown |-> shown, tries |-> tries]
           IN  v \in States /\ v.at = "reading" /\ v.verb = verb /\ v.n = n
               /\ v.shown = shown /\ v.tries = tries
BY DEF States, Reading

LEMMA Initially == Init => IInv
<1> SUFFICES ASSUME Init PROVE IInv
  OBVIOUS
<1> USE CommitmentsAssumption DEF Init
<1>1. LedgerType
  BY DEF LedgerType
<1>2. LedgerInv
  BY <1>1 DEF LedgerInv, OnceInv, LateInv
<1>3. TypeOK
  BY <1>1, TypeOfParts DEF Numbers, States
<1>4. DeskInv
  BY DEF DeskInv, Doing, Idle
<1>5. KeeperInv
  BY DEF KeeperInv, Down
<1> QED
  BY <1>2, <1>3, <1>4, <1>5 DEF IInv

LEMMA StartsKeeps ==
    ASSUME IInv, UNCHANGED <<ledger, keeper, faults>>, NEW d \in Desks,
           approved' \in [Numbers -> 0..MaxClock], clock' \in 0..MaxClock,
           \A m \in Numbers : approved[m] # 0 => approved'[m] # 0,
           NEW verb \in Verbs, NEW n \in Numbers, NEW shown \in Nat, Starts(d, verb, n, shown),
           verb = "record" => shown = 0 /\ approved'[n] # 0
    PROVE  IInv'
<1>1. Still
  BY DEF Still
<1>2. LedgerInv' /\ KeeperInv'
  BY <1>1, LedgerStays, KeeperStays DEF IInv
<1>3. 0 \in 0..Attempts /\ 0 < Attempts
  BY CommitmentsAssumption
<1> DEFINE r == [at |-> "reading", verb |-> verb, n |-> n, shown |-> shown, tries |-> 0]
<1>4. /\ r \in States /\ r.at = "reading" /\ r.verb = verb /\ r.n = n
      /\ r.shown = shown /\ r.tries = 0
  BY <1>3, ReadingIsAState
<1>5. desk' = [desk EXCEPT ![d] = r]
  BY DEF Starts
<1> HIDE DEF r
<1>6. PICK v : v = r
  OBVIOUS
<1>7. /\ v \in States /\ v.at = "reading" /\ v.verb = verb /\ v.n = n
      /\ v.shown = shown /\ v.tries = 0
  BY <1>4, <1>6
<1>8. Doing(v)'
  BY <1>3, <1>7 DEF Doing
<1>9. DeskInv' /\ desk' \in [Desks -> States]
  BY <1>1, <1>5, <1>6, <1>7, <1>8, DeskSteps DEF IInv
<1> QED
  BY <1>2, <1>9, TypeOfParts, TypeOfPartsNext DEF IInv, LedgerInv

LEMMA ApprovesKeeps ==
    ASSUME IInv, NEW d \in Desks, NEW n \in Numbers, Approves(d, n) PROVE IInv'
<1>1. approved \in [Numbers -> 0..MaxClock]
  BY TypeOfParts DEF IInv
<1>2. clock' \in 1..MaxClock
  BY DEF Approves, Stamps, Instants
<1>3. approved' \in [Numbers -> 0..MaxClock] /\ approved'[n] # 0 /\ clock' \in 0..MaxClock
  BY <1>1, <1>2 DEF Approves
<1>4. \A m \in Numbers : approved[m] # 0 => approved'[m] # 0
  BY <1>1, <1>2 DEF Approves
<1>5. "record" \in Verbs /\ 0 \in Nat
  BY DEF Verbs
<1> QED
  BY <1>3, <1>4, <1>5, StartsKeeps DEF Approves

LEMMA ApprovesAgainKeeps ==
    ASSUME IInv, NEW d \in Desks, NEW n \in Numbers, ApprovesAgain(d, n) PROVE IInv'
<1>1. approved \in [Numbers -> 0..MaxClock] /\ clock \in 0..MaxClock
  BY TypeOfParts DEF IInv
<1>2. "record" \in Verbs /\ 0 \in Nat
  BY DEF Verbs
<1> QED
  BY <1>1, <1>2, StartsKeeps DEF ApprovesAgain, Approved

LEMMA AsksKeeps ==
    ASSUME IInv, NEW d \in Desks, NEW verb \in Asked, NEW pinned \in BOOLEAN, Asks(d, verb, pinned)
    PROVE  IInv'
<1>1. approved \in [Numbers -> 0..MaxClock] /\ clock \in 0..MaxClock /\ LedgerType
  BY TypeOfParts DEF IInv
<1>2. verb \in Verbs /\ verb # "record" /\ 0 \in Numbers
  BY CommitmentsAssumption DEF Numbers
<1>3. Len(ledger) \in 0..Len(ledger) /\ Counted(Len(ledger)) # {}
  BY <1>1 DEF Asks, Held, OfKind, LedgerType
<1>4. Newest(Len(ledger)) \in Nat
  BY <1>1, <1>3, NewestFacts, Lines
<1>5. PICK shown \in Nat : shown = IF pinned THEN Newest(Len(ledger)) ELSE 0
  BY <1>4
<1> QED
  BY <1>1, <1>2, <1>5, StartsKeeps DEF Asks


LEMMA EndsKeeps ==
    ASSUME IInv, NEW d \in Desks, Ends(d), Still \/ Longer, LedgerInv',
           UNCHANGED <<approved, keeper>>, clock' \in 0..MaxClock, faults' \in 0..MaxFaults
    PROVE  IInv'
<1>1. KeeperInv'
  BY KeeperStays DEF IInv
<1>2. PICK v : v = Idle
  OBVIOUS
<1>3. v \in States /\ v.at = "idle"
  BY <1>2 DEF States, Idle
<1>4. Doing(v)'
  BY <1>3 DEF Doing
<1>5. DeskInv' /\ desk' \in [Desks -> States]
  BY <1>2, <1>3, <1>4, DeskSteps DEF IInv, Ends
<1> QED
  BY <1>1, <1>5, TypeOfParts, TypeOfPartsNext DEF IInv, LedgerInv

LEMMA AbandonsKeeps == ASSUME IInv, NEW d \in Desks, Abandons(d) PROVE IInv'
<1>1. Still /\ clock \in 0..MaxClock /\ faults \in 0..MaxFaults /\ LedgerInv'
  BY LedgerStays, TypeOfParts DEF Abandons, Still, IInv
<1> QED
  BY <1>1, EndsKeeps DEF Abandons

LEMMA PlansKeeps ==
    ASSUME IInv, NEW d \in Desks, desk[d].at = "reading", NEW lines, Fits(lines),
           desk[d].shown = 0 \/ desk[d].shown = Newest(Len(ledger)),
           Plans(d, Len(ledger), lines),
           UNCHANGED <<approved, ledger, keeper, faults>>, clock' \in 0..MaxClock
    PROVE  IInv'
<1>1. Still /\ LedgerInv'
  BY LedgerStays DEF Still, IInv
<1>2. KeeperInv'
  BY <1>1, KeeperStays DEF IInv
<1>3. desk[d] \in Reading /\ LedgerType /\ Doing(desk[d]) /\ Len(ledger) \in Nat
  BY StatesFacts, TypeOfParts DEF IInv, DeskInv, LedgerType
<1>4. lines \in Seq(Line)
  BY <1>3, FitsIsApt DEF Apt
<1> DEFINE r == [at |-> "appending", verb |-> desk[d].verb, n |-> desk[d].n,
                 shown |-> desk[d].shown, tries |-> desk[d].tries, size |-> Len(ledger),
                 lines |-> lines]
<1>5. /\ desk[d].verb \in Verbs /\ desk[d].n \in Numbers /\ desk[d].shown \in Nat
      /\ desk[d].tries \in 0..Attempts
  BY <1>3 DEF Reading
<1>6. /\ r \in Appending /\ r.at = "appending" /\ r.verb = desk[d].verb /\ r.n = desk[d].n
      /\ r.shown = desk[d].shown /\ r.tries = desk[d].tries
      /\ r.size = Len(ledger) /\ r.lines = lines
  BY <1>3, <1>4, <1>5 DEF Appending
<1>7. desk' = [desk EXCEPT ![d] = r]
  BY DEF Plans
<1> HIDE DEF r
<1>8. PICK v : v = r
  OBVIOUS
<1>9. v \in States
  BY <1>6, <1>8 DEF States
<1>10. Fits(v.lines)'
  BY <1>3, <1>6, <1>8, SameFits
<1>11. Newest(v.size)' = Newest(v.size) /\ v.size = Len(ledger)
  BY <1>3, <1>6, <1>8, SameLedger
<1>12. v.tries < Attempts /\ (v.verb = "record" => v.shown = 0 /\ approved[v.n] # 0)
  BY <1>3, <1>6, <1>8 DEF Doing
<1>13. v.shown = 0 \/ v.shown = Newest(v.size)
  BY <1>6, <1>8
<1>14. v.size <= Len(ledger) /\ v.at = "appending"
  BY <1>3, <1>6, <1>8
<1>15. Doing(v)'
  BY <1>10, <1>11, <1>12, <1>13, <1>14 DEF Doing
<1>16. DeskInv' /\ desk' \in [Desks -> States]
  BY <1>1, <1>7, <1>8, <1>9, <1>15, DeskSteps DEF IInv
<1> QED
  BY <1>1, <1>2, <1>16, TypeOfParts, TypeOfPartsNext DEF IInv, LedgerInv

LEMMA ReadsToRecordKeeps == ASSUME IInv, NEW d \in Desks, ReadsToRecord(d) PROVE IInv'
<1> DEFINE size == Len(ledger)
<1>1. /\ Still /\ clock' \in 0..MaxClock /\ faults' \in 0..MaxFaults /\ LedgerInv'
      /\ approved \in [Numbers -> 0..MaxClock]
  BY LedgerStays, TypeOfParts DEF ReadsToRecord, Still, IInv
<1>2. desk[d] \in Reading /\ LedgerType /\ Doing(desk[d])
  BY StatesFacts, TypeOfParts DEF IInv, DeskInv, ReadsToRecord
<1>3. CASE Lacks(size, desk[d].n)
  <2>1. PICK n \in Numbers : n = desk[d].n
    BY <1>2 DEF Reading
  <2>2. approved[n] \in Instants
    BY <1>1, <1>2, <2>1, CommitmentsAssumption DEF Doing, ReadsToRecord, Instants
  <2>3. Fits(LineFor(size, n))
    BY <1>2, <1>3, <2>1, <2>2, RecordFits
  <2>4. Plans(d, size, LineFor(size, n)) /\ desk[d].at = "reading"
    BY <1>3, <2>1 DEF ReadsToRecord
  <2>5. desk[d].shown = 0
    BY <1>2 DEF Doing, ReadsToRecord
  <2> QED
    BY <1>1, <2>3, <2>4, <2>5, PlansKeeps DEF ReadsToRecord
<1>4. CASE ~Lacks(size, desk[d].n)
  BY <1>1, <1>4, EndsKeeps DEF ReadsToRecord
<1> QED
  BY <1>3, <1>4


LEMMA ReadsToWriteKeeps == ASSUME IInv, NEW d \in Desks, ReadsToWrite(d) PROVE IInv'
<1> DEFINE size == Len(ledger)
           at == Occurred(size, clock + 1)
<1>1. /\ Still /\ clock \in 0..MaxClock /\ faults' \in 0..MaxFaults /\ LedgerInv'
      /\ LedgerType /\ desk[d].verb # "record" /\ desk[d].at = "reading"
      /\ UNCHANGED <<approved, ledger, keeper, faults>>
  BY LedgerStays, TypeOfParts DEF ReadsToWrite, Still, IInv
<1>2. CASE Ends(d) /\ UNCHANGED clock
  BY <1>1, <1>2, EndsKeeps
<1>3. CASE /\ Held(size) /\ Stamps(at) /\ clock' = clock + 1
           /\ Decided(d, size, at) # << >> /\ Plans(d, size, Decided(d, size, at))
  <2>1. at \in Instants /\ clock + 1 \in Nat
    BY <1>1, <1>3 DEF Stamps
  <2>2. at >= clock + 1 /\ After(at)
    BY <1>1, <1>3, <2>1, OccurredIsAfter
  <2>3. clock' \in 0..MaxClock
    BY <1>1, <1>3, <2>1, <2>2, CommitmentsAssumption DEF Instants
  <2>4. desk[d].verb \in Verbs
    BY <1>1, StatesFacts, TypeOfParts DEF IInv
  <2> HIDE DEF at
  <2>5. /\ Fits(Decided(d, size, at))
        /\ desk[d].shown = 0 \/ desk[d].shown = Newest(size)
    BY <1>1, <1>3, <2>1, <2>2, <2>4, DecidedFits
  <2> QED
    BY <1>1, <1>3, <2>3, <2>5, PlansKeeps
<1> QED
  BY <1>2, <1>3 DEF ReadsToWrite

LEMMA AgainKeeps ==
    ASSUME IInv, NEW d \in Desks, desk[d].at = "appending", Again(d),
           UNCHANGED <<approved, ledger, keeper, clock, faults>>
    PROVE  IInv'
<1>1. Still /\ LedgerInv'
  BY LedgerStays DEF Still, IInv
<1>2. KeeperInv'
  BY <1>1, KeeperStays DEF IInv
<1>3. desk[d] \in Appending /\ desk \in [Desks -> States] /\ Doing(desk[d])
  BY StatesFacts, TypeOfParts DEF IInv, DeskInv
<1> DEFINE r == [at |-> "reading", verb |-> desk[d].verb, n |-> desk[d].n,
                 shown |-> desk[d].shown, tries |-> desk[d].tries + 1]
<1>4. CASE desk[d].tries + 1 = Attempts
  <2>1. Ends(d)
    BY <1>3, <1>4 DEF Again, Ends
  <2> QED
    BY <1>1, <2>1, EndsKeeps, TypeOfParts DEF IInv
<1>5. CASE desk[d].tries + 1 # Attempts
  <2>1. /\ desk[d].verb \in Verbs /\ desk[d].n \in Numbers /\ desk[d].shown \in Nat
        /\ desk[d].tries \in 0..Attempts /\ desk[d].tries < Attempts
        /\ desk[d].verb = "record" => desk[d].shown = 0 /\ approved[desk[d].n] # 0
    BY <1>3 DEF Doing, Appending
  <2>2. desk[d].tries + 1 \in 0..Attempts /\ desk[d].tries + 1 < Attempts
    BY <1>5, <2>1, CommitmentsAssumption
  <2>3. /\ r \in States /\ r.at = "reading" /\ r.verb = desk[d].verb /\ r.n = desk[d].n
        /\ r.shown = desk[d].shown /\ r.tries = desk[d].tries + 1
    BY <2>1, <2>2, ReadingIsAState
  <2>4. desk' = [desk EXCEPT ![d] = r]
    BY <1>3, <1>5 DEF Again
  <2> HIDE DEF r
  <2>5. PICK v : v = r
    OBVIOUS
  <2>6. v \in States /\ v.at = "reading" /\ v.tries < Attempts
    BY <2>2, <2>3, <2>5
  <2>7. v.verb = "record" => v.shown = 0 /\ approved[v.n] # 0
    BY <2>1, <2>3, <2>5
  <2>8. Doing(v)'
    BY <2>6, <2>7 DEF Doing
  <2>9. DeskInv' /\ desk' \in [Desks -> States]
    BY <1>1, <2>4, <2>5, <2>6, <2>8, DeskSteps DEF IInv
  <2> QED
    BY <1>1, <1>2, <2>9, TypeOfParts, TypeOfPartsNext DEF IInv, LedgerInv
<1> QED
  BY <1>4, <1>5

\* What a process appends still fits the ledger: it is as the process read it.
LEMMA PlannedFits ==
    ASSUME IInv, NEW d \in Desks, desk[d].at = "appending", AsRead(desk[d].size)
    PROVE  /\ Fits(desk[d].lines)
           /\ desk[d].shown = 0 \/ desk[d].shown = Newest(Len(ledger))
BY DEF IInv, DeskInv, Doing, AsRead

LEMMA AppendsKeeps == ASSUME IInv, NEW d \in Desks, Appends(d) PROVE IInv'
<1>1. TypeOK /\ LedgerInv /\ clock \in 0..MaxClock /\ faults \in 0..MaxFaults
  BY TypeOfParts DEF IInv
<1>2. CASE AsRead(desk[d].size) /\ Grows(desk[d].lines) /\ Ends(d)
  <2>1. LedgerInv' /\ Longer
    BY <1>1, <1>2, PlannedFits, Extended DEF Appends
  <2> QED
    BY <1>1, <1>2, <2>1, EndsKeeps DEF Appends
<1>3. CASE ~AsRead(desk[d].size) /\ Again(d) /\ UNCHANGED ledger
  BY <1>3, AgainKeeps DEF Appends
<1> QED
  BY <1>2, <1>3 DEF Appends

LEMMA AppendsInPartKeeps == ASSUME IInv, NEW d \in Desks, AppendsInPart(d) PROVE IInv'
<1>1. TypeOK /\ LedgerInv /\ clock \in 0..MaxClock /\ faults \in 0..MaxFaults
  BY TypeOfParts DEF IInv
<1>2. LedgerInv' /\ Longer
  BY <1>1, PlannedFits, Extended DEF AppendsInPart
<1>3. faults' \in 0..MaxFaults
  BY <1>1, CommitmentsAssumption DEF AppendsInPart, GrowsInPart
<1> QED
  BY <1>1, <1>2, <1>3, EndsKeeps DEF AppendsInPart


-----------------------------------------------------------------------------
(* The catch-up.                                                           *)

LEMMA KeeperSteps ==
    ASSUME IInv, Still \/ Longer, LedgerInv', UNCHANGED <<approved, desk, clock>>,
           faults' \in 0..MaxFaults, keeper' \in {Down} \cup Catching, KeeperInv'
    PROVE  IInv'
<1>1. DeskInv' /\ desk' \in [Desks -> States]
  BY DesksStay DEF IInv
<1> QED
  BY <1>1, TypeOfParts, TypeOfPartsNext DEF IInv, LedgerInv

LEMMA KeeperGoesDown ==
    ASSUME IInv, Still \/ Longer, LedgerInv', UNCHANGED <<approved, desk, clock>>,
           faults' \in 0..MaxFaults, keeper' = Down
    PROVE  IInv'
<1>1. KeeperInv'
  BY DEF KeeperInv, Down
<1> QED
  BY <1>1, KeeperSteps

LEMMA KeeperReads ==
    ASSUME IInv
    PROVE  /\ UNCHANGED <<approved, ledger>> => Still /\ LedgerInv'
           /\ Len(ledger) \in Nat /\ LedgerType /\ TypeOK /\ LedgerInv
           /\ faults \in 0..MaxFaults /\ approved \in [Numbers -> 0..MaxClock]
           /\ keeper.at # "down" =>
                /\ keeper \in Catching /\ keeper.size \in Nat /\ keeper.n \in Numbers
                /\ keeper.size <= Len(ledger)
                /\ keeper.tries \in 0..Attempts /\ keeper.tries < Attempts
           /\ keeper.at \in {"reading", "appending"} => approved[keeper.n] # 0
<1>1. UNCHANGED <<approved, ledger>> => Still /\ LedgerInv'
  BY LedgerStays DEF IInv, Still
<1>2. Len(ledger) \in Nat /\ LedgerType /\ TypeOK /\ LedgerInv
  BY DEF IInv, LedgerInv, LedgerType
<1>3. /\ faults \in 0..MaxFaults /\ approved \in [Numbers -> 0..MaxClock]
      /\ keeper \in {Down} \cup Catching
  BY TypeOfParts DEF IInv
<1>4. keeper.at # "down" => /\ keeper \in Catching /\ keeper.size \in Nat
                            /\ keeper.n \in Numbers /\ keeper.tries \in 0..Attempts
  BY <1>3 DEF Down, Catching
<1> QED
  BY <1>1, <1>2, <1>3, <1>4 DEF IInv, KeeperInv

LEMMA DaemonStartsKeeps == ASSUME IInv, DaemonStarts PROVE IInv'
<1>1. Still /\ LedgerInv' /\ Len(ledger) \in Nat /\ faults' \in 0..MaxFaults
  BY KeeperReads DEF DaemonStarts
<1>2. 0 \in Numbers /\ 0 \in 0..Attempts /\ 0 < Attempts
  BY CommitmentsAssumption DEF Numbers
<1>3. keeper' \in Catching /\ keeper'.at = "listing" /\ keeper'.size = Len(ledger) /\ keeper'.tries = 0
  BY <1>1, <1>2 DEF DaemonStarts, Catching
<1>4. KeeperInv'
  BY <1>1, <1>2, <1>3 DEF KeeperInv, Still
<1> QED
  BY <1>1, <1>3, <1>4, KeeperSteps DEF DaemonStarts

LEMMA ListsKeeps == ASSUME IInv, Lists PROVE IInv'
<1>1. Still /\ LedgerInv' /\ faults' \in 0..MaxFaults
  BY KeeperReads DEF Lists
<1>2. CASE \E n \in Numbers : Approved(n)
  <2>1. PICK n : n = CHOOSE m \in Numbers : Approved(m)
    OBVIOUS
  <2>2. n \in Numbers /\ approved[n] # 0
    BY <1>2, <2>1 DEF Approved
  <2>3. keeper \in Catching /\ keeper' = [keeper EXCEPT !.at = "reading", !.n = n]
    BY <1>2, <2>1, KeeperReads DEF Lists
  <2>4. keeper' \in Catching /\ keeper'.at = "reading" /\ keeper'.n = n
        /\ keeper'.size = keeper.size /\ keeper'.tries = keeper.tries
    BY <2>2, <2>3 DEF Catching
  <2>5. KeeperInv'
    BY <1>1, <2>2, <2>4, KeeperReads DEF KeeperInv, Lists, Still
  <2> QED
    BY <1>1, <2>4, <2>5, KeeperSteps DEF Lists
<1>3. CASE ~\E n \in Numbers : Approved(n)
  BY <1>1, <1>3, KeeperGoesDown DEF Lists
<1> QED
  BY <1>2, <1>3

LEMMA PreparesKeeps == ASSUME IInv, Prepares PROVE IInv'
<1>1. Still /\ LedgerInv' /\ faults' \in 0..MaxFaults /\ LedgerType
  BY KeeperReads DEF Prepares
<1>2. CASE Approved(keeper.n) /\ Lacks(keeper.size, keeper.n)
  <2>1. keeper \in Catching /\ keeper' = [keeper EXCEPT !.at = "appending"]
    BY <1>2, KeeperReads DEF Prepares
  <2>2. keeper' \in Catching /\ keeper'.at = "appending" /\ keeper'.n = keeper.n
        /\ keeper'.size = keeper.size /\ keeper'.tries = keeper.tries
    BY <2>1 DEF Catching
  <2>3. PICK m : m = keeper.n
    OBVIOUS
  <2>4. Lacks(Len(ledger), m)' <=> Lacks(Len(ledger), m)
    BY <1>1, SameLedger DEF Still
  <2>5. keeper'.size = Len(ledger)' => Lacks(Len(ledger), keeper.n)'
    BY <1>1, <1>2, <2>2, <2>3, <2>4 DEF Still
  <2>6. KeeperInv'
    BY <1>1, <2>2, <2>5, KeeperReads DEF KeeperInv, Prepares, Still
  <2> QED
    BY <1>1, <2>2, <2>6, KeeperSteps DEF Prepares
<1>3. CASE ~(Approved(keeper.n) /\ Lacks(keeper.size, keeper.n))
  BY <1>1, <1>3, KeeperGoesDown DEF Prepares
<1> QED
  BY <1>2, <1>3

LEMMA CaughtFits ==
    ASSUME IInv, keeper.at = "appending", AsRead(keeper.size)
    PROVE  Fits(LineFor(keeper.size, keeper.n))
<1>1. keeper.n \in Numbers /\ approved[keeper.n] \in Instants /\ LedgerType
  BY KeeperReads, CommitmentsAssumption DEF Instants
<1>2. Lacks(Len(ledger), keeper.n)
  BY DEF IInv, KeeperInv, AsRead
<1> QED
  BY <1>1, <1>2, RecordFits DEF AsRead

LEMMA CatchesUpKeeps == ASSUME IInv, CatchesUp PROVE IInv'
<1>1. faults' \in 0..MaxFaults /\ keeper \in Catching
  BY KeeperReads DEF CatchesUp
<1>2. CASE UNCHANGED ledger /\ keeper' = Down
  BY <1>1, <1>2, KeeperReads, KeeperGoesDown DEF CatchesUp
<1>3. CASE AsRead(keeper.size) /\ Grows(LineFor(keeper.size, keeper.n)) /\ keeper' = Down
  <2>1. LedgerInv' /\ Longer
    BY <1>3, KeeperReads, CaughtFits, Extended DEF CatchesUp
  <2> QED
    BY <1>1, <1>3, <2>1, KeeperGoesDown DEF CatchesUp
<1>4. CASE /\ keeper.tries + 1 # Attempts /\ UNCHANGED ledger
           /\ keeper' = [keeper EXCEPT !.at = "reading", !.size = Len(ledger), !.tries = @ + 1]
  <2>1. Still /\ LedgerInv' /\ Len(ledger) \in Nat
    BY <1>4, KeeperReads DEF CatchesUp
  <2>2. keeper.tries + 1 \in 0..Attempts /\ keeper.tries + 1 < Attempts
    BY <1>4, KeeperReads, CommitmentsAssumption DEF CatchesUp
  <2>3. keeper' \in Catching /\ keeper'.at = "reading" /\ keeper'.n = keeper.n
        /\ keeper'.size = Len(ledger) /\ keeper'.tries = keeper.tries + 1
    BY <1>1, <1>4, <2>1, <2>2 DEF Catching
  <2>4. KeeperInv'
    BY <2>1, <2>2, <2>3, KeeperReads DEF KeeperInv, CatchesUp, Still
  <2> QED
    BY <1>1, <2>1, <2>3, <2>4, KeeperSteps DEF CatchesUp
<1> QED
  BY <1>2, <1>3, <1>4 DEF CatchesUp

LEMMA CatchesUpInPartKeeps == ASSUME IInv, CatchesUpInPart PROVE IInv'
<1>1. LedgerInv' /\ Longer
  BY KeeperReads, CaughtFits, Extended DEF CatchesUpInPart
<1>2. faults' \in 0..MaxFaults
  BY KeeperReads, CommitmentsAssumption DEF CatchesUpInPart, GrowsInPart
<1> QED
  BY <1>1, <1>2, KeeperGoesDown DEF CatchesUpInPart

LEMMA DaemonEndsKeeps == ASSUME IInv, DaemonEnds PROVE IInv'
BY KeeperReads, KeeperGoesDown DEF DaemonEnds

LEMMA ClockIsSetBackKeeps == ASSUME IInv, ClockIsSetBack PROVE IInv'
<1>1. Still /\ LedgerInv' /\ UNCHANGED <<approved, ledger, desk, keeper>>
  BY KeeperReads DEF ClockIsSetBack
<1>2. DeskInv' /\ desk' \in [Desks -> States] /\ KeeperInv'
  BY <1>1, DesksStay, KeeperStays DEF IInv
<1>3. clock' \in 0..MaxClock /\ faults' \in 0..MaxFaults
  BY TypeOfParts, CommitmentsAssumption DEF ClockIsSetBack, IInv
<1> QED
  BY <1>1, <1>2, <1>3, TypeOfParts, TypeOfPartsNext DEF IInv, LedgerInv

LEMMA StutterKeeps == ASSUME IInv, UNCHANGED vars PROVE IInv'
<1>1. Still /\ LedgerInv' /\ UNCHANGED <<approved, ledger, desk, keeper, clock, faults>>
  BY KeeperReads DEF vars
<1>2. DeskInv' /\ desk' \in [Desks -> States] /\ KeeperInv'
  BY <1>1, DesksStay, KeeperStays DEF IInv
<1> QED
  BY <1>1, <1>2, TypeOfParts, TypeOfPartsNext DEF IInv, LedgerInv

LEMMA StepsKeep == IInv /\ [Next]_vars => IInv'
<1> SUFFICES ASSUME IInv, [Next]_vars PROVE IInv'
  OBVIOUS
<1>1. CASE UNCHANGED vars
  BY <1>1, StutterKeeps
<1>2. ASSUME NEW d \in Desks, Works(d) PROVE IInv'
  BY <1>2, ReadsToRecordKeeps, ReadsToWriteKeeps, AppendsKeeps, AppendsInPartKeeps, AbandonsKeeps
     DEF Works
<1>3. ASSUME NEW d \in Desks, NEW n \in Numbers, Approves(d, n) \/ ApprovesAgain(d, n) PROVE IInv'
  BY <1>3, ApprovesKeeps, ApprovesAgainKeeps
<1>4. ASSUME NEW d \in Desks, NEW verb \in Asked, NEW pinned \in BOOLEAN, Asks(d, verb, pinned)
      PROVE  IInv'
  BY <1>4, AsksKeeps
<1>5. CASE DaemonStarts \/ Lists \/ Prepares \/ CatchesUp \/ CatchesUpInPart \/ DaemonEnds
  BY <1>5, DaemonStartsKeeps, ListsKeeps, PreparesKeeps, CatchesUpKeeps, CatchesUpInPartKeeps,
     DaemonEndsKeeps
<1>6. CASE ClockIsSetBack
  BY <1>6, ClockIsSetBackKeeps
<1> QED
  BY <1>1, <1>2, <1>3, <1>4, <1>5, <1>6 DEF Next


-----------------------------------------------------------------------------
(* The theorems.                                                           *)

\* The ledger is of its lines, and what a process that read it would append
\* fits it for as long as it has not grown.
THEOREM Invariance == Spec => []IInv
<1> QED
  BY Initially, StepsKeep, PTL DEF Spec

\* The state is of its types, and every undo is of an earlier line.
THEOREM TypeCorrect == Spec => []TypeOK
<1>1. IInv => TypeOK
  BY DEF IInv
<1> QED
  BY <1>1, Invariance, PTL

\* No line is in the ledger twice, whatever the processes and the catch-up do
\* between each other's reads and appends.
THEOREM OnceHolds == Spec => []EachLineOnce
<1>1. IInv => EachLineOnce
  <2> SUFFICES ASSUME IInv PROVE EachLineOnce
    OBVIOUS
  <2>1. OnceInv
    BY DEF IInv, LedgerInv
  <2>2. \A k \in Readable(Len(ledger)) : k \in 1..Len(ledger) /\ ledger[k].end # "cut"
    BY DEF Readable
  <2> QED
    BY <2>1, <2>2 DEF EachLineOnce, OnceInv
<1> QED
  BY <1>1, Invariance, PTL

\* What a step that adds to the ledger adds, and for whom.
LEMMA Adds ==
    ASSUME IInv, [Next]_vars, Added # {}
    PROVE  /\ \E lines : Fits(lines) /\ (Grows(lines) \/ GrowsInPart(lines))
           /\ \A d \in Desks : desk[d].at = "appending" /\ desk'[d] = Idle
                => desk[d].shown = 0 \/ desk[d].shown = Newest(Len(ledger))
<1>1. desk \in [Desks -> States] /\ Len(ledger) \in Nat
  BY KeeperReads, TypeOfParts DEF IInv
<1>2. ledger' # ledger
  BY <1>1 DEF Added
<1>3. ASSUME NEW d \in Desks, Appends(d) \/ AppendsInPart(d)
      PROVE  /\ \E lines : Fits(lines) /\ (Grows(lines) \/ GrowsInPart(lines))
             /\ \A e \in Desks : desk[e].at = "appending" /\ desk'[e] = Idle
                  => desk[e].shown = 0 \/ desk[e].shown = Newest(Len(ledger))
  <2>1. /\ desk[d].at = "appending" /\ AsRead(desk[d].size) /\ Ends(d)
        /\ Grows(desk[d].lines) \/ GrowsInPart(desk[d].lines)
    BY <1>2, <1>3 DEF Appends, AppendsInPart
  <2>2. /\ Fits(desk[d].lines)
        /\ desk[d].shown = 0 \/ desk[d].shown = Newest(Len(ledger))
    BY <2>1, PlannedFits
  <2>3. \A e \in Desks : e # d => desk'[e] = desk[e]
    BY <1>1, <2>1 DEF Ends
  <2>4. \A e \in Desks : desk[e].at = "appending" => desk[e] # Idle
    BY DEF Idle
  <2> QED
    BY <2>1, <2>2, <2>3, <2>4
<1>4. ASSUME CatchesUp \/ CatchesUpInPart
      PROVE  /\ \E lines : Fits(lines) /\ (Grows(lines) \/ GrowsInPart(lines))
             /\ \A e \in Desks : ~(desk[e].at = "appending" /\ desk'[e] = Idle)
  <2>1. /\ keeper.at = "appending" /\ AsRead(keeper.size) /\ UNCHANGED desk
        /\ Grows(LineFor(keeper.size, keeper.n)) \/ GrowsInPart(LineFor(keeper.size, keeper.n))
    BY <1>2, <1>4 DEF CatchesUp, CatchesUpInPart
  <2> QED
    BY <2>1, CaughtFits DEF Idle
<1>5. \/ \E d \in Desks : Appends(d) \/ AppendsInPart(d)
      \/ CatchesUp \/ CatchesUpInPart
  BY <1>2 DEF Next, vars, Works, Approves, ApprovesAgain, Asks, ReadsToRecord, ReadsToWrite,
              Abandons, DaemonStarts, Lists, Prepares, DaemonEnds, ClockIsSetBack
<1> QED
  BY <1>3, <1>4, <1>5

\* With --if-version a line is only ever appended behind the line that was the
\* newest when the PM was shown the commitment.
THEOREM ShownIsActedOn == Spec => ActsOnShown
<1>1. ASSUME IInv, [Next]_vars, NEW d \in Desks, desk[d].at = "appending", desk[d].shown # 0,
             desk'[d] = Idle, Added # {}
      PROVE  Newest(Len(ledger)) = desk[d].shown
  BY <1>1, Adds
<1>2. IInv /\ [Next]_vars =>
        [\A d \in Desks :
           (desk[d].at = "appending" /\ desk[d].shown # 0 /\ desk'[d] = Idle /\ Added # {})
             => Newest(Len(ledger)) = desk[d].shown]_vars
  BY <1>1
<1> QED
  BY <1>2, Invariance, PTL DEF Spec, ActsOnShown


-----------------------------------------------------------------------------
(* What is in force after an append to a ledger whose lines are all ended.  *)

\* Where no line that is read lacks its newline, every one of them counts.
LEMMA WholeCount ==
    LedgerInv /\ (\A j \in Readable(Len(ledger)) : ledger[j].end = "whole")
        => Counted(Len(ledger)) = Readable(Len(ledger))
<1> SUFFICES ASSUME LedgerInv, \A j \in Readable(Len(ledger)) : ledger[j].end = "whole"
             PROVE  Counted(Len(ledger)) = Readable(Len(ledger))
  OBVIOUS
<1>1. Readable(Len(ledger)) \subseteq 1..Len(ledger) /\ Len(ledger) \in Nat
  BY DEF Readable, LedgerInv, LedgerType
<1>2. ASSUME NEW k \in Readable(Len(ledger)), NEW j \in Readable(Len(ledger)),
             Entry(ledger[j]) = Entry(ledger[k]), j < k
      PROVE  FALSE
  BY <1>1, <1>2 DEF LedgerInv, OnceInv
<1> QED
  BY <1>1, <1>2 DEF Counted

LEMMA WholeCountNext ==
    (LedgerInv /\ (\A j \in Readable(Len(ledger)) : ledger[j].end = "whole")
        => Counted(Len(ledger)) = Readable(Len(ledger)))'
BY WholeCount, PTL

Fresh == {k \in Added : ledger'[k].end = "whole"}

AllCounted == Counted(Len(ledger))

FreshOf(lines) ==
    \A k \in Fresh : \E i \in 1..Len(lines) :
        /\ k = Len(ledger) + i /\ k > Len(ledger)
        /\ ledger'[k].kind = lines[i].kind /\ ledger'[k].mark = lines[i].mark
        /\ ledger'[k].of = lines[i].of /\ ledger'[k].at = lines[i].at

LEMMA CountedNext ==
    ASSUME LedgerInv, LedgerInv', Ended, NEW lines, Apt(lines), NEW part, Written(part, lines),
           ledger' = ledger \o part
    PROVE  /\ AllCounted' = Counted(Len(ledger)) \cup Fresh
           /\ \A k \in Counted(Len(ledger)) :
                 /\ ledger'[k] = ledger[k] /\ ledger[k] \in Line /\ k \in 1..Len(ledger)
                 /\ ledger[k].at \in 1..MaxClock /\ ledger[k].end = "whole"
           /\ FreshOf(lines)
<1> DEFINE n == Len(ledger)
<1>1. LedgerType /\ n \in Nat /\ n \in 0..n
  BY DEF LedgerInv, LedgerType
<1>2. /\ Len(ledger') = n + Len(part) /\ Len(part) \in Nat /\ Len(part) <= Len(lines)
      /\ Len(lines) \in Nat
      /\ \A k \in 1..n : ledger'[k] = ledger[k]
      /\ \A i \in 1..Len(part) : ledger'[n + i] = part[i] /\ part[i] \in Line
      /\ \A k \in 1..Len(ledger') : k > n => \E i \in 1..Len(part) : k = n + i
  <2>1. /\ Len(ledger') = n + Len(part) /\ Len(part) \in 1..2 /\ Len(lines) \in 1..2
        /\ Len(part) <= Len(lines)
        /\ \A k \in 1..n : ledger'[k] = ledger[k]
        /\ \A i \in 1..Len(part) : /\ ledger'[n + i] = part[i]
                                   /\ part[i] \in Line /\ lines[i] \in Line
                                   /\ Entry(part[i]) = Entry(lines[i])
        /\ \A k \in 1..Len(ledger') : k > n => \E i \in 1..Len(part) : k = n + i
    <3>1. Follows(part, lines)
      BY <1>1, Grown
    <3> QED
      BY <3>1 DEF Follows
  <2>2. Len(part) \in Nat /\ Len(lines) \in Nat
    BY <2>1
  <2> QED
    BY <2>1, <2>2
<1>3. /\ Counted(n) = Readable(n)
      /\ Readable(n) = {k \in 1..n : ledger[k].end = "whole"}
  BY CountedAll
<1>4. \A i \in 1..Len(part) : i < Len(part) => part[i].end = "whole"
  BY DEF Written
<1>5. Readable(n)' = Readable(n) \cup Fresh
  <2>1. ASSUME NEW k \in 1..n PROVE k \in Readable(n)' <=> ledger[k].end = "whole"
    BY <1>1, <1>2, <2>1 DEF Readable, Ended
  <2>2. ASSUME NEW k \in 1..Len(ledger'), k > n
        PROVE  k \in Readable(n)' <=> ledger'[k].end = "whole"
    <3>1. PICK i \in 1..Len(part) : k = n + i
      BY <1>2, <2>2
    <3>2. k < Len(ledger') => ledger'[k].end = "whole"
      BY <1>1, <1>2, <1>4, <3>1
    <3> QED
      BY <2>2, <3>2 DEF Readable
  <2>3. Readable(n)' \subseteq 1..Len(ledger') /\ Fresh \subseteq 1..Len(ledger')
    BY DEF Readable, Fresh, Added
  <2>4. \A k \in 1..Len(ledger') : k \in 1..n \/ k > n
    BY <1>1
  <2>5. \A k \in 1..n : k \in 1..Len(ledger') /\ ~(k > n)
    BY <1>1, <1>2
  <2> QED
    BY <1>3, <2>1, <2>2, <2>3, <2>4, <2>5 DEF Fresh, Added
<1>6. \A j \in Readable(n)' : ledger'[j].end = "whole"
  BY <1>2, <1>3, <1>5 DEF Fresh
<1>7. Counted(n)' = Readable(n)'
  BY <1>6, WholeCountNext
<1>8. ASSUME NEW k \in Fresh
      PROVE  \E i \in 1..Len(lines) :
                 /\ k = n + i /\ k > n
                 /\ ledger'[k].kind = lines[i].kind /\ ledger'[k].mark = lines[i].mark
                 /\ ledger'[k].of = lines[i].of /\ ledger'[k].at = lines[i].at
  <2>1. k \in 1..Len(ledger') /\ k > n
    BY DEF Fresh, Added
  <2>2. PICK i \in 1..Len(part) : k = n + i
    BY <1>2, <2>1
  <2>3. i \in 1..Len(lines) /\ ledger'[k] = part[i]
    BY <1>2, <2>2
  <2> QED
    BY <2>1, <2>2, <2>3 DEF Written
<1>9. \A k \in Counted(n) :
         /\ ledger'[k] = ledger[k] /\ ledger[k] \in Line /\ k \in 1..n
         /\ ledger[k].at \in 1..MaxClock /\ ledger[k].end = "whole"
  BY <1>1, <1>2, <1>3, Lines DEF Line, Instants
<1> QED
  BY <1>3, <1>5, <1>7, <1>8, <1>9 DEF AllCounted, FreshOf

\* What is added later than all that counts changes nothing for the undos before.
LEMMA UndoesAsBefore ==
    ASSUME Counted(Len(ledger))' = Counted(Len(ledger)) \cup Fresh,
           \A k \in Counted(Len(ledger)) : ledger'[k] = ledger[k] /\ ledger[k].at \in Nat,
           \A k \in Fresh : /\ ledger'[k].at \in Nat
                             /\ \A c \in Counted(Len(ledger)) : ledger[c].at < ledger'[k].at
    PROVE  \A u, m \in Counted(Len(ledger)) :
               Undoes(Len(ledger), u, m)' <=> Undoes(Len(ledger), u, m)
<1> SUFFICES ASSUME NEW u \in Counted(Len(ledger)), NEW m \in Counted(Len(ledger))
             PROVE  Undoes(Len(ledger), u, m)' <=> Undoes(Len(ledger), u, m)
  OBVIOUS
<1>1. \A k \in Fresh : ledger[u].at < ledger'[k].at /\ ledger'[k].at \in Nat
  OBVIOUS
<1>2. ledger'[u] = ledger[u] /\ ledger'[m] = ledger[m] /\ ledger[u].at \in Nat /\ ledger[m].at \in Nat
  OBVIOUS
<1>3. (\E k \in Counted(Len(ledger))' \ {m, u} :
          ledger[m].at < ledger'[k].at /\ ledger'[k].at < ledger[u].at)
      <=> (\E k \in Counted(Len(ledger)) \ {m, u} :
              ledger[m].at < ledger[k].at /\ ledger[k].at < ledger[u].at)
  BY <1>1, <1>2
<1> QED
  BY <1>2, <1>3 DEF Undoes


LEMMA MarkHolds ==
    ASSUME LedgerInv, LedgerInv', Ended, NEW lines, FitsMark(lines), NEW part,
           Written(part, lines), ledger' = ledger \o part,
           NEW k \in Fresh, ledger'[k].kind = "marked"
    PROVE  State(Len(ledger))' = ledger'[k].mark
<1> DEFINE n == Len(ledger)
<1>1. LedgerType /\ n \in Nat /\ n \in 0..n
  BY DEF LedgerInv, LedgerType
<1>2. Apt(lines)
  BY <1>1, FitsIsApt DEF Fits
<1>3. /\ Counted(n)' = Counted(n) \cup Fresh
      /\ \A c \in Counted(n) : /\ ledger'[c] = ledger[c] /\ ledger[c] \in Line /\ c \in 1..n
                               /\ ledger[c].at \in 1..MaxClock /\ ledger[c].end = "whole"
      /\ \A c \in Fresh : \E i \in 1..Len(lines) :
            /\ c = n + i /\ c > n
            /\ ledger'[c].kind = lines[i].kind /\ ledger'[c].mark = lines[i].mark
            /\ ledger'[c].of = lines[i].of /\ ledger'[c].at = lines[i].at
  <2>1. AllCounted' = Counted(n)'
    BY DEF AllCounted
  <2>2. AllCounted' = Counted(n) \cup Fresh
    BY <1>2, CountedNext
  <2>3. \A c \in Counted(n) : /\ ledger'[c] = ledger[c] /\ ledger[c] \in Line /\ c \in 1..n
                               /\ ledger[c].at \in 1..MaxClock /\ ledger[c].end = "whole"
    BY <1>2, CountedNext
  <2>4. \A c \in Fresh : \E i \in 1..Len(lines) :
            /\ c = n + i /\ c > n
            /\ ledger'[c].kind = lines[i].kind /\ ledger'[c].mark = lines[i].mark
            /\ ledger'[c].of = lines[i].of /\ ledger'[c].at = lines[i].at
    <3>1. FreshOf(lines)
      BY <1>2, CountedNext
    <3> QED
      BY <3>1 DEF FreshOf
  <2> QED
    BY <2>1, <2>2, <2>3, <2>4
<1>4. PICK m \in Marks, at \in Instants :
          /\ After(at) /\ Answer(State(n), m) = "yes"
          /\ lines \in {<<Mark(m, at)>>, <<Mark(m, at), ALine("due_set", at)>>}
  BY DEF FitsMark
<1>5. \A i \in 1..Len(lines) : /\ lines[i].at = at
                               /\ IF i = 1 THEN lines[i].kind = "marked" /\ lines[i].mark = m
                                           ELSE lines[i].kind = "due_set"
  <2> DEFINE a == Mark(m, at)
             b == ALine("due_set", at)
  <2>1. a.kind = "marked" /\ a.mark = m /\ a.at = at /\ b.kind = "due_set" /\ b.at = at
    BY LinesMade
  <2> HIDE DEF a, b
  <2>2. lines = <<a>> \/ lines = <<a, b>>
    BY <1>4 DEF a, b
  <2>3. CASE lines = <<a>>
    <3>1. Len(lines) = 1 /\ lines[1] = a
      BY <2>3
    <3> QED
      BY <2>1, <3>1
  <2>4. CASE lines = <<a, b>>
    <3>1. Len(lines) = 2 /\ lines[1] = a /\ lines[2] = b
      BY <2>4
    <3> QED
      BY <2>1, <3>1
  <2> QED
    BY <2>2, <2>3, <2>4
<1>6. \A c \in Fresh : /\ ledger'[c].at = at /\ c > n /\ c \in Nat
                       /\ IF c = n + 1 THEN ledger'[c].kind = "marked" /\ ledger'[c].mark = m
                                       ELSE ledger'[c].kind = "due_set"
  <2> SUFFICES ASSUME NEW c \in Fresh
               PROVE  /\ ledger'[c].at = at /\ c > n /\ c \in Nat
                      /\ IF c = n + 1 THEN ledger'[c].kind = "marked" /\ ledger'[c].mark = m
                                      ELSE ledger'[c].kind = "due_set"
    OBVIOUS
  <2>1. PICK i \in 1..Len(lines) :
            /\ c = n + i /\ c > n
            /\ ledger'[c].kind = lines[i].kind /\ ledger'[c].mark = lines[i].mark
            /\ ledger'[c].at = lines[i].at
    BY <1>3
  <2>2. c \in Nat /\ (c = n + 1 <=> i = 1)
    BY <1>1, <2>1
  <2> QED
    BY <1>5, <2>1, <2>2
<1>7. k = n + 1 /\ ledger'[k].mark = m /\ ledger'[k].at = at /\ k > n
  BY <1>6
<1>8. OfKind(n, {"marked"})' = OfKind(n, {"marked"}) \cup {k}
  <2>1. OfKind(n, {"marked"})' = {x \in Counted(n)' : ledger'[x].kind \in {"marked"}}
    BY DEF OfKind
  <2>2. \A x \in Counted(n) : ledger'[x].kind = ledger[x].kind
    BY <1>3
  <2>3. \A x \in Fresh : ledger'[x].kind \in {"marked"} <=> x = k
    BY <1>6, <1>7
  <2>4. Counted(n)' = Counted(n) \cup Fresh
    BY <1>3
  <2> QED
    BY <2>1, <2>2, <2>3, <2>4 DEF OfKind
<1>9. OfKind(n, {"undone"})' = OfKind(n, {"undone"})
  BY <1>3, <1>6 DEF OfKind
<1>10. \A c \in Fresh : /\ ledger'[c].at \in Nat
                         /\ \A x \in Counted(n) : ledger[x].at < ledger'[c].at
  <2>1. \A x \in Counted(n) : ledger[x].at < at
    BY <1>4 DEF After
  <2>2. at \in Nat
    BY <1>4 DEF Instants
  <2>3. \A c \in Fresh : ledger'[c].at = at
    BY <1>6
  <2> QED
    BY <2>1, <2>2, <2>3
<1>11. \A u, x \in Counted(n) : Undoes(n, u, x)' <=> Undoes(n, u, x)
  <2>1. \A c \in Counted(n) : ledger'[c] = ledger[c] /\ ledger[c].at \in Nat
    BY <1>3
  <2>2. Counted(n)' = Counted(n) \cup Fresh
    BY <1>3
  <2> QED
    BY <2>1, <2>2, <1>10, UndoesAsBefore
<1>12. \A u \in OfKind(n, {"undone"}) : u \in Counted(n) /\ ~Undoes(n, u, k)'
  <2> SUFFICES ASSUME NEW u \in OfKind(n, {"undone"})
               PROVE  u \in Counted(n) /\ ~Undoes(n, u, k)'
    OBVIOUS
  <2>1. u \in Counted(n) /\ ledger[u].kind = "undone" /\ u \in 1..n /\ ledger'[u] = ledger[u]
    BY <1>3 DEF OfKind
  <2>2. ledger[u].of \in 1..u - 1
    BY <1>1, <2>1 DEF LedgerType
  <2>3. ledger'[u].of # k
    BY <1>1, <1>7, <2>1, <2>2
  <2> QED
    BY <2>1, <2>3 DEF Undoes
<1>13. \A x \in OfKind(n, {"marked"}) : x \in Counted(n)
  BY DEF OfKind
<1>14. Dropped(n)' = Dropped(n)
  BY <1>8, <1>9, <1>11, <1>12, <1>13 DEF Dropped
<1>15. k \notin Dropped(n)
  BY <1>3, <1>7, <1>13 DEF Dropped
<1>16. PICK K : K = OfKind(n, {"marked"}) \ Dropped(n)
  OBVIOUS
<1>17. (OfKind(n, {"marked"}) \ Dropped(n))' = K \cup {k}
  BY <1>8, <1>14, <1>15, <1>16
<1>18. /\ \A c \in K : /\ ledger'[c] = ledger[c] /\ ledger[c].at \in Nat /\ ledger[c].at < at
                       /\ c \in 1..n
       /\ 0 \notin K /\ k # 0
  <2>1. \A c \in K : c \in Counted(n)
    BY <1>13, <1>16
  <2>2. \A c \in Counted(n) : ledger'[c] = ledger[c] /\ ledger[c].at \in Nat /\ c \in 1..n
    BY <1>3
  <2>3. \A c \in Counted(n) : ledger[c].at < at
    BY <1>4 DEF After
  <2>4. 0 \notin 1..n /\ k # 0
    BY <1>1, <1>7
  <2> QED
    BY <2>1, <2>2, <2>3, <2>4
<1>19. Answer(StateOf(MarkOf(K)), ledger'[k].mark) = "yes"
  BY <1>4, <1>7, <1>16 DEF State, InForce
<1>20. MarkOf(K \cup {k})' = k
  BY <1>4, <1>7, <1>18, <1>19, NewMark DEF Instants
<1>21. InForce(n)' = MarkOf(K \cup {k})'
  BY <1>17 DEF InForce
<1> QED
  BY <1>7, <1>18, <1>20, <1>21 DEF State, StateOf

LEMMA UndoHolds ==
    ASSUME LedgerInv, LedgerInv', Ended, NEW lines, FitsUndo(lines), NEW part,
           Written(part, lines), ledger' = ledger \o part,
           NEW k \in Fresh
    PROVE  State(Len(ledger))' =
               StateOf(MarkOf(OfKind(Len(ledger), {"marked"})
                                \ (Dropped(Len(ledger)) \cup {ledger'[k].of})))
<1> DEFINE n == Len(ledger)
<1>1. LedgerType /\ n \in Nat /\ n \in 0..n
  BY DEF LedgerInv, LedgerType
<1>2. Apt(lines)
  BY <1>1, FitsIsApt DEF Fits
<1>3. /\ Counted(n)' = Counted(n) \cup Fresh
      /\ \A c \in Counted(n) : /\ ledger'[c] = ledger[c] /\ ledger[c] \in Line /\ c \in 1..n
                               /\ ledger[c].at \in 1..MaxClock /\ ledger[c].end = "whole"
      /\ \A c \in Fresh : \E i \in 1..Len(lines) :
            /\ c = n + i /\ c > n
            /\ ledger'[c].kind = lines[i].kind /\ ledger'[c].mark = lines[i].mark
            /\ ledger'[c].of = lines[i].of /\ ledger'[c].at = lines[i].at
  <2>1. AllCounted' = Counted(n)'
    BY DEF AllCounted
  <2>2. AllCounted' = Counted(n) \cup Fresh
    BY <1>2, CountedNext
  <2>3. \A c \in Counted(n) : /\ ledger'[c] = ledger[c] /\ ledger[c] \in Line /\ c \in 1..n
                               /\ ledger[c].at \in 1..MaxClock /\ ledger[c].end = "whole"
    BY <1>2, CountedNext
  <2>4. \A c \in Fresh : \E i \in 1..Len(lines) :
            /\ c = n + i /\ c > n
            /\ ledger'[c].kind = lines[i].kind /\ ledger'[c].mark = lines[i].mark
            /\ ledger'[c].of = lines[i].of /\ ledger'[c].at = lines[i].at
    <3>1. FreshOf(lines)
      BY <1>2, CountedNext
    <3> QED
      BY <3>1 DEF FreshOf
  <2> QED
    BY <2>1, <2>2, <2>3, <2>4
<1>4. PICK at \in Instants :
          /\ After(at) /\ IsUndoable(at)
          /\ lines = <<[ALine("undone", at) EXCEPT !.of = InForce(n)]>>
  BY DEF FitsUndo
<1>5. PICK f : f = InForce(n)
  OBVIOUS
<1>6. f \in OfKind(n, {"marked"}) /\ f \in Counted(n) /\ f \in Nat
  <2>1. InForce(n) # 0
    BY <1>4 DEF IsUndoable, State, StateOf
  <2> QED
    BY <1>1, <1>3, <1>5, <2>1, InForceFacts
<1>7. /\ \A i \in 1..Len(lines) : i = 1
      /\ lines[1].at = at /\ lines[1].kind = "undone" /\ lines[1].of = f
  <2> DEFINE u == [ALine("undone", at) EXCEPT !.of = f]
  <2>1. u.kind = "undone" /\ u.of = f /\ u.at = at
    <3>1. f \in Nat
      BY <1>6
    <3>2. LET w == [ALine("undone", at) EXCEPT !.of = f] IN
          w \in Line /\ w.kind = "undone" /\ w.of = f /\ w.at = at /\ w.end = "whole"
      BY <3>1, LinesMade
    <3> QED
      BY <3>2
  <2> HIDE DEF u
  <2>2. lines = <<u>>
    BY <1>4, <1>5 DEF u
  <2>3. Len(lines) = 1 /\ lines[1] = u
    BY <2>2
  <2> QED
    BY <2>1, <2>3
<1>8. \A c \in Fresh : c = n + 1 /\ ledger'[c].at = at /\ ledger'[c].kind = "undone" /\ ledger'[c].of = f
  BY <1>3, <1>7
<1>9. Fresh = {k}
  BY <1>8
<1>10. OfKind(n, {"marked"})' = OfKind(n, {"marked"})
  BY <1>3, <1>8 DEF OfKind
<1>11. OfKind(n, {"undone"})' = OfKind(n, {"undone"}) \cup {k}
  BY <1>3, <1>8, <1>9 DEF OfKind
<1>12. \A c \in Fresh : /\ ledger'[c].at \in Nat
                         /\ \A x \in Counted(n) : ledger[x].at < ledger'[c].at
  <2>1. \A x \in Counted(n) : ledger[x].at < at
    BY <1>4 DEF After
  <2>2. at \in Nat
    BY <1>4 DEF Instants
  <2>3. \A c \in Fresh : ledger'[c].at = at
    BY <1>8
  <2> QED
    BY <2>1, <2>2, <2>3
<1>13. \A u, x \in Counted(n) : Undoes(n, u, x)' <=> Undoes(n, u, x)
  <2>1. \A c \in Counted(n) : ledger'[c] = ledger[c] /\ ledger[c].at \in Nat
    BY <1>3
  <2>2. Counted(n)' = Counted(n) \cup Fresh
    BY <1>3
  <2> QED
    BY <2>1, <2>2, <1>12, UndoesAsBefore
<1>14. \A c \in Counted(n) : ledger[c].at <= ledger[f].at
  <2> SUFFICES ASSUME NEW c \in Counted(n) PROVE ledger[c].at <= ledger[f].at
    OBVIOUS
  <2>1. c <= f /\ c \in 1..n /\ f \in 1..n
    BY <1>1, <1>3, <1>4, <1>5, <1>6, NewestFacts DEF IsUndoable
  <2>2. ledger[f].kind \in Dated /\ ledger[f].end = "whole" /\ ledger[c].end = "whole"
    BY <1>3, <1>6 DEF OfKind, Dated
  <2>3. ledger[c].at \in Nat /\ ledger[f].at \in Nat
    <3>1. \A x \in Counted(n) : ledger[x].at \in Nat
      BY <1>3
    <3> QED
      BY <1>6, <3>1
  <2>4. CASE c < f
    BY <2>1, <2>2, <2>4 DEF LedgerInv, LateInv
  <2>5. CASE c = f
    BY <2>3, <2>5
  <2> QED
    BY <2>1, <2>4, <2>5
<1>15. \A x \in OfKind(n, {"marked"}) : Undoes(n, k, x)' <=> x = f
  <2>1. ledger'[k].of = f /\ ledger'[k].at = at
    BY <1>8
  <2>2. ledger'[f] = ledger[f] /\ ledger[f].at \in Nat /\ at \in Nat
    BY <1>3, <1>4, <1>6 DEF Instants
  <2>3. ledger[f].mark = "fulfilled" /\ at - ledger[f].at <= Window
    BY <1>4, <1>5 DEF IsUndoable, State, StateOf
  <2>4. ledger[f].at < at
    BY <1>4, <1>6 DEF After
  <2>5. ~\E c \in Counted(n)' \ {f, k} : ledger'[f].at < ledger'[c].at /\ ledger'[c].at < ledger'[k].at
    <3> SUFFICES ASSUME NEW c \in Counted(n)' \ {f, k}, ledger'[f].at < ledger'[c].at PROVE FALSE
      OBVIOUS
    <3>1. c \in Counted(n)
      BY <1>3, <1>9
    <3>2. ledger'[c] = ledger[c] /\ ledger[c].at \in Nat /\ ledger[c].at <= ledger[f].at
      BY <1>3, <1>14, <3>1
    <3> QED
      BY <2>2, <3>2
  <2>6. Undoes(n, k, f)'
    <3>1. ledger'[k].of = f /\ ledger'[f].mark = "fulfilled"
      BY <2>1, <2>2, <2>3
    <3>2. ledger'[f].at <= ledger'[k].at /\ ledger'[k].at - ledger'[f].at <= Window
      BY <2>1, <2>2, <2>3, <2>4
    <3> QED
      BY <2>5, <3>1, <3>2 DEF Undoes
  <2>7. \A x : Undoes(n, k, x)' => x = f
    BY <2>1 DEF Undoes
  <2> QED
    BY <2>6, <2>7
<1>16. \A x \in OfKind(n, {"marked"}) : x \in Counted(n)
  BY DEF OfKind
<1>17. \A u \in OfKind(n, {"undone"}) : u \in Counted(n)
  BY DEF OfKind
<1>18. Dropped(n)' = Dropped(n) \cup {f}
  <2>1. ASSUME NEW x \in OfKind(n, {"marked"})
        PROVE  (\E u \in OfKind(n, {"undone"})' : Undoes(n, u, x)')
               <=> (\E u \in OfKind(n, {"undone"}) : Undoes(n, u, x)) \/ x = f
    BY <1>11, <1>13, <1>15, <1>16, <1>17
  <2>2. Dropped(n)' = {x \in OfKind(n, {"marked"})' :
                         \E u \in OfKind(n, {"undone"})' : Undoes(n, u, x)'}
    BY DEF Dropped
  <2> QED
    BY <1>6, <1>10, <2>1, <2>2 DEF Dropped
<1>19. PICK K : K = OfKind(n, {"marked"}) \ (Dropped(n) \cup {f})
  OBVIOUS
<1>20. (OfKind(n, {"marked"}) \ Dropped(n))' = K
  BY <1>10, <1>18, <1>19
<1>21. (\A c \in K : ledger'[c] = ledger[c] /\ c \in 1..n) /\ 0 \notin K
  <2>1. \A c \in K : c \in Counted(n)
    BY <1>16, <1>19
  <2> QED
    BY <1>1, <1>3, <2>1
<1>22. MarkOf(K)' = MarkOf(K)
  BY <1>21, SameMarks
<1>23. InForce(n)' = MarkOf(K)'
  BY <1>20 DEF InForce
<1>24. MarkOf(K) \in K \cup {0}
  BY MarkOfIn
<1>25. StateOf(MarkOf(K))' = StateOf(MarkOf(K))
  BY <1>21, <1>22, <1>24 DEF StateOf
<1>26. State(n)' = StateOf(MarkOf(K))'
  BY <1>23 DEF State, StateOf
<1>27. ledger'[k].of = f
  BY <1>8
<1> QED
  BY <1>19, <1>25, <1>26, <1>27


LEMMA UndoneLine ==
    ASSUME NEW lines, FitsUndo(lines)
    PROVE  lines[1].kind = "undone"
<1>1. PICK at \in Instants : lines = <<[ALine("undone", at) EXCEPT !.of = InForce(Len(ledger))]>>
  BY DEF FitsUndo
<1> DEFINE a == ALine("undone", at)
<1>2. DOMAIN a = {"kind", "n", "mark", "of", "at", "end"} /\ a.kind = "undone"
  BY DEF ALine
<1> HIDE DEF a
<1>3. [a EXCEPT !.of = InForce(Len(ledger))].kind = "undone"
  BY <1>2
<1>4. lines[1] = [a EXCEPT !.of = InForce(Len(ledger))]
  BY <1>1 DEF a
<1> QED
  BY <1>3, <1>4

\* The kind of the lines that are appended tells what they were decided on.
LEMMA KindTells ==
    ASSUME LedgerInv, LedgerInv', Ended, NEW lines, Fits(lines), NEW part, Written(part, lines),
           ledger' = ledger \o part, NEW k \in Fresh
    PROVE  /\ ledger'[k].kind = "marked" => FitsMark(lines)
           /\ ledger'[k].kind = "undone" => FitsUndo(lines)
<1>1. Apt(lines)
  BY FitsIsApt DEF LedgerInv
<1>2. PICK i \in 1..Len(lines) : ledger'[k].kind = lines[i].kind
  <2>1. FreshOf(lines)
    BY <1>1, CountedNext
  <2> QED
    BY <2>1 DEF FreshOf
<1>3. CASE FitsValue(lines)
  <2>1. PICK l \in Line : lines = <<l>> /\ l.kind \in {"pending", "revised"}
    BY <1>3 DEF FitsValue
  <2>2. Len(lines) = 1 /\ lines[1] = l
    BY <2>1
  <2> QED
    BY <1>2, <2>1, <2>2
<1>4. CASE FitsDue(lines)
  <2>1. PICK at \in Instants : lines = <<ALine("due_set", at)>>
    BY <1>4 DEF FitsDue
  <2>2. Len(lines) = 1 /\ lines[1].kind = "due_set"
    BY <2>1, LinesMade
  <2> QED
    BY <1>2, <2>2
<1>5. CASE FitsMark(lines)
  <2>1. PICK m \in Marks, at \in Instants :
            lines \in {<<Mark(m, at)>>, <<Mark(m, at), ALine("due_set", at)>>}
    BY <1>5 DEF FitsMark
  <2>2. Mark(m, at).kind = "marked" /\ ALine("due_set", at).kind = "due_set"
    BY LinesMade
  <2> DEFINE a == Mark(m, at)
             b == ALine("due_set", at)
  <2>3. \A j \in 1..Len(lines) : lines[j] = a \/ lines[j] = b
    <3>1. lines = <<a>> \/ lines = <<a, b>>
      BY <2>1
    <3> HIDE DEF a, b
    <3>2. CASE lines = <<a>>
      BY <3>2
    <3>3. CASE lines = <<a, b>>
      BY <3>3
    <3> QED
      BY <3>1, <3>2, <3>3
  <2> QED
    BY <1>2, <1>5, <2>2, <2>3
<1>6. CASE FitsUndo(lines)
  <2>1. PICK at \in Instants : lines = <<[ALine("undone", at) EXCEPT !.of = InForce(Len(ledger))]>>
    BY <1>6 DEF FitsUndo
  <2>2. Len(lines) = 1
    BY <2>1
  <2> QED
    BY <1>2, <1>6, <2>2, UndoneLine
<1> QED
  BY <1>3, <1>4, <1>5, <1>6 DEF Fits

LEMMA ToldStep ==
    ASSUME IInv, IInv', [Next]_vars, NEW k \in Added, Ended, ledger'[k].end = "whole"
    PROVE  /\ ledger'[k].kind = "marked" => State(Len(ledger))' = ledger'[k].mark
           /\ ledger'[k].kind = "undone" =>
                State(Len(ledger))' =
                  StateOf(MarkOf(OfKind(Len(ledger), {"marked"})
                                   \ (Dropped(Len(ledger)) \cup {ledger'[k].of})))
<1>1. LedgerInv /\ LedgerInv' /\ k \in Fresh
  BY DEF IInv, Fresh
<1>2. PICK lines : Fits(lines) /\ (Grows(lines) \/ GrowsInPart(lines))
  BY Adds
<1>3. Apt(lines)
  BY <1>1, <1>2, FitsIsApt DEF LedgerInv
<1>4. PICK part : Written(part, lines) /\ ledger' = ledger \o part
  BY <1>2, <1>3, GrowsWritten
<1>5. /\ ledger'[k].kind = "marked" => FitsMark(lines)
      /\ ledger'[k].kind = "undone" => FitsUndo(lines)
  BY <1>1, <1>2, <1>4, KindTells
<1>6. ASSUME ledger'[k].kind = "marked" PROVE State(Len(ledger))' = ledger'[k].mark
  BY <1>1, <1>4, <1>5, <1>6, MarkHolds
<1>7. ASSUME ledger'[k].kind = "undone"
      PROVE  State(Len(ledger))' =
                StateOf(MarkOf(OfKind(Len(ledger), {"marked"})
                                 \ (Dropped(Len(ledger)) \cup {ledger'[k].of})))
  BY <1>1, <1>4, <1>5, <1>7, UndoHolds
<1> QED
  BY <1>6, <1>7

\* Told that his mark is in force, the PM is told what the ledger says; told that
\* it is undone, he has the state there would be without it.  The fold reaches
\* both by the dates of the lines, not by their order, and by which of two
\* equal lines counts.
THEOREM ToldHolds == Spec => ToldIsInForce
<1>1. IInv /\ IInv' /\ [Next]_vars =>
        \A k \in Added :
          Ended /\ ledger'[k].end = "whole" =>
            /\ ledger'[k].kind = "marked" => State(Len(ledger))' = ledger'[k].mark
            /\ ledger'[k].kind = "undone" =>
                 State(Len(ledger))' =
                   StateOf(MarkOf(OfKind(Len(ledger), {"marked"})
                                    \ (Dropped(Len(ledger)) \cup {ledger'[k].of})))
  BY ToldStep
<1>2. IInv /\ [Next]_vars => IInv'
  BY StepsKeep
<1> QED
  BY <1>1, <1>2, Invariance, PTL DEF Spec, ToldIsInForce


=============================================================================
