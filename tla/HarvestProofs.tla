--------------------------- MODULE HarvestProofs ---------------------------
(***************************************************************************)
(* A harvest: the transcripts it acquires (Transcripts), then its attempts *)
(* (Harvest, whose specification is HSpec).                                *)
(*                                                                         *)
(* Transcripts, for any number of parts, any that overlap or cannot be     *)
(* read, any cap and any number of faults.  The inductive invariant says   *)
(* what a run may rely on at each place: that the parts stored are those   *)
(* the meeting held and those the run has stored, that what is left to     *)
(* store is later than all of them, and that no capture waits for its mark *)
(* but the one in hand.                                                    *)
(*                                                                         *)
(* Harvest, for any provider, scopes and number of attempts.  The inductive*)
(* invariant has three parts: what the attempt's stamps may say while it is*)
(* where it is, how the ledger, the dedup rows and the rest of a batch     *)
(* account for each other, and which thread may still be active.           *)
(***************************************************************************)
EXTENDS Transcripts, Harvest, TLAPS, WellFoundedInduction

Working == {"storing", "writing", "marking"}

\* Rows are in time order, so that no part's number passes its transcript's.
OrderInv ==
    \A p, q \in DOMAIN rows : p <= rows[p].of /\ (p < q => rows[p].of < rows[q].of)

RunInv ==
    /\ run.at \in Working \cup {"asking", "settling"} => Stored = run.held \cup run.new
    /\ run.at = "asking" => run.new = {}
    /\ run.at \in Working => \A p \in Stored, x \in run.left : rows[p].of < x
    /\ run.at \in {"asking", "storing", "writing"} => Left = {}
    /\ run.at \in {"writing", "marking"} =>
          run.part \in Pending /\ run.left # {} /\ rows[run.part].of = First(run.left)
    /\ run.at = "marking" => Left = {run.part}

\* Ingestions are counted of a meeting that has parts, and not beyond the cap.
CapInv ==
    /\ attempts > 0 => Stored # {} /\ state \in {"fetched", "failed"}
    /\ run.at \in {"ingesting", "recording"} => Stored # {} /\ attempts < MaxIngestAttempts

IInv == TypeOK /\ OrderInv /\ RunInv /\ CapInv /\ CapturesHaveRows /\ AskedAgain

-----------------------------------------------------------------------------
(* The first and the last of a set of numbers.                             *)

LEMMA LeastExists ==
    ASSUME NEW S \in SUBSET Nat, S # {}
    PROVE  \E m \in S : \A k \in S : m <= k
<1>1. IsWellFoundedOn({ss \in Nat \X Nat : ss[1] < ss[2]}, Nat)
  BY NatLessThanWellFounded DEF OpToRel
<1>2. PICK m \in S : \A k \in S : <<k, m>> \notin {ss \in Nat \X Nat : ss[1] < ss[2]}
  BY <1>1, WFMin
<1>3. ASSUME NEW k \in S PROVE m <= k
  <2>1. <<k, m>> \in Nat \X Nat
    OBVIOUS
  <2> QED
    BY <1>2, <2>1
<1> QED
  BY <1>3

LEMMA FirstIsLeast ==
    ASSUME NEW S \in SUBSET Nat, S # {}
    PROVE  First(S) \in S /\ \A k \in S : First(S) <= k
BY LeastExists DEF First

LEMMA LastIsGreatest ==
    ASSUME NEW S \in SUBSET (1..N)
    PROVE  /\ Last(S) \in 0..N /\ (S # {} => Last(S) \in S)
           /\ \A k \in S : k <= Last(S)
<1>1. CASE S = {}
  BY <1>1, TranscriptsAssumption DEF Last
<1>2. CASE S # {}
  <2> DEFINE M == {n \in Nat : N - n \in S}
  <2>a. N \in Nat
    BY TranscriptsAssumption
  <2>1. M \in SUBSET Nat /\ \A k \in S : N - k \in M
    BY <2>a
  <2>2. M # {}
    BY <1>2, <2>1
  <2> HIDE DEF M
  <2>3. PICK n \in M : \A m \in M : n <= m
    BY <2>1, <2>2, LeastExists
  <2>4. N - n \in S
    BY <2>3 DEF M
  <2>5. ASSUME NEW k \in S PROVE k <= N - n
    <3>1. n <= N - k
      BY <2>1, <2>3
    <3> QED
      BY <2>1, <2>3, <2>a, <3>1
  <2>6. \E m \in S : \A k \in S : k <= m
    BY <2>4, <2>5
  <2>7. Last(S) = CHOOSE m \in S : \A k \in S : k <= m
    BY <1>2 DEF Last
  <2>8. Last(S) \in S /\ \A k \in S : k <= Last(S)
    BY <2>6, <2>7
  <2>9. Last(S) \in 1..N
    BY <2>8
  <2>10. Last(S) \in 0..N
    BY <2>9, <2>a
  <2> QED
    BY <1>2, <2>8, <2>10
<1> QED
  BY <1>1, <1>2

-----------------------------------------------------------------------------
(* How the rows change: a part is marked, claimed or dropped.              *)

ARow == [of : X, state : {"pending", "stored"}, ingested : BOOLEAN]

LEMMA MarkFacts ==
    ASSUME TypeOK, NEW p \in Pending, rows' = [rows EXCEPT ![p].state = "stored"]
    PROVE  /\ DOMAIN rows' = DOMAIN rows /\ rows' = [q \in DOMAIN rows' |-> rows'[q]]
           /\ \A q \in DOMAIN rows : rows'[q] \in ARow /\ rows'[q].of = rows[q].of
           /\ Stored' = Stored \cup {p} /\ Pending' = Pending \ {p}
<1>1. p \in DOMAIN rows /\ rows[p] \in ARow
  BY DEF TypeOK, Pending, ARow
<1>2. rows' = [q \in DOMAIN rows |-> IF q = p THEN [rows[p] EXCEPT !.state = "stored"] ELSE rows[q]]
  BY <1>1 DEF TypeOK
<1>3. DOMAIN rows' = DOMAIN rows /\ rows' = [q \in DOMAIN rows' |-> rows'[q]]
  BY <1>2
<1>4. rows'[p] \in ARow /\ rows'[p].of = rows[p].of /\ rows'[p].state = "stored"
  BY <1>1, <1>2 DEF ARow
<1>5. \A q \in DOMAIN rows : q # p => rows'[q] = rows[q]
  BY <1>2
<1>6. \A q \in DOMAIN rows : rows'[q] \in ARow /\ rows'[q].of = rows[q].of
  BY <1>4, <1>5 DEF TypeOK, ARow
<1>7. Stored' = Stored \cup {p}
  BY <1>1, <1>3, <1>4, <1>5 DEF Stored
<1>8. Pending' = Pending \ {p}
  BY <1>1, <1>3, <1>4, <1>5 DEF Pending
<1> QED
  BY <1>3, <1>6, <1>7, <1>8

\* A part is claimed under the number of its pending row, or after all there are.
LEMMA ClaimFacts ==
    ASSUME TypeOK, OrderInv, NEW x \in X, ~BeforePending(x),
           \A p \in Stored : rows[p].of < x,
           rows' = With(rows, NumberOf(x), Row(x, "pending", FALSE))
    PROVE  LET n == NumberOf(x) IN
           /\ n \in Parts /\ n <= x
           /\ \/ n \in Pending /\ rows[n].of = x
              \/ n \notin DOMAIN rows /\ \A q \in DOMAIN rows : q < n /\ rows[q].of < x
           /\ DOMAIN rows' = DOMAIN rows \cup {n} /\ rows' = [q \in DOMAIN rows' |-> rows'[q]]
           /\ rows'[n] \in ARow /\ rows'[n].of = x
           /\ \A q \in DOMAIN rows : q # n => rows'[q] = rows[q]
           /\ Stored' = Stored /\ Pending' = Pending \cup {n}
<1> DEFINE n == NumberOf(x)
<1>a. N \in Nat /\ X = 1..N /\ Parts = 1..N
  BY TranscriptsAssumption DEF X, Parts
<1>b. DOMAIN rows \subseteq Parts /\ \A q \in DOMAIN rows : rows[q] \in ARow
  BY DEF TypeOK, ARow
<1>c. Stored \cup Pending = DOMAIN rows /\ Stored \cap Pending = {}
  BY <1>b DEF Stored, Pending, ARow
<1>1. /\ n \in Parts /\ n <= x
      /\ \/ n \in Pending /\ rows[n].of = x
         \/ n \notin DOMAIN rows /\ \A q \in DOMAIN rows : q < n /\ rows[q].of < x
  <2>1. CASE x \in IdsOf(Pending)
    <3>1. n = CHOOSE p \in Pending : rows[p].of = x
      BY <2>1 DEF NumberOf
    <3>2. n \in Pending /\ rows[n].of = x
      BY <2>1, <3>1 DEF IdsOf
    <3>3. n <= x
      BY <1>c, <3>2 DEF OrderInv
    <3> QED
      BY <1>b, <1>c, <3>2, <3>3
  <2>2. CASE x \notin IdsOf(Pending)
    <3>1. n = Last(DOMAIN rows) + 1
      BY <2>2 DEF NumberOf
    <3>2. \A q \in Pending : rows[q].of \in X /\ rows[q].of # x /\ ~(rows[q].of > x)
      BY <1>b, <1>c, <2>2 DEF BeforePending, IdsOf, ARow
    <3>3. \A q \in DOMAIN rows : rows[q].of < x
      BY <1>a, <1>c, <3>2
    <3>4. /\ Last(DOMAIN rows) \in 0..N
          /\ DOMAIN rows # {} => Last(DOMAIN rows) \in DOMAIN rows
          /\ \A q \in DOMAIN rows : q <= Last(DOMAIN rows)
      BY <1>a, <1>b, LastIsGreatest
    <3>5. \A q \in DOMAIN rows : q < n
      BY <1>a, <1>b, <3>1, <3>4
    <3>6. n <= x
      <4>1. CASE DOMAIN rows = {}
        BY <1>a, <3>1, <4>1 DEF Last
      <4>2. CASE DOMAIN rows # {}
        <5>1. Last(DOMAIN rows) <= rows[Last(DOMAIN rows)].of
          BY <3>4, <4>2 DEF OrderInv
        <5>2. rows[Last(DOMAIN rows)].of < x /\ rows[Last(DOMAIN rows)].of \in X
          BY <1>b, <3>3, <3>4, <4>2 DEF ARow
        <5> QED
          BY <1>a, <3>1, <3>4, <5>1, <5>2
      <4> QED
        BY <4>1, <4>2
    <3>7. n \in Parts
      BY <1>a, <3>1, <3>4, <3>6
    <3> QED
      BY <1>a, <1>b, <3>3, <3>5, <3>6, <3>7
  <2> QED
    BY <2>1, <2>2
<1> HIDE DEF n
<1>2. rows' = [q \in DOMAIN rows \cup {n} |-> IF q = n THEN Row(x, "pending", FALSE) ELSE rows[q]]
  BY DEF With, n
<1>3. DOMAIN rows' = DOMAIN rows \cup {n} /\ rows' = [q \in DOMAIN rows' |-> rows'[q]]
  BY <1>2
<1>4. rows'[n] \in ARow /\ rows'[n].of = x /\ rows'[n].state = "pending"
  <2> DEFINE r == Row(x, "pending", FALSE)
  <2>1. r \in ARow /\ r.of = x /\ r.state = "pending"
    BY DEF Row, ARow
  <2>2. rows'[n] = r
    BY <1>2
  <2> QED
    BY <2>1, <2>2
<1>5. \A q \in DOMAIN rows : q # n => rows'[q] = rows[q]
  BY <1>2
<1>6. Stored' = Stored
  BY <1>1, <1>3, <1>4, <1>5, <1>c DEF Stored, Pending
<1>7. Pending' = Pending \cup {n}
  BY <1>1, <1>3, <1>4, <1>5, <1>c DEF Stored, Pending
<1> QED
  BY <1>1, <1>3, <1>4, <1>5, <1>6, <1>7 DEF n

LEMMA DropFacts ==
    ASSUME TypeOK, NEW p \in Pending, rows' = Without(rows, p)
    PROVE  /\ DOMAIN rows' = DOMAIN rows \ {p} /\ rows' = [q \in DOMAIN rows' |-> rows'[q]]
           /\ \A q \in DOMAIN rows' : rows'[q] = rows[q]
           /\ Stored' = Stored /\ Pending' = Pending \ {p}
<1>1. rows' = [q \in DOMAIN rows \ {p} |-> rows[q]]
  BY DEF Without
<1>2. DOMAIN rows' = DOMAIN rows \ {p} /\ \A q \in DOMAIN rows' : rows'[q] = rows[q]
  BY <1>1
<1>3. Stored' = Stored /\ Pending' = Pending \ {p}
  BY <1>2 DEF Stored, Pending
<1> QED
  BY <1>1, <1>2, <1>3

-----------------------------------------------------------------------------
(* What every step needs.                                                  *)

LEMMA Vocabulary ==
    ASSUME TypeOK
    PROVE  /\ N \in Nat /\ X = 1..N /\ Parts = 1..N
           /\ DOMAIN rows \subseteq Parts /\ \A q \in DOMAIN rows : rows[q] \in ARow
           /\ Stored \cup Pending = DOMAIN rows /\ Stored \cap Pending = {}
           /\ run \in Run
<1>1. DOMAIN rows \subseteq Parts /\ \A q \in DOMAIN rows : rows[q] \in ARow
  BY DEF TypeOK, ARow
<1>2. Stored \cup Pending = DOMAIN rows /\ Stored \cap Pending = {}
  BY <1>1 DEF Stored, Pending, ARow
<1> QED
  BY <1>1, <1>2, TranscriptsAssumption DEF X, Parts, TypeOK

LEMMA FaultsTyped ==
    ASSUME TypeOK, Fault \/ UNCHANGED faults
    PROVE  faults' \in 0..MaxFaults
BY TranscriptsAssumption DEF TypeOK, Fault

LEMMA IdleRuns ==
    /\ Idle \in Run /\ Idle.at = "idle" /\ Idle.held = {} /\ Idle.new = {}
    /\ \A a \in Stages, b \in BOOLEAN :
          LET r == [Idle EXCEPT !.at = a, !.over = b] IN
          r \in Run /\ r.at = a /\ r.held = {} /\ r.new = {}
    /\ \A a \in Stages : LET r == [Idle EXCEPT !.at = a] IN r \in Run /\ r.at = a
    /\ \A a \in Stages :
          LET r == [Idle EXCEPT !.at = a, !.failed = TRUE] IN r \in Run /\ r.at = a
<1>1. 0 \in 0..N /\ {} \in SUBSET Parts /\ {} \in SUBSET X /\ "idle" \in Stages
  BY TranscriptsAssumption DEF Stages
<1>2. Idle \in Run
  BY <1>1 DEF Idle, Run
<1>3. Idle.at = "idle" /\ Idle.held = {} /\ Idle.new = {}
  BY DEF Idle
<1>4. \A a \in Stages, b \in BOOLEAN :
          LET r == [Idle EXCEPT !.at = a, !.over = b] IN
          r \in Run /\ r.at = a /\ r.held = {} /\ r.new = {}
  BY <1>2, <1>3 DEF Run
<1>5. \A a \in Stages : LET r == [Idle EXCEPT !.at = a] IN r \in Run /\ r.at = a
  BY <1>2 DEF Run
<1>6. \A a \in Stages :
          LET r == [Idle EXCEPT !.at = a, !.failed = TRUE] IN r \in Run /\ r.at = a
  BY <1>2 DEF Run
<1> QED
  BY <1>2, <1>3, <1>4, <1>5, <1>6

Sayings == [X -> {"nothing", "lost", "again", "unclaimed"}]

LEMMA SaysFacts ==
    ASSUME TypeOK, NEW x \in X, NEW what \in {"nothing", "lost", "again", "unclaimed"},
           Says(x, what)
    PROVE  told' \in Sayings /\ told'[x] = what /\ \A y \in X : y # x => told'[y] = told[y]
BY DEF TypeOK, Says, Sayings

\* The rows are typed, and one to a transcript, when they are in time order.
LEMMA StepTyped ==
    ASSUME TypeOK, UNCHANGED <<listed, over>>, Fault \/ UNCHANGED faults,
           rows' = [q \in DOMAIN rows' |-> rows'[q]], DOMAIN rows' \subseteq Parts,
           \A q \in DOMAIN rows' : rows'[q] \in ARow, OrderInv',
           DOMAIN disk' \subseteq Parts, \A q \in DOMAIN disk' : disk'[q] \in X,
           state' \in States, attempts' \in 0..MaxIngestAttempts, asked' \in BOOLEAN,
           run' \in Run, told' \in Sayings, tried' \in [Parts -> Nat]
    PROVE  TypeOK'
<1>1. faults' \in 0..MaxFaults
  BY FaultsTyped
<1>2. ASSUME NEW p \in DOMAIN rows', NEW q \in DOMAIN rows', rows'[p].of = rows'[q].of
      PROVE  p = q
  <2>1. p \in Nat /\ q \in Nat /\ rows'[p].of \in Nat
    BY TranscriptsAssumption DEF Parts, X, ARow
  <2>2. ~(p < q) /\ ~(q < p)
    BY <1>2, <2>1 DEF OrderInv
  <2> QED
    BY <2>1, <2>2
<1> QED
  BY <1>1, <1>2 DEF TypeOK, ARow, Sayings

\* Steps that leave the rows and the captures as they are, and announce no new try.
LEMMA AnswerKeeps ==
    ASSUME IInv, UNCHANGED <<rows, disk, attempts, tried>>, Fault \/ UNCHANGED faults,
           listed' \in [X -> {"no", "going", "yes", "gone"}], over' \in BOOLEAN,
           state' \in States, attempts > 0 => state' \in {"fetched", "failed"},
           asked' \in BOOLEAN, run' \in Run, RunInv', told' \in Sayings,
           \A x \in X : told'[x] = "again" => told[x] = "again",
           run'.at \in {"ingesting", "recording"} => Stored # {} /\ attempts < MaxIngestAttempts
    PROVE  IInv'
<1>1. Stored' = Stored /\ Pending' = Pending
  BY DEF Stored, Pending
<1>2. TypeOK'
  BY FaultsTyped DEF IInv, TypeOK, Sayings
<1>3. OrderInv'
  BY DEF IInv, OrderInv
<1>4. CapInv'
  BY <1>1 DEF IInv, CapInv
<1>5. CapturesHaveRows'
  BY <1>1 DEF IInv, CapturesHaveRows
<1>6. AskedAgain'
  BY <1>1 DEF IInv, AskedAgain, IdsOf
<1> QED
  BY <1>2, <1>3, <1>4, <1>5, <1>6 DEF IInv

\* Steps that leave all the store keeps of the parts as it is.
LEMMA RunKeeps ==
    ASSUME IInv, UNCHANGED <<rows, disk, state, attempts>>,
           Fault \/ UNCHANGED faults, UNCHANGED tried,
           listed' \in [X -> {"no", "going", "yes", "gone"}], over' \in BOOLEAN,
           asked' \in BOOLEAN, run' \in Run, RunInv', UNCHANGED told,
           run'.at \in {"ingesting", "recording"} => Stored # {} /\ attempts < MaxIngestAttempts
    PROVE  IInv'
<1>1. state' \in States /\ told' \in Sayings
  BY DEF IInv, TypeOK, Sayings
<1>2. attempts > 0 => state' \in {"fetched", "failed"}
  BY DEF IInv, CapInv
<1> QED
  BY <1>1, <1>2, AnswerKeeps

LEMMA InitEstablishes == Init => IInv
<1> SUFFICES ASSUME Init PROVE IInv
  OBVIOUS
<1>1. DOMAIN rows = {} /\ DOMAIN disk = {} /\ rows = [p \in DOMAIN rows |-> rows[p]]
  BY DEF Init, NoParts
<1>2. Stored = {}
  BY <1>1 DEF Stored
<1>3. run = Idle /\ run \in Run /\ run.at = "idle"
  BY IdleRuns DEF Init
<1>4. TypeOK
  <2>1. attempts \in 0..MaxIngestAttempts /\ faults \in 0..MaxFaults
    BY TranscriptsAssumption DEF Init
  <2>2. told \in [X -> {"nothing", "lost", "again", "unclaimed"}] /\ tried \in [Parts -> Nat]
    BY DEF Init
  <2>3. listed \in [X -> {"no", "going", "yes", "gone"}] /\ over \in BOOLEAN
    BY DEF Init
  <2>4. state \in States /\ asked \in BOOLEAN
    BY DEF Init, States
  <2> QED
    BY <1>1, <1>3, <2>1, <2>2, <2>3, <2>4 DEF TypeOK
<1>5. RunInv
  BY <1>3 DEF RunInv, Working
<1>6. OrderInv /\ CapturesHaveRows
  BY <1>1, <1>2 DEF OrderInv, CapturesHaveRows
<1>7. CapInv
  BY <1>3 DEF Init, CapInv
<1>8. AskedAgain
  BY DEF Init, AskedAgain
<1> QED
  BY <1>4, <1>5, <1>6, <1>7, <1>8 DEF IInv

\* The meeting changes nothing the store keeps.
LEMMA MeetingKeeps ==
    ASSUME IInv, (\E x \in X : Begins(x) \/ Finishes(x) \/ Expires(x)) \/ WindowEnds
    PROVE  IInv'
<1>1. UNCHANGED <<kept, run, faults, ghosts>>
  BY DEF Begins, Finishes, Expires, WindowEnds
<1>2. listed' \in [X -> {"no", "going", "yes", "gone"}] /\ over' \in BOOLEAN
  BY DEF Begins, Finishes, Expires, WindowEnds, IInv, TypeOK
<1>3. RunInv'
  BY <1>1 DEF kept, IInv, RunInv, Stored, Pending, Left
<1> QED
  BY <1>1, <1>2, <1>3, RunKeeps DEF kept, ghosts, IInv, TypeOK, CapInv

LEMMA SelectsKeeps == ASSUME IInv, Selects PROVE IInv'
<1>1. /\ UNCHANGED <<listed, over, rows, disk, state, attempts, asked, faults, told, tried>>
      /\ UNCHANGED <<Stored, Pending, Left>>
  BY DEF Selects, kept, ghosts, Stored, Pending, Left
<1>2. /\ run' \in Run /\ run'.at \in {"repairing", "asking", "offering"}
      /\ run'.at = "asking" => rows = NoParts /\ run'.held = {} /\ run'.new = {}
  <2>1. over \in BOOLEAN /\ {"repairing", "asking", "offering"} \subseteq Stages
    BY DEF IInv, TypeOK, Stages
  <2>2. CASE rows # NoParts /\ run' = [Idle EXCEPT !.at = "repairing", !.over = over]
    BY <2>1, <2>2, IdleRuns
  <2>3. CASE rows = NoParts /\ run' = [Idle EXCEPT !.at = "asking", !.over = over]
    BY <2>1, <2>3, IdleRuns
  <2>4. CASE run' = [Idle EXCEPT !.at = "offering"]
    BY <2>1, <2>4, IdleRuns
  <2> QED
    BY <2>2, <2>3, <2>4 DEF Selects
<1>3. RunInv'
  <2>1. CASE run'.at = "asking"
    <3>1. DOMAIN rows = {}
      BY <1>2, <2>1 DEF NoParts
    <3>2. Stored = {} /\ Left = {}
      BY <3>1 DEF Stored, Pending, Left
    <3> QED
      BY <1>1, <1>2, <2>1, <3>2 DEF RunInv, Working
  <2>2. CASE run'.at # "asking"
    BY <1>2, <2>2 DEF RunInv, Working
  <2> QED
    BY <2>1, <2>2
<1> QED
  BY <1>1, <1>2, <1>3, RunKeeps DEF IInv, TypeOK

LEMMA OffersKeeps == ASSUME IInv, Offers PROVE IInv'
<1>1. /\ UNCHANGED <<listed, over, rows, disk, state, attempts, asked, told, tried>>
      /\ Fault \/ UNCHANGED faults
  BY DEF Offers, kept, ghosts
<1>2. /\ run' \in Run /\ run'.at \in {"idle", "ingesting", "recording"}
      /\ run'.at # "idle" => Waiting # {} /\ ~Exhausted
  <2>1. /\ run' \in {Idle, [Idle EXCEPT !.at = "ingesting"],
                     [Idle EXCEPT !.at = "recording", !.failed = TRUE]}
        /\ run' # Idle => Waiting # {} /\ ~Exhausted
    BY DEF Offers
  <2>2. \A r \in {Idle, [Idle EXCEPT !.at = "ingesting"],
                  [Idle EXCEPT !.at = "recording", !.failed = TRUE]} :
          r \in Run /\ r.at \in {"idle", "ingesting", "recording"}
    BY IdleRuns DEF Stages
  <2> QED
    BY <2>1, <2>2, IdleRuns
<1>3. run'.at # "idle" => Stored # {} /\ attempts < MaxIngestAttempts
  <2> SUFFICES ASSUME run'.at # "idle" PROVE Stored # {} /\ attempts < MaxIngestAttempts
    OBVIOUS
  <2>1. Stored # {}
    BY <1>2 DEF Waiting
  <2>2. attempts \in Nat /\ MaxIngestAttempts \in Nat \ {0}
    BY TranscriptsAssumption DEF IInv, TypeOK
  <2> QED
    BY <1>2, <2>1, <2>2 DEF Exhausted, IInv, CapInv
<1>4. RunInv'
  BY <1>2 DEF RunInv, Working
<1> QED
  BY <1>1, <1>2, <1>3, <1>4, RunKeeps DEF IInv, TypeOK

\* A run that goes on to ingest, or ends.
LEMMA LeavesKeeps ==
    ASSUME IInv, AsksNobody \/ Notes \/ CutOff
    PROVE  IInv'
<1>1. /\ UNCHANGED <<listed, over, rows, disk, state, attempts, told, tried>>
      /\ Fault \/ UNCHANGED faults
  BY DEF AsksNobody, Notes, CutOff, kept, ghosts
<1>2. asked' \in BOOLEAN
  BY DEF AsksNobody, Notes, CutOff, kept, IInv, TypeOK, Run
<1>3. run' \in Run /\ run'.at \in {"idle", "offering"}
  <2>1. run' = Idle \/ run' = [run EXCEPT !.at = "offering"]
    BY DEF AsksNobody, Notes, CutOff, GoesTo
  <2>2. run \in Run
    BY DEF IInv, TypeOK
  <2>3. Idle \in Run /\ Idle.at = "idle"
    BY IdleRuns
  <2>4. [run EXCEPT !.at = "offering"] \in Run /\ [run EXCEPT !.at = "offering"].at = "offering"
    BY <2>2 DEF Run, Stages
  <2> QED
    BY <2>1, <2>3, <2>4
<1>4. RunInv'
  BY <1>3 DEF RunInv, Working
<1> QED
  BY <1>1, <1>2, <1>3, <1>4, RunKeeps DEF IInv, TypeOK

-----------------------------------------------------------------------------
(* Steps that change the rows and the captures.                            *)

\* A capture in hand is marked: its part is stored, and nothing waits for it.
LEMMA MarkKeeps ==
    ASSUME IInv, NEW p \in Left, Marks(p), Says(rows[p].of, "nothing"), UNCHANGED disk
    PROVE  /\ OrderInv' /\ CapturesHaveRows' /\ AskedAgain' /\ told' \in Sayings
           /\ rows' = [q \in DOMAIN rows' |-> rows'[q]] /\ DOMAIN rows' \subseteq Parts
           /\ \A q \in DOMAIN rows' : rows'[q] \in ARow
           /\ attempts' = 0 /\ Left' = Left \ {p} /\ Stored' = Stored \cup {p}
           /\ \A q \in DOMAIN rows : q \in DOMAIN rows' /\ rows'[q].of = rows[q].of
<1>1. p \in Pending /\ p \in DOMAIN disk /\ p \in DOMAIN rows
  BY DEF Left, Pending
<1>2. /\ DOMAIN rows' = DOMAIN rows /\ rows' = [q \in DOMAIN rows' |-> rows'[q]]
      /\ \A q \in DOMAIN rows : rows'[q] \in ARow /\ rows'[q].of = rows[q].of
      /\ Stored' = Stored \cup {p} /\ Pending' = Pending \ {p}
  BY <1>1, MarkFacts DEF IInv, Marks
<1>3. DOMAIN rows \subseteq Parts /\ rows[p].of \in X
  BY <1>1, Vocabulary DEF IInv, ARow
<1>4. told' \in Sayings /\ told'[rows[p].of] = "nothing"
      /\ \A y \in X : y # rows[p].of => told'[y] = told[y]
  BY <1>3, SaysFacts DEF IInv
<1>5. OrderInv'
  BY <1>2 DEF IInv, OrderInv
<1>6. CapturesHaveRows'
  BY <1>1, <1>2 DEF IInv, CapturesHaveRows
<1>7. AskedAgain'
  <2> SUFFICES ASSUME NEW x \in X, told'[x] = "again" PROVE \E q \in Pending' : rows'[q].of = x
    BY DEF AskedAgain, IdsOf
  <2>1. x # rows[p].of /\ told[x] = "again"
    BY <1>4
  <2>2. PICK q \in Pending : rows[q].of = x
    BY <2>1 DEF IInv, AskedAgain, IdsOf
  <2>3. q \in Pending' /\ rows'[q].of = x
    BY <1>2, <2>1, <2>2 DEF Pending
  <2> QED
    BY <2>3
<1>8. Left' = Left \ {p}
  BY <1>2 DEF Left
<1> QED
  BY <1>2, <1>3, <1>4, <1>5, <1>6, <1>7, <1>8 DEF Marks

\* A part of which the run says it is tried again is pending.
LEMMA AgainKeeps ==
    ASSUME IInv, NEW p \in Pending, Says(rows[p].of, "again"), UNCHANGED rows
    PROVE  AskedAgain' /\ told' \in Sayings
<1>1. rows[p].of \in X
  BY Vocabulary DEF IInv, ARow, Pending
<1>2. told' \in Sayings /\ \A y \in X : y # rows[p].of => told'[y] = told[y]
  BY <1>1, SaysFacts DEF IInv
<1> QED
  BY <1>2 DEF IInv, AskedAgain, IdsOf, Pending

LEMMA RepairsKeeps == ASSUME IInv, Repairs PROVE IInv'
<1> DEFINE p == First(Left)
<1>1. /\ run.at = "repairing" /\ UNCHANGED <<listed, over, disk, state, asked, tried>>
      /\ Left # {}
      /\ \/ Marks(p) /\ run' = [run EXCEPT !.new = {p}] /\ Says(rows[p].of, "nothing")
            /\ UNCHANGED faults
         \/ GoesTo("offering") /\ Fault /\ UNCHANGED <<rows, attempts, told>>
  BY DEF Repairs
<1>2. p \in Left /\ p \in Parts /\ run \in Run
  <2>1. Left \in SUBSET Nat /\ Left \subseteq Parts
    BY Vocabulary DEF IInv, Left, Pending
  <2> QED
    BY <1>1, <2>1, FirstIsLeast, Vocabulary DEF IInv
<1> HIDE DEF p
<1>3. CASE Marks(p) /\ run' = [run EXCEPT !.new = {p}] /\ Says(rows[p].of, "nothing")
           /\ UNCHANGED faults
  <2>1. run' \in Run /\ run'.at = "repairing"
    BY <1>1, <1>2, <1>3 DEF Run
  <2>2. /\ OrderInv' /\ CapturesHaveRows' /\ AskedAgain' /\ told' \in Sayings
        /\ rows' = [q \in DOMAIN rows' |-> rows'[q]] /\ DOMAIN rows' \subseteq Parts
        /\ \A q \in DOMAIN rows' : rows'[q] \in ARow
        /\ attempts' = 0
    BY <1>1, <1>2, <1>3, MarkKeeps
  <2>3. attempts' \in 0..MaxIngestAttempts
    BY <2>2, TranscriptsAssumption
  <2>4. TypeOK'
    BY <1>1, <1>3, <2>1, <2>2, <2>3, StepTyped DEF IInv, TypeOK
  <2>5. RunInv'
    BY <2>1 DEF RunInv, Working
  <2>6. CapInv'
    BY <2>1, <2>2 DEF CapInv
  <2> QED
    BY <2>2, <2>4, <2>5, <2>6 DEF IInv
<1>4. CASE GoesTo("offering") /\ Fault /\ UNCHANGED <<rows, attempts, told>>
  <2>1. run' \in Run /\ run'.at = "offering"
    BY <1>2, <1>4 DEF Run, GoesTo, Stages
  <2>2. RunInv'
    BY <2>1 DEF RunInv, Working
  <2> QED
    BY <1>1, <1>4, <2>1, <2>2, RunKeeps DEF IInv, TypeOK
<1> QED
  BY <1>1, <1>3, <1>4

LEMMA RepairedKeeps == ASSUME IInv, Repaired PROVE IInv'
<1>1. /\ UNCHANGED <<listed, over, rows, disk, attempts, asked, told, tried>>
      /\ Left = {} /\ state' \in {state, "fetched"} /\ (Fault \/ UNCHANGED faults)
  BY DEF Repaired, ghosts
<1>2. /\ run \in Run /\ state \in States /\ Stored \subseteq Parts
      /\ UNCHANGED <<Stored, Pending, Left>>
  BY <1>1, Vocabulary DEF IInv, TypeOK, Stored, Pending, Left
<1>3. state' \in States /\ (attempts > 0 => state' \in {"fetched", "failed"})
  BY <1>1, <1>2 DEF States, IInv, CapInv
<1>4. /\ run' \in Run /\ run'.at \in {"asking", "offering"}
      /\ run'.at = "asking" => run'.held = Stored /\ run'.new = {}
  <2>1. CASE run' = [run EXCEPT !.at = IF StillAsked THEN "asking" ELSE "offering",
                                !.held = Stored, !.new = {}]
    <3>1. PICK a \in {"asking", "offering"} : run' = [run EXCEPT !.at = a, !.held = Stored, !.new = {}]
      BY <2>1
    <3> QED
      BY <1>2, <3>1 DEF Run, Stages
  <2>2. CASE GoesTo("offering")
    BY <1>2, <2>2 DEF Run, Stages, GoesTo
  <2> QED
    BY <2>1, <2>2 DEF Repaired
<1>5. RunInv'
  BY <1>1, <1>2, <1>4 DEF RunInv, Working
<1> QED
  BY <1>1, <1>3, <1>4, <1>5, AnswerKeeps DEF IInv, TypeOK, Sayings

\* What is answered is later than all the meeting holds.
LEMMA AsksKeeps == ASSUME IInv, Asks PROVE IInv'
<1>1. /\ run.at = "asking" /\ UNCHANGED <<listed, over, rows, disk, attempts, asked, tried>>
      /\ told' = [x \in X |-> IF told[x] = "unclaimed" THEN "nothing" ELSE told[x]]
  BY DEF Asks
<1>2. /\ run \in Run /\ state \in States /\ N \in Nat /\ X = 1..N
      /\ UNCHANGED <<Stored, Pending, Left>>
      /\ \A q \in Stored : rows[q].of \in X
  BY <1>1, Vocabulary DEF IInv, TypeOK, Stored, Pending, Left, ARow
<1>3. Stored = run.held /\ run.new = {} /\ Left = {}
  BY <1>1 DEF IInv, RunInv
<1>4. told' \in Sayings /\ \A x \in X : told'[x] = "again" => told[x] = "again"
  BY <1>1 DEF IInv, TypeOK, Sayings
<1>5. ASSUME NEW kind \in {"absent", "later", "refused", "skipped"}, NEW ends \in BOOLEAN,
             Answers(kind, ends)
      PROVE  IInv'
  <2>1. state' \in States /\ (attempts > 0 => state' \in {"fetched", "failed"})
    <3>1. state' = state \/ (run.held = {} /\ state' = kind)
      BY <1>5 DEF Answers
    <3>2. kind \in States
      BY DEF States
    <3> QED
      BY <1>2, <1>3, <3>1, <3>2 DEF IInv, CapInv
  <2>2. run' \in Run /\ run'.at \in {"noting", "idle"}
    <3>1. run' = [run EXCEPT !.at = "noting", !.ends = ends] \/ run' = Idle
      BY <1>5 DEF Answers
    <3>2. LET r == [run EXCEPT !.at = "noting", !.ends = ends] IN r \in Run /\ r.at = "noting"
      BY <1>2 DEF Run, Stages
    <3> QED
      BY <3>1, <3>2, IdleRuns
  <2>3. RunInv'
    BY <2>2 DEF RunInv, Working
  <2>4. Fault \/ UNCHANGED faults
    BY <1>5 DEF Answers
  <2> QED
    BY <1>1, <1>4, <2>1, <2>2, <2>3, <2>4, AnswerKeeps DEF IInv, TypeOK
<1>6. ASSUME NEW S \in SUBSET Unheld, ~Early, S # {}, UNCHANGED <<state, faults>>,
             run' = [run EXCEPT !.at = "storing", !.ends = TRUE, !.left = S,
                                !.problem = IF S = Unheld THEN "none" ELSE "final"]
      PROVE  IInv'
  <2>1. Unheld \subseteq X
    BY DEF Unheld, Fitting
  <2>2. /\ run' \in Run /\ run'.at = "storing" /\ run'.left = S
        /\ run'.held = run.held /\ run'.new = run.new
    <3>1. PICK b \in {"none", "final", "again"} :
             run' = [run EXCEPT !.at = "storing", !.ends = TRUE, !.left = S, !.problem = b]
      BY <1>6
    <3> QED
      BY <1>2, <2>1, <3>1 DEF Run, Stages
  <2>3. ASSUME NEW p \in Stored, NEW x \in S PROVE rows[p].of < x
    <3>1. rows[p].of \in IdsOf(run.held) /\ x \in Unheld
      BY <1>3 DEF IdsOf
    <3>2. ~(x < rows[p].of) /\ x # rows[p].of
      BY <1>6, <3>1 DEF Early, Unheld
    <3>3. x \in Nat /\ rows[p].of \in Nat
      BY <1>2, <2>1
    <3> QED
      BY <3>2, <3>3
  <2>4. RunInv'
    BY <1>1, <1>2, <1>3, <2>2, <2>3 DEF RunInv, Working
  <2> QED
    BY <1>1, <1>2, <1>4, <1>6, <2>2, <2>4, AnswerKeeps DEF IInv, TypeOK, CapInv
<1>7. \/ \E kind \in {"absent", "later", "refused", "skipped"}, ends \in BOOLEAN : Answers(kind, ends)
      \/ ~Early /\ Downloads
  BY DEF Asks
<1>8. CASE ~Early /\ Downloads
  <2>1. \/ Answers("absent", TRUE)
        \/ \E S \in SUBSET Unheld :
              /\ S # {} /\ UNCHANGED <<state, faults>>
              /\ run' = [run EXCEPT !.at = "storing", !.ends = TRUE, !.left = S,
                                    !.problem = IF S = Unheld THEN "none" ELSE "final"]
    BY <1>8 DEF Downloads
  <2> QED
    BY <1>5, <1>6, <1>8, <2>1
<1> QED
  BY <1>5, <1>7, <1>8

\* A run that stops storing says no more than is so.
LEMMA StopsKeeps ==
    ASSUME IInv, UNCHANGED <<listed, over, rows, disk, state, attempts, asked, tried>>,
           Fault \/ UNCHANGED faults,
           run.at \in {"storing", "writing"}, NEW b \in {"final", "again"}, Stops(b),
           NEW x \in X, NEW what \in {"nothing", "lost", "unclaimed"}, Says(x, what)
    PROVE  IInv'
<1>1. run \in Run /\ UNCHANGED <<Stored, Pending, Left>>
  BY Vocabulary DEF IInv, Stored, Pending, Left
<1>2. run' \in Run /\ run'.at = "settling" /\ run'.held = run.held /\ run'.new = run.new
  BY <1>1 DEF Stops, Run, Stages
<1>3. RunInv'
  BY <1>1, <1>2 DEF IInv, RunInv, Working
<1>4. told' \in Sayings /\ told'[x] = what /\ \A y \in X : y # x => told'[y] = told[y]
  BY SaysFacts DEF IInv
<1>5. state \in States /\ (attempts > 0 => state \in {"fetched", "failed"})
  BY DEF IInv, TypeOK, CapInv
<1> QED
  BY <1>2, <1>3, <1>4, <1>5, AnswerKeeps DEF IInv, TypeOK

\* A part is claimed after all that is stored, in the order of the transcripts.
LEMMA ClaimsKeeps == ASSUME IInv, Claims PROVE IInv'
<1> DEFINE x == First(run.left)
           n == NumberOf(x)
<1>1. /\ run.at = "storing" /\ run.left # {}
      /\ UNCHANGED <<listed, over, disk, state, attempts, asked, tried>>
      /\ \/ /\ BeforePending(x) /\ Stops("final") /\ Says(x, "lost") /\ UNCHANGED <<rows, faults>>
         \/ /\ ~BeforePending(x) /\ rows' = With(rows, n, Row(x, "pending", FALSE))
            /\ run' = [run EXCEPT !.at = "writing", !.part = n]
            /\ UNCHANGED <<told, faults>>
         \/ /\ ~BeforePending(x) /\ Fault
            /\ Stops("again") /\ Says(x, "unclaimed") /\ UNCHANGED rows
  BY DEF Claims
<1>2. N \in Nat /\ X = 1..N /\ Parts = 1..N /\ run \in Run
  BY Vocabulary DEF IInv
<1>3. x \in run.left /\ x \in X
  <2>1. run.left \subseteq X
    BY <1>2 DEF Run
  <2> QED
    BY <1>1, <1>2, <2>1, FirstIsLeast
<1>4. /\ Stored = run.held \cup run.new /\ Left = {}
      /\ \A p \in Stored, y \in run.left : rows[p].of < y
  BY <1>1 DEF IInv, RunInv, Working
<1>5. CASE Stops("final") /\ Says(x, "lost") /\ UNCHANGED <<rows, faults>>
  <2> HIDE DEF x, n
  <2> QED
    BY <1>1, <1>3, <1>5, StopsKeeps
<1>6. CASE Fault /\ Stops("again") /\ Says(x, "unclaimed") /\ UNCHANGED rows
  <2> HIDE DEF x, n
  <2> QED
    BY <1>1, <1>3, <1>6, StopsKeeps
<1>7. CASE /\ ~BeforePending(x) /\ rows' = With(rows, n, Row(x, "pending", FALSE))
           /\ run' = [run EXCEPT !.at = "writing", !.part = n]
           /\ UNCHANGED <<told, faults>>
  <2>1. /\ n \in Parts /\ n <= x
        /\ \/ n \in Pending /\ rows[n].of = x
           \/ n \notin DOMAIN rows /\ \A q \in DOMAIN rows : q < n /\ rows[q].of < x
        /\ DOMAIN rows' = DOMAIN rows \cup {n} /\ rows' = [q \in DOMAIN rows' |-> rows'[q]]
        /\ rows'[n] \in ARow /\ rows'[n].of = x
        /\ \A q \in DOMAIN rows : q # n => rows'[q] = rows[q]
        /\ Stored' = Stored /\ Pending' = Pending \cup {n}
    BY <1>3, <1>4, <1>7, ClaimFacts DEF IInv
  <2> HIDE DEF n
  <2>2. /\ DOMAIN rows \subseteq Parts /\ \A q \in DOMAIN rows : rows[q] \in ARow
        /\ Stored \cup Pending = DOMAIN rows /\ Stored \cap Pending = {}
    BY Vocabulary DEF IInv
  <2>3. n \notin DOMAIN disk
    BY <1>4, <2>1, <2>2 DEF IInv, CapturesHaveRows, Left
  <2>4. \A q \in DOMAIN rows : rows'[q].of = rows[q].of
    BY <2>1
  <2>5. run' \in Run /\ run'.at = "writing" /\ run'.part = n
        /\ run'.held = run.held /\ run'.new = run.new /\ run'.left = run.left
    <3>1. n \in 0..N
      BY <1>2, <2>1
    <3> HIDE DEF x
    <3> QED
      BY <1>2, <1>7, <3>1 DEF Run, Stages
  <2>6. OrderInv'
    <3> SUFFICES ASSUME NEW p \in DOMAIN rows', NEW q \in DOMAIN rows'
                 PROVE  p <= rows'[p].of /\ (p < q => rows'[p].of < rows'[q].of)
      BY DEF OrderInv
    <3>1. CASE n \in Pending /\ rows[n].of = x
      BY <2>1, <2>2, <2>4, <3>1 DEF IInv, OrderInv, Pending
    <3>2. CASE n \notin DOMAIN rows /\ \A r \in DOMAIN rows : r < n /\ rows[r].of < x
      <4>1. p \in Nat /\ q \in Nat /\ n \in Nat /\ x \in Nat
        BY <1>2, <1>3, <2>1, <2>2
      <4>2. CASE p = n
        BY <2>1, <3>2, <4>1, <4>2
      <4>3. CASE p # n /\ q = n
        BY <2>1, <2>4, <3>2, <4>1, <4>3 DEF IInv, OrderInv
      <4>4. CASE p # n /\ q # n
        BY <2>1, <2>4, <4>4 DEF IInv, OrderInv
      <4> QED
        BY <4>2, <4>3, <4>4
    <3> QED
      BY <2>1, <3>1, <3>2
  <2>7. TypeOK'
    <3>1. DOMAIN rows' \subseteq Parts /\ \A q \in DOMAIN rows' : rows'[q] \in ARow
      BY <2>1, <2>2
    <3>2. told' \in Sayings
      BY <1>7 DEF IInv, TypeOK, Sayings
    <3> QED
      BY <1>1, <1>7, <2>1, <2>5, <2>6, <3>1, <3>2, StepTyped DEF IInv, TypeOK
  <2>8. CapturesHaveRows'
    BY <1>1, <2>1, <2>3, <2>4 DEF IInv, CapturesHaveRows
  <2>9. AskedAgain'
    <3> SUFFICES ASSUME NEW y \in X, told'[y] = "again" PROVE \E q \in Pending' : rows'[q].of = y
      BY DEF AskedAgain, IdsOf
    <3>1. PICK q \in Pending : rows[q].of = y
      BY <1>7 DEF IInv, AskedAgain, IdsOf
    <3> QED
      BY <2>1, <2>2, <2>4, <3>1
  <2>10. CapInv'
    BY <1>1, <2>1, <2>5 DEF IInv, CapInv
  <2>11. RunInv'
    <3>1. Left' = {}
      BY <1>1, <1>4, <2>1, <2>3 DEF Left
    <3>2. \A p \in Stored : p \in DOMAIN rows /\ p # n
      BY <2>1, <2>2
    <3>3. \A p \in Stored', y \in run'.left : rows'[p].of < y
      BY <1>4, <2>1, <2>4, <2>5, <3>2
    <3> QED
      BY <1>1, <1>4, <2>1, <2>5, <3>1, <3>3 DEF RunInv, Working
  <2> QED
    BY <2>6, <2>7, <2>8, <2>9, <2>10, <2>11 DEF IInv
<1> QED
  BY <1>1, <1>5, <1>6, <1>7

\* The capture of the part in hand is written, or may have been; or its row is dropped.
LEMMA WritesKeeps == ASSUME IInv, WritesCapture PROVE IInv'
<1> DEFINE p == run.part
           x == rows[p].of
<1>1. run.at = "writing" /\ UNCHANGED <<listed, over, state, attempts, asked, tried>>
  BY DEF WritesCapture
<1>2. /\ N \in Nat /\ X = 1..N /\ Parts = 1..N /\ run \in Run
      /\ DOMAIN rows \subseteq Parts /\ \A q \in DOMAIN rows : rows[q] \in ARow
      /\ rows = [q \in DOMAIN rows |-> rows[q]]
  BY Vocabulary DEF IInv, TypeOK
<1>3. p \in Pending /\ p \in DOMAIN rows /\ x \in X /\ run.left # {} /\ x = First(run.left)
  BY <1>1, <1>2 DEF IInv, RunInv, Pending, ARow
<1>4. /\ Stored = run.held \cup run.new /\ Left = {} /\ p \notin DOMAIN disk
      /\ \A q \in Stored, y \in run.left : rows[q].of < y
  BY <1>1, <1>3 DEF IInv, RunInv, Working, Left
<1>5. DOMAIN disk \subseteq Parts /\ \A q \in DOMAIN disk : disk[q] \in X
  BY DEF IInv, TypeOK
<1>6. \/ UNCHANGED rows /\ disk' = With(disk, p, x) /\ GoesTo("marking") /\ UNCHANGED <<told, faults>>
      \/ UNCHANGED rows /\ disk' \in {disk, With(disk, p, x)} /\ Stops("again")
         /\ Says(x, "again") /\ Fault
      \/ rows' = Without(rows, p) /\ UNCHANGED disk /\ Stops("final") /\ Says(x, "lost") /\ Fault
  BY <1>4 DEF WritesCapture, KeepsIt
<1>7. LET d == With(disk, p, x) IN
      /\ DOMAIN d = DOMAIN disk \cup {p} /\ d[p] = x
      /\ \A q \in DOMAIN disk : d[q] = disk[q]
  BY <1>4 DEF With
<1>8. ASSUME UNCHANGED rows, disk' \in {disk, With(disk, p, x)}
      PROVE  /\ CapturesHaveRows' /\ OrderInv' /\ UNCHANGED <<Stored, Pending>>
             /\ DOMAIN disk' \subseteq Parts /\ \A q \in DOMAIN disk' : disk'[q] \in X
             /\ disk' # disk => Left' = {p}
  <2>1. Stored' = Stored /\ Pending' = Pending
    BY <1>8 DEF Stored, Pending
  <2>2. CASE disk' = disk
    BY <1>5, <1>8, <2>1, <2>2 DEF IInv, CapturesHaveRows, OrderInv
  <2>3. CASE disk' = With(disk, p, x)
    <3> HIDE DEF p, x
    <3>1. /\ DOMAIN disk' = DOMAIN disk \cup {p} /\ disk'[p] = x
          /\ \A q \in DOMAIN disk : disk'[q] = disk[q]
      BY <1>7, <2>3
    <3>2. CapturesHaveRows'
      BY <1>3, <1>8, <2>1, <3>1 DEF IInv, CapturesHaveRows, x
    <3>3. Left' = {p}
      BY <1>3, <1>4, <2>1, <3>1 DEF Left
    <3>4. OrderInv'
      BY <1>8 DEF IInv, OrderInv
    <3>5. DOMAIN disk' \subseteq Parts /\ \A q \in DOMAIN disk' : disk'[q] \in X
      BY <1>2, <1>3, <1>5, <3>1
    <3> QED
      BY <2>1, <3>2, <3>3, <3>4, <3>5
  <2> QED
    BY <1>8, <2>2, <2>3
<1>9. ASSUME NEW b \in {"final", "again"}, Stops(b)
      PROVE  /\ run' \in Run /\ run'.at = "settling"
             /\ run'.held = run.held /\ run'.new = run.new
  BY <1>2, <1>9 DEF Stops, Run, Stages
<1>10. CASE UNCHANGED rows /\ disk' = With(disk, p, x) /\ GoesTo("marking") /\ UNCHANGED <<told, faults>>
  <2>1. /\ run' \in Run /\ run'.at = "marking" /\ run'.part = p
        /\ run'.held = run.held /\ run'.new = run.new /\ run'.left = run.left
    BY <1>2, <1>10 DEF GoesTo, Run, Stages
  <2>2. /\ CapturesHaveRows' /\ OrderInv' /\ UNCHANGED <<Stored, Pending>>
        /\ DOMAIN disk' \subseteq Parts /\ \A q \in DOMAIN disk' : disk'[q] \in X
        /\ Left' = {p}
    <3>1. disk' # disk
      <4>1. p \in DOMAIN disk'
        BY <1>7, <1>10
      <4> QED
        BY <1>4, <4>1
    <3> QED
      BY <1>8, <1>10, <3>1
  <2> HIDE DEF p, x
  <2>3. TypeOK'
    BY <1>1, <1>2, <1>10, <2>1, <2>2, StepTyped DEF IInv, TypeOK, Sayings
  <2>4. RunInv'
    BY <1>3, <1>4, <1>10, <2>1, <2>2 DEF RunInv, Working, x
  <2>5. CapInv'
    BY <1>1, <2>1, <2>2 DEF IInv, CapInv
  <2>6. AskedAgain'
    BY <1>10, <2>2 DEF IInv, AskedAgain, IdsOf
  <2> QED
    BY <2>2, <2>3, <2>4, <2>5, <2>6 DEF IInv
<1>11. CASE UNCHANGED rows /\ disk' \in {disk, With(disk, p, x)} /\ Stops("again")
            /\ Says(x, "again") /\ Fault
  <2>1. /\ run' \in Run /\ run'.at = "settling"
        /\ run'.held = run.held /\ run'.new = run.new
    BY <1>9, <1>11
  <2>2. /\ CapturesHaveRows' /\ OrderInv' /\ UNCHANGED <<Stored, Pending>>
        /\ DOMAIN disk' \subseteq Parts /\ \A q \in DOMAIN disk' : disk'[q] \in X
    BY <1>8, <1>11
  <2>3. AskedAgain' /\ told' \in Sayings
    BY <1>3, <1>11, AgainKeeps
  <2> HIDE DEF p, x
  <2>4. TypeOK'
    BY <1>1, <1>2, <1>11, <2>1, <2>2, <2>3, StepTyped DEF IInv, TypeOK
  <2>5. RunInv'
    BY <1>4, <2>1, <2>2 DEF RunInv, Working
  <2>6. CapInv'
    BY <1>1, <2>1, <2>2 DEF IInv, CapInv
  <2> QED
    BY <2>2, <2>3, <2>4, <2>5, <2>6 DEF IInv
<1>12. CASE rows' = Without(rows, p) /\ UNCHANGED disk /\ Stops("final") /\ Says(x, "lost") /\ Fault
  <2>1. /\ run' \in Run /\ run'.at = "settling"
        /\ run'.held = run.held /\ run'.new = run.new
    BY <1>9, <1>12
  <2>2. /\ DOMAIN rows' = DOMAIN rows \ {p} /\ rows' = [q \in DOMAIN rows' |-> rows'[q]]
        /\ \A q \in DOMAIN rows' : rows'[q] = rows[q]
        /\ Stored' = Stored /\ Pending' = Pending \ {p}
    BY <1>3, <1>12, DropFacts DEF IInv
  <2>3. told' \in Sayings /\ told'[x] = "lost" /\ \A y \in X : y # x => told'[y] = told[y]
    BY <1>3, <1>12, SaysFacts DEF IInv
  <2> HIDE DEF p
  <2>4. OrderInv'
    BY <2>2 DEF IInv, OrderInv
  <2>5. TypeOK'
    <3>1. DOMAIN rows' \subseteq Parts /\ \A q \in DOMAIN rows' : rows'[q] \in ARow
      BY <1>2, <2>2
    <3> HIDE DEF x
    <3> QED
      BY <1>1, <1>5, <1>12, <2>1, <2>2, <2>3, <2>4, <3>1, StepTyped DEF IInv, TypeOK
  <2>6. CapturesHaveRows'
    BY <1>4, <1>12, <2>2 DEF IInv, CapturesHaveRows
  <2>7. RunInv'
    BY <1>4, <2>1, <2>2 DEF RunInv, Working
  <2>8. CapInv'
    BY <1>1, <2>1, <2>2 DEF IInv, CapInv
  <2>9. AskedAgain'
    <3> SUFFICES ASSUME NEW y \in X, told'[y] = "again" PROVE \E q \in Pending' : rows'[q].of = y
      BY DEF AskedAgain, IdsOf
    <3>1. y # x /\ told[y] = "again"
      BY <2>3
    <3>2. PICK q \in Pending : rows[q].of = y
      BY <3>1 DEF IInv, AskedAgain, IdsOf
    <3>3. q # p /\ q \in DOMAIN rows
      BY <3>1, <3>2 DEF Pending
    <3> QED
      BY <2>2, <3>2, <3>3
  <2> QED
    BY <2>4, <2>5, <2>6, <2>7, <2>8, <2>9 DEF IInv
<1> QED
  BY <1>6, <1>10, <1>11, <1>12

\* A part is marked stored after all that is, and before what is left.
LEMMA MarksItKeeps == ASSUME IInv, MarksIt PROVE IInv'
<1> DEFINE p == run.part
           x == rows[p].of
<1>1. /\ run.at = "marking" /\ UNCHANGED <<listed, over, disk, state, asked, tried>>
      /\ \/ /\ Marks(p) /\ Says(x, "nothing") /\ UNCHANGED faults
            /\ run' = [run EXCEPT !.at = "storing", !.left = @ \ {x}, !.new = @ \cup {p}]
         \/ Stops("again") /\ Says(x, "again") /\ Fault /\ UNCHANGED <<rows, attempts>>
  BY DEF MarksIt
<1>2. /\ N \in Nat /\ X = 1..N /\ Parts = 1..N /\ run \in Run
      /\ DOMAIN rows \subseteq Parts /\ \A q \in DOMAIN rows : rows[q] \in ARow
  BY Vocabulary DEF IInv
<1>3. p \in Pending /\ p \in DOMAIN rows /\ x \in X /\ run.left # {} /\ x = First(run.left)
  BY <1>1, <1>2 DEF IInv, RunInv, Pending, ARow
<1>4. /\ Stored = run.held \cup run.new /\ Left = {p}
      /\ \A q \in Stored, y \in run.left : rows[q].of < y
  BY <1>1 DEF IInv, RunInv, Working
<1>5. run.left \subseteq X /\ x \in run.left /\ \A y \in run.left : x <= y
  <2>1. run.left \subseteq X
    BY <1>2 DEF Run
  <2> QED
    BY <1>2, <1>3, <2>1, FirstIsLeast
<1>6. CASE /\ Marks(p) /\ Says(x, "nothing") /\ UNCHANGED faults
           /\ run' = [run EXCEPT !.at = "storing", !.left = @ \ {x}, !.new = @ \cup {p}]
  <2>1. /\ OrderInv' /\ CapturesHaveRows' /\ AskedAgain' /\ told' \in Sayings
        /\ rows' = [q \in DOMAIN rows' |-> rows'[q]] /\ DOMAIN rows' \subseteq Parts
        /\ \A q \in DOMAIN rows' : rows'[q] \in ARow
        /\ attempts' = 0 /\ Left' = {} /\ Stored' = Stored \cup {p}
        /\ \A q \in DOMAIN rows : q \in DOMAIN rows' /\ rows'[q].of = rows[q].of
    BY <1>1, <1>4, <1>6, MarkKeeps
  <2>2. /\ run' \in Run /\ run'.at = "storing"
        /\ run'.held = run.held /\ run'.new = run.new \cup {p} /\ run'.left = run.left \ {x}
    <3>1. p \in Parts
      BY <1>2, <1>3
    <3> HIDE DEF p, x
    <3> QED
      BY <1>2, <1>6, <3>1 DEF Run, Stages
  <2> HIDE DEF p
  <2>3. TypeOK'
    <3>1. attempts' \in 0..MaxIngestAttempts
      BY <2>1, TranscriptsAssumption
    <3> QED
      BY <1>1, <1>6, <2>1, <2>2, <3>1, StepTyped DEF IInv, TypeOK
  <2>4. ASSUME NEW q \in Stored', NEW y \in run'.left PROVE rows'[q].of < y
    <3>1. y \in run.left /\ y # x /\ y \in Nat /\ x \in Nat
      BY <1>2, <1>3, <1>5, <2>2
    <3>2. CASE q \in Stored
      BY <1>4, <2>1, <3>1, <3>2 DEF Stored
    <3>3. CASE q = p
      <4>1. rows'[q].of = x
        BY <1>3, <2>1, <3>3
      <4> QED
        BY <1>5, <3>1, <4>1
    <3> QED
      BY <2>1, <3>2, <3>3
  <2>5. RunInv'
    BY <1>4, <2>1, <2>2, <2>4 DEF RunInv, Working
  <2>6. CapInv'
    BY <2>1, <2>2 DEF CapInv
  <2> QED
    BY <2>1, <2>3, <2>5, <2>6 DEF IInv
<1>7. CASE Stops("again") /\ Says(x, "again") /\ Fault /\ UNCHANGED <<rows, attempts>>
  <2>1. /\ run' \in Run /\ run'.at = "settling"
        /\ run'.held = run.held /\ run'.new = run.new
    BY <1>2, <1>7 DEF Stops, Run, Stages
  <2>2. AskedAgain' /\ told' \in Sayings
    BY <1>3, <1>7, AgainKeeps
  <2>3. Stored' = Stored
    BY <1>7 DEF Stored
  <2> HIDE DEF p, x
  <2>4. CapturesHaveRows' /\ OrderInv'
    BY <1>1, <1>7, <2>3 DEF IInv, CapturesHaveRows, OrderInv
  <2>5. TypeOK'
    BY <1>1, <1>2, <1>7, <2>1, <2>2, <2>4, StepTyped DEF IInv, TypeOK
  <2>6. RunInv'
    BY <1>4, <2>1, <2>3 DEF RunInv, Working
  <2>7. CapInv'
    BY <1>1, <1>7, <2>1, <2>3 DEF IInv, CapInv
  <2> QED
    BY <2>2, <2>4, <2>5, <2>6, <2>7 DEF IInv
<1> QED
  BY <1>1, <1>6, <1>7

LEMMA SettlesKeeps == ASSUME IInv, Settles PROVE IInv'
<1>1. /\ run.at \in {"storing", "settling"}
      /\ UNCHANGED <<listed, over, rows, disk, attempts, asked, told, tried>>
      /\ \/ state' = NewState /\ GoesTo("noting") /\ UNCHANGED faults
         \/ run' = Idle /\ Fault /\ UNCHANGED state
  BY DEF Settles, ghosts
<1>2. run \in Run /\ state \in States /\ Stored = run.held \cup run.new
  BY <1>1 DEF IInv, TypeOK, RunInv, Working
<1>3. state' \in States /\ (attempts > 0 => state' \in {"fetched", "failed"})
  <2>1. state' \in {state, "fetched", "refused", "later"}
    BY <1>1 DEF NewState
  <2>2. ASSUME attempts > 0 PROVE state' \in {state, "fetched"}
    <3>1. run.held # {} \/ run.new # {}
      BY <1>2, <2>2 DEF IInv, CapInv
    <3> QED
      BY <1>1, <3>1 DEF NewState
  <2> QED
    BY <1>2, <2>1, <2>2 DEF States, IInv, CapInv
<1>4. run' \in Run /\ run'.at \in {"noting", "idle"}
  <2>1. CASE GoesTo("noting")
    BY <1>2, <2>1 DEF GoesTo, Run, Stages
  <2> QED
    BY <1>1, <2>1, IdleRuns
<1>5. RunInv'
  BY <1>4 DEF RunInv, Working
<1> QED
  BY <1>1, <1>3, <1>4, <1>5, AnswerKeeps DEF IInv, TypeOK, Sayings

\* The parts waiting to be ingested; the first of them is a stored one.
LEMMA ToDoFacts == ASSUME IInv, ToDo # {} PROVE First(ToDo) \in Stored
<1>1. ToDo \in SUBSET Nat /\ ToDo \subseteq Stored
  BY Vocabulary DEF IInv, ToDo, Waiting, Stored
<1> QED
  BY <1>1, FirstIsLeast

LEMMA IngestsKeeps == ASSUME IInv, Ingests PROVE IInv'
<1> DEFINE p == First(ToDo)
<1>1. /\ run.at = "ingesting" /\ UNCHANGED <<listed, over, disk, state, attempts, asked, told, tried>>
      /\ ToDo # {} /\ (Fault \/ UNCHANGED faults)
      /\ \/ rows' = [rows EXCEPT ![p].ingested = TRUE] /\ run' = [run EXCEPT !.part = p]
         \/ UNCHANGED rows /\ run' = [run EXCEPT !.part = p, !.failed = TRUE]
         \/ UNCHANGED rows /\ run' = Idle
  BY DEF Ingests, ghosts
<1>2. /\ N \in Nat /\ Parts = 1..N /\ run \in Run
      /\ DOMAIN rows \subseteq Parts /\ \A q \in DOMAIN rows : rows[q] \in ARow
      /\ rows = [q \in DOMAIN rows |-> rows[q]]
  BY Vocabulary DEF IInv, TypeOK
<1>3. p \in Stored /\ p \in DOMAIN rows /\ p \in 0..N
  <2>1. p \in Stored
    BY <1>1, ToDoFacts
  <2> HIDE DEF p
  <2> QED
    BY <1>2, <2>1 DEF Stored
<1> HIDE DEF p
<1>4. /\ DOMAIN rows' = DOMAIN rows /\ rows' = [q \in DOMAIN rows' |-> rows'[q]]
      /\ \A q \in DOMAIN rows : /\ rows'[q] \in ARow /\ rows'[q].of = rows[q].of
                                /\ rows'[q].state = rows[q].state
  <2>1. CASE UNCHANGED rows
    BY <1>2, <2>1
  <2>2. CASE rows' = [rows EXCEPT ![p].ingested = TRUE]
    <3>1. rows' = [q \in DOMAIN rows |->
                      IF q = p THEN [rows[p] EXCEPT !.ingested = TRUE] ELSE rows[q]]
      BY <1>2, <1>3, <2>2
    <3>2. LET r == [rows[p] EXCEPT !.ingested = TRUE] IN
          r \in ARow /\ r.of = rows[p].of /\ r.state = rows[p].state
      BY <1>2, <1>3 DEF ARow
    <3> QED
      BY <1>2, <1>3, <3>1, <3>2
  <2> QED
    BY <1>1, <2>1, <2>2
<1>5. Stored' = Stored /\ Pending' = Pending
  BY <1>4 DEF Stored, Pending
<1>6. run' \in Run /\ run'.at \in {"ingesting", "idle"}
  <2>1. CASE run' = [run EXCEPT !.part = p]
    BY <1>1, <1>2, <1>3, <2>1 DEF Run
  <2>2. CASE run' = [run EXCEPT !.part = p, !.failed = TRUE]
    BY <1>1, <1>2, <1>3, <2>2 DEF Run
  <2> QED
    BY <1>1, <2>1, <2>2, IdleRuns
<1>7. OrderInv'
  BY <1>4 DEF IInv, OrderInv
<1>8. TypeOK'
  BY <1>1, <1>2, <1>4, <1>6, <1>7, StepTyped DEF IInv, TypeOK, Sayings
<1>9. RunInv'
  BY <1>6 DEF RunInv, Working
<1>10. CapInv'
  BY <1>1, <1>5, <1>6 DEF IInv, CapInv
<1>11. CapturesHaveRows'
  BY <1>1, <1>4, <1>5 DEF IInv, CapturesHaveRows
<1>12. AskedAgain'
  <2> SUFFICES ASSUME NEW y \in X, told[y] = "again" PROVE \E q \in Pending' : rows'[q].of = y
    BY <1>1 DEF AskedAgain, IdsOf
  <2>1. PICK q \in Pending : rows[q].of = y
    BY DEF IInv, AskedAgain, IdsOf
  <2> QED
    BY <1>4, <1>5, <2>1 DEF Pending
<1> QED
  BY <1>7, <1>8, <1>9, <1>10, <1>11, <1>12 DEF IInv

\* A failed ingestion is counted of a meeting that has parts, below the cap.
LEMMA RecordsKeeps == ASSUME IInv, Records PROVE IInv'
<1>1. /\ run.at \in {"ingesting", "recording"} /\ run' = Idle
      /\ UNCHANGED <<listed, over, rows, disk, asked, told>>
      /\ \/ /\ state' = IF run.failed THEN "failed" ELSE "ingested"
            /\ attempts' = IF run.failed THEN attempts + 1 ELSE 0
            /\ tried' = [p \in Parts |-> IF run.failed /\ p \in Waiting THEN tried[p] + 1 ELSE tried[p]]
            /\ UNCHANGED faults
         \/ Fault /\ UNCHANGED <<state, attempts, tried>>
  BY DEF Records
<1>2. Stored # {} /\ attempts < MaxIngestAttempts /\ attempts \in Nat /\ MaxIngestAttempts \in Nat
  BY <1>1, TranscriptsAssumption DEF IInv, TypeOK, CapInv
<1>3. UNCHANGED <<Stored, Pending>>
  BY <1>1 DEF Stored, Pending
<1>4. state' \in States /\ attempts' \in 0..MaxIngestAttempts
      /\ (attempts' > 0 => state' \in {"fetched", "failed"})
  BY <1>1, <1>2 DEF IInv, TypeOK, CapInv, States
<1>5. tried' \in [Parts -> Nat]
  BY <1>1 DEF IInv, TypeOK
<1>6. run' \in Run /\ run'.at = "idle"
  BY <1>1, IdleRuns
<1>7. OrderInv' /\ CapturesHaveRows' /\ AskedAgain'
  BY <1>1, <1>3 DEF IInv, OrderInv, CapturesHaveRows, AskedAgain, IdsOf
<1>8. TypeOK'
  BY <1>1, <1>4, <1>5, <1>6, <1>7, StepTyped, Vocabulary DEF IInv, TypeOK, Sayings
<1>9. RunInv' /\ CapInv'
  BY <1>2, <1>3, <1>4, <1>6 DEF RunInv, CapInv, Working
<1> QED
  BY <1>7, <1>8, <1>9 DEF IInv

LEMMA NextKeeps == IInv /\ [Next]_vars => IInv'
<1> SUFFICES ASSUME IInv, [Next]_vars PROVE IInv'
  OBVIOUS
<1>1. CASE Next
  BY <1>1, MeetingKeeps, SelectsKeeps, RepairsKeeps, RepairedKeeps, AsksKeeps, ClaimsKeeps,
     WritesKeeps, MarksItKeeps, SettlesKeeps, IngestsKeeps, RecordsKeeps, LeavesKeeps,
     OffersKeeps DEF Next, Steps
<1>2. CASE UNCHANGED vars
  <2>1. UNCHANGED <<listed, over, rows, disk, state, attempts, asked, run, faults, told, tried>>
    BY <1>2 DEF vars, kept, ghosts
  <2>2. RunInv'
    BY <2>1 DEF IInv, RunInv, Stored, Pending, Left
  <2> QED
    BY <2>1, <2>2, RunKeeps DEF IInv, TypeOK, CapInv
<1> QED
  BY <1>1, <1>2

-----------------------------------------------------------------------------
(* What holds of every run of the harvest.                                 *)

THEOREM Invariance == Spec => []IInv
BY InitEstablishes, NextKeeps, PTL DEF Spec

\* The state is of its types, for any number of transcripts, cap and faults.
THEOREM TypeCorrect == Spec => []TypeOK
<1>1. IInv => TypeOK
  BY DEF IInv
<1> QED
  BY <1>1, Invariance, PTL

\* However runs of core/transcript_acquisition.py end, no capture is without its row, none
\* is under another's number, and no part counts as stored without its capture.
THEOREM CapturesAreHeld == Spec => []CapturesHaveRows
<1>1. IInv => CapturesHaveRows
  BY DEF IInv
<1> QED
  BY <1>1, Invariance, PTL

\* The numbers of the stored parts are in the order of the transcripts.
THEOREM PartsInTimeOrder == Spec => []TimeOrder
<1>1. IInv => TimeOrder
  BY DEF IInv, OrderInv, TimeOrder, Stored
<1> QED
  BY <1>1, Invariance, PTL

\* A part of which the run said that it is tried again keeps the row that has it asked for.
THEOREM AgainIsAsked == Spec => []AskedAgain
<1>1. IInv => AskedAgain
  BY DEF IInv
<1> QED
  BY <1>1, Invariance, PTL

\* What one step does to a stored part: at most its ingestion is marked.
LEMMA StepKeepsStored ==
    ASSUME IInv, Next, NEW p \in Stored
    PROVE  /\ p \in Stored' /\ rows'[p].of = rows[p].of /\ disk'[p] = disk[p]
           /\ rows[p].ingested => rows'[p].ingested
<1>a. p \in DOMAIN rows /\ rows[p] \in ARow /\ p \notin Pending /\ p \in DOMAIN disk
  BY Vocabulary DEF IInv, Stored, CapturesHaveRows
<1>1. CASE UNCHANGED <<rows, disk>>
  BY <1>1 DEF Stored
<1>2. ASSUME NEW q \in DOMAIN rows, Marks(q), UNCHANGED disk
      PROVE  /\ p \in Stored' /\ rows'[p].of = rows[p].of /\ disk'[p] = disk[p]
             /\ rows[p].ingested => rows'[p].ingested
  <2>1. rows' = [r \in DOMAIN rows |-> IF r = q THEN [rows[q] EXCEPT !.state = "stored"] ELSE rows[r]]
    BY <1>2 DEF Marks, IInv, TypeOK
  <2>2. LET v == [rows[p] EXCEPT !.state = "stored"] IN
        v.state = "stored" /\ v.of = rows[p].of /\ v.ingested = rows[p].ingested
    BY <1>a DEF ARow
  <2>3. p \in DOMAIN rows' /\ rows'[p].state = "stored" /\ rows'[p].of = rows[p].of
        /\ rows'[p].ingested = rows[p].ingested
    BY <1>a, <2>1, <2>2 DEF Stored
  <2> QED
    BY <1>2, <2>3 DEF Stored
<1>3. CASE Repairs
  <2>1. First(Left) \in Left /\ First(Left) \in DOMAIN rows
    <3>1. Left \in SUBSET Nat /\ Left # {}
      BY <1>3, Vocabulary DEF IInv, Repairs, Left, Pending
    <3> QED
      BY <3>1, FirstIsLeast DEF Left, Pending
  <2> QED
    BY <1>1, <1>2, <1>3, <2>1 DEF Repairs
<1>4. CASE Claims
  <2> DEFINE x == First(run.left)
  <2>1. CASE UNCHANGED rows
    BY <1>1, <1>4, <2>1 DEF Claims
  <2>2. CASE ~BeforePending(x) /\ rows' = With(rows, NumberOf(x), Row(x, "pending", FALSE))
    <3>1. run.left # {} /\ run.left \subseteq X /\ X \subseteq Nat /\ UNCHANGED disk
      BY <1>4, Vocabulary DEF Claims, IInv, Run
    <3>2. x \in X
      BY <3>1, FirstIsLeast
    <3>3. \A q \in Stored : rows[q].of < x
      BY <1>4, <3>1, FirstIsLeast DEF Claims, IInv, RunInv, Working
    <3> HIDE DEF x
    <3>4. /\ NumberOf(x) \in Pending \/ NumberOf(x) \notin DOMAIN rows
          /\ \A q \in DOMAIN rows : q # NumberOf(x) => rows'[q] = rows[q]
          /\ Stored' = Stored
      BY <2>2, <3>2, <3>3, ClaimFacts DEF IInv
    <3> QED
      BY <1>a, <3>1, <3>4
  <2> QED
    BY <1>4, <2>1, <2>2 DEF Claims
<1>5. CASE WritesCapture
  <2> DEFINE q == run.part
  <2>1. q \in Pending /\ q \notin DOMAIN disk /\ p # q
    BY <1>5, <1>a DEF WritesCapture, IInv, RunInv, Left
  <2>2. UNCHANGED rows \/ rows' = Without(rows, q)
    BY <1>5 DEF WritesCapture, KeepsIt
  <2>3. disk'[p] = disk[p]
    BY <1>5, <1>a, <2>1 DEF WritesCapture, With
  <2> HIDE DEF q
  <2>4. CASE rows' = Without(rows, q)
    <3>1. p \in DOMAIN rows' /\ rows'[p] = rows[p]
      BY <1>a, <2>1, <2>4, DropFacts DEF IInv
    <3> QED
      BY <2>3, <3>1 DEF Stored
  <2>5. CASE UNCHANGED rows
    BY <2>3, <2>5 DEF Stored
  <2> QED
    BY <2>2, <2>4, <2>5
<1>6. CASE MarksIt
  <2>1. run.part \in DOMAIN rows
    BY <1>6 DEF MarksIt, IInv, RunInv, Pending
  <2> QED
    BY <1>1, <1>2, <1>6, <2>1 DEF MarksIt
<1>7. CASE Ingests
  <2> DEFINE q == First(ToDo)
  <2>1. q \in Stored /\ q \in DOMAIN rows
    BY <1>7, ToDoFacts DEF Ingests, Stored
  <2>2. CASE rows' = [rows EXCEPT ![q].ingested = TRUE]
    <3> HIDE DEF q
    <3>1. rows' = [r \in DOMAIN rows |-> IF r = q THEN [rows[q] EXCEPT !.ingested = TRUE] ELSE rows[r]]
      BY <2>1, <2>2 DEF IInv, TypeOK
    <3>2. LET v == [rows[p] EXCEPT !.ingested = TRUE] IN
          v.state = rows[p].state /\ v.of = rows[p].of /\ v.ingested
      BY <1>a DEF ARow
    <3>3. p \in DOMAIN rows' /\ rows'[p].state = rows[p].state /\ rows'[p].of = rows[p].of
          /\ (rows[p].ingested => rows'[p].ingested)
      BY <1>a, <3>1, <3>2
    <3> QED
      BY <1>7, <3>3 DEF Ingests, Stored
  <2> QED
    BY <1>1, <1>7, <2>2 DEF Ingests
<1>8. CASE \/ \E x \in X : Begins(x) \/ Finishes(x) \/ Expires(x)
           \/ WindowEnds \/ Selects \/ Repaired \/ Asks \/ AsksNobody \/ Settles \/ Notes
           \/ Offers \/ Records \/ CutOff
  <2>1. UNCHANGED <<rows, disk>>
    BY <1>8 DEF Begins, Finishes, Expires, WindowEnds, Selects, Repaired, Asks, AsksNobody, Settles,
       Notes, Offers, Records, CutOff, kept
  <2> QED
    BY <1>1, <2>1
<1> QED
  BY <1>3, <1>4, <1>5, <1>6, <1>7, <1>8 DEF Next, Steps

\* No step of a later run unmarks a stored part, renumbers it, overwrites its capture or
\* has it ingested again.
THEOREM StoredIsKept == Spec => StoredStays
<1>1. IInv /\ [Next]_vars
      => [\A p \in Stored : /\ p \in Stored' /\ rows'[p].of = rows[p].of /\ disk'[p] = disk[p]
                            /\ rows[p].ingested => rows'[p].ingested]_vars
  <2> SUFFICES ASSUME IInv, Next, NEW p \in Stored
               PROVE  /\ p \in Stored' /\ rows'[p].of = rows[p].of /\ disk'[p] = disk[p]
                      /\ rows[p].ingested => rows'[p].ingested
    OBVIOUS
  <2> QED
    BY StepKeepsStored
<1> QED
  BY <1>1, Invariance, PTL DEF Spec, StoredStays

-----------------------------------------------------------------------------
(* The attempts of a harvest.                                              *)

\* The attempt in flight is shown as worked only once it is saved.
StampInv ==
    /\ NoSuccessOfFailed
    /\ stage # "idle" => attempt >= 1 /\ previous < attempt
    /\ stage # "idle" /\ ~saved => success < attempt
    /\ saved => stage \in {"saved", "acquiring", "ingesting", "failing"}

\* Every line is accounted for by a dedup row, an append under way or one that
\* was torn; what the position is about to pass is in the ledger, refused, or
\* still to be persisted; and what is to be persisted has a record or gets one.
LedgerInv ==
    /\ PositionIsBacked
    /\ CitesARecord
    /\ \A e \in Events :
          log[e] = torn[e] + (IF e \in seen \cup appending THEN 1 ELSE 0)
    /\ appending \cap seen = {}
    /\ stage # "appended" => appending = {}
    /\ stage = "appended" => toRecord = {}
    /\ toPersist \subseteq recorded \cup toRecord
    /\ stage \in {"writing", "appended"} =>
          \A e \in 1..next : e \in 1..cursor \/ log[e] > 0 \/ e \in dropped \/ e \in toPersist

Active == {"begun", "skips", "running", "handed", "executing"}

\* A thread is active because its attempt waits for it, or because its deadline
\* passed; and a step of an abandoned one runs only while its attempt has still
\* to record that, or the daemon stops.
ThreadInv ==
    /\ abandoned \subseteq late
    /\ \A n \in Attempts :
          /\ n > attempt => thread[n] = "none" /\ n \notin late
          /\ n \in late /\ n = attempt => stage \in {"failing", "idle"}
          /\ thread[n] \in Active /\ n \notin late
                => n = attempt /\ stage \in {"acquiring", "ingesting"}
          /\ thread[n] \in {"handed", "executing"} => taken[n] < MaxWrites
          /\ thread[n] = "executing" /\ n \in abandoned
                => n = attempt /\ (stage = "failing" \/ phase # "up")

AttemptInv == HTypeOK /\ StampInv /\ LedgerInv /\ ThreadInv

-----------------------------------------------------------------------------

\* The invariant holds in the initial state.
LEMMA AttemptInit == HInit => AttemptInv
<1> SUFFICES ASSUME HInit PROVE AttemptInv
  OBVIOUS
<1> USE ProviderAssumption, BoundsAssumption DEF HInit
<1>a. /\ log \in [Events -> Nat] /\ torn \in [Events -> Nat]
      /\ thread \in [Attempts -> {"none", "begun", "skips", "running", "handed",
                                "executing", "ended"}]
      /\ taken \in [Attempts -> 0..MaxWrites]
  OBVIOUS
<1>b. /\ cursor \in 0..LastEvent /\ next \in 0..LastEvent /\ attempt \in 0..MaxAttempts
      /\ failure \in 0..attempt /\ success \in 0..attempt /\ previous \in 0..success
  OBVIOUS
<1>1. HTypeOK
  <2> HIDE DEF HInit
  <2>1. /\ seen \subseteq Events /\ recorded \subseteq Events /\ dropped \subseteq Events
        /\ toRecord \subseteq Events /\ toPersist \subseteq Events /\ appending \subseteq Events
        /\ abandoned \subseteq Attempts /\ late \subseteq Attempts
        /\ stage = "idle" /\ phase = "up" /\ clean \in BOOLEAN /\ saved \in BOOLEAN
    BY DEF HInit
  <2> QED
    BY <1>a, <1>b, <2>1 DEF HTypeOK
<1>2. StampInv
  BY DEF StampInv, NoSuccessOfFailed
<1>3. LedgerInv
  BY DEF LedgerInv, PositionIsBacked, CitesARecord
<1>4. ThreadInv
  BY DEF ThreadInv, Active
<1> QED
  BY <1>1, <1>2, <1>3, <1>4 DEF AttemptInv

\* The stamps part: it depends on where the attempt is, and on nothing else.
LEMMA StampStep == HTypeOK /\ StampInv /\ [HNext]_(hvars) => StampInv'
<1> SUFFICES ASSUME HTypeOK, StampInv, [HNext]_(hvars) PROVE StampInv'
  OBVIOUS
<1>0. /\ attempt \in Nat /\ failure \in Nat /\ success \in Nat /\ previous \in Nat
      /\ failure <= attempt /\ success <= attempt /\ previous <= success
      /\ saved \in BOOLEAN
  BY BoundsAssumption DEF HTypeOK
<1> USE <1>0 DEF StampInv, NoSuccessOfFailed
<1>1. CASE UNCHANGED <<stamps, attempt, stage, saved>>
  BY <1>1 DEF stamps
<1>2. CASE Start
  BY <1>2 DEF Start, stamps, result
<1>3. CASE Fetched \/ Fails \/ FindsRecordsBusy \/ NoBudget
  BY <1>3 DEF Fetched, Fails, FindsRecordsBusy, NoBudget, stamps, result
<1>4. CASE Refused \/ EndsSaved
  BY <1>4 DEF Refused, EndsSaved, Ends, stamps
<1>5. CASE SavesBusy
  BY <1>5 DEF SavesBusy, Ends
<1>6. CASE \E B \in SUBSET toPersist : Appends(B)
  BY <1>6 DEF Appends, stamps
<1>7. CASE CommitsAppend \/ CommitRefused
  BY <1>7 DEF CommitsAppend, CommitRefused, Ends, stamps
<1>8. CASE Saves
  BY <1>8 DEF Saves
<1>9. CASE BeginsTranscripts \/ StepReturns
  BY <1>9 DEF BeginsTranscripts, StepReturns, Ends, stamps, result
<1>10. CASE Deadline
  BY <1>10 DEF Deadline, stamps, result
<1>11. CASE RecordsFailure
  BY <1>11 DEF RecordsFailure, TakesBack, Ends
<1>12. CASE ShutdownMarks
  BY <1>12 DEF ShutdownMarks, TakesBack, Bounded, stamps, result
<1>13. CASE Restarts
  BY <1>13 DEF Restarts, Ends, stamps
<1>14. CASE PutsRecord \/ RefusesRecord \/ StopAccepting
  BY <1>14, <1>1 DEF PutsRecord, RefusesRecord, StopAccepting, result
<1>15. CASE \E n \in Attempts : Thread(n)
  BY <1>15, <1>1 DEF Thread, ThreadBegins, ThreadHands, StepRuns, StepDone, ThreadEnds, result
<1>16. CASE UNCHANGED hvars
  BY <1>16, <1>1 DEF hvars, result
<1> QED
  BY <1>2, <1>3, <1>4, <1>5, <1>6, <1>7, <1>8, <1>9, <1>10, <1>11, <1>12, <1>13,
     <1>14, <1>15, <1>16 DEF HNext, Goes, Writes, Transcripts

\* The ledger part: lines, dedup rows and the rest of the batch.
LEMMA LedgerStep == HTypeOK /\ LedgerInv /\ [HNext]_(hvars) => LedgerInv'
<1> SUFFICES ASSUME HTypeOK, LedgerInv, [HNext]_(hvars) PROVE LedgerInv'
  OBVIOUS
<1>0. /\ log \in [Events -> Nat] /\ torn \in [Events -> Nat]
      /\ seen \subseteq Events /\ appending \subseteq Events
      /\ toPersist \subseteq Events /\ toRecord \subseteq Events
      /\ cursor \in 0..LastEvent /\ next \in 0..LastEvent /\ LastEvent \in Nat
      /\ Events = 1..LastEvent
  BY ProviderAssumption DEF HTypeOK, Events
<1> USE <1>0 DEF LedgerInv, PositionIsBacked, CitesARecord
<1>1. CASE UNCHANGED <<cursor, ledger, result, dropped, torn>> /\
           (stage' = stage \/ {stage, stage'} \cap {"writing", "appended"} = {})
  BY <1>1 DEF ledger, result
<1>2. CASE Start \/ BeginsTranscripts \/ NoBudget \/ Deadline \/ StopAccepting \/ ShutdownMarks
  BY <1>2 DEF Start, BeginsTranscripts, NoBudget, Deadline, StopAccepting, ShutdownMarks,
              ledger, result, hghosts
<1>3. CASE Fetched
  BY <1>3 DEF Fetched, ledger, hghosts
<1>4. CASE Fails \/ FindsRecordsBusy
  BY <1>4 DEF Fails, FindsRecordsBusy, ledger, result, hghosts
<1>5. CASE Refused \/ EndsSaved \/ SavesBusy \/ RecordsFailure
  <2>1. UNCHANGED <<cursor, log, seen, recorded, torn, dropped>>
    BY <1>5 DEF Refused, EndsSaved, SavesBusy, RecordsFailure, ledger, hghosts
  <2>2. stage # "appended"
    BY <1>5 DEF Refused, EndsSaved, SavesBusy, RecordsFailure
  <2>3. Ends
    BY <1>5 DEF Refused, EndsSaved, SavesBusy, RecordsFailure
  <2> QED
    BY <2>1, <2>2, <2>3 DEF Ends
<1>6. CASE PutsRecord
  BY <1>6 DEF PutsRecord, hghosts
<1>7. CASE RefusesRecord
  BY <1>7 DEF RefusesRecord, ledger
<1>8. ASSUME NEW B \in SUBSET toPersist, Appends(B) PROVE LedgerInv'
  <2>1. /\ stage = "writing" /\ toRecord = {} /\ appending = {}
        /\ \A e \in Events : log'[e] = IF e \in B \ seen THEN log[e] + 1 ELSE log[e]
        /\ appending' = B \ seen /\ toPersist' = toPersist \ B
        /\ stage' = "appended"
        /\ UNCHANGED <<cursor, seen, recorded, toRecord, next, dropped, torn>>
    BY <1>8 DEF Appends, RecordsDone, Fresh, hghosts
  <2>2. B \subseteq recorded
    BY <2>1
  <2>3. \A e \in Events : log'[e] > 0 <=> log[e] > 0 \/ e \in B \ seen
    BY <2>1
  <2>4. \A e \in B : log'[e] > 0
    BY <2>1
  <2>5. \A e \in Events : log'[e] = torn'[e] + (IF e \in seen' \cup appending' THEN 1 ELSE 0)
    BY <2>1
  <2>6. PositionIsBacked' /\ CitesARecord'
    BY <2>1, <2>2, <2>3
  <2> QED
    BY <2>1, <2>2, <2>3, <2>4, <2>5, <2>6
<1>9. CASE CommitsAppend
  BY <1>9 DEF CommitsAppend, hghosts
<1>10. CASE CommitRefused \/ Restarts
  <2>1. /\ UNCHANGED <<cursor, log, seen, recorded, dropped>>
        /\ \A e \in Events : torn'[e] = IF e \in appending THEN torn[e] + 1 ELSE torn[e]
        /\ appending' = {} /\ stage' \in {"idle", "failing"}
    BY <1>10 DEF CommitRefused, Restarts, Ends, Tears, ledger
  <2>2. toPersist' = {} \/ (toPersist' = toPersist /\ toRecord' = toRecord)
    BY <1>10 DEF CommitRefused, Restarts, Ends
  <2>3. \A e \in Events : log'[e] = torn'[e] + (IF e \in seen' \cup appending' THEN 1 ELSE 0)
    BY <2>1
  <2> QED
    BY <2>1, <2>2, <2>3
<1>11. CASE Saves
  BY <1>11 DEF Saves, ledger, hghosts
<1>12. CASE StepReturns
  BY <1>12 DEF StepReturns, Ends, ledger, result, hghosts
<1>13. CASE \E n \in Attempts : Thread(n)
  BY <1>13, <1>1 DEF Thread, ThreadBegins, ThreadHands, StepRuns, StepDone, ThreadEnds, hghosts
<1>14. CASE UNCHANGED hvars
  BY <1>14, <1>1 DEF hvars, hghosts
<1> QED
  BY <1>2, <1>3, <1>4, <1>5, <1>6, <1>7, <1>8, <1>9, <1>10, <1>11, <1>12, <1>13,
     <1>14 DEF HNext, Goes, Writes, Transcripts

\* The threads part.
LEMMA ThreadStep == HTypeOK /\ StampInv /\ ThreadInv /\ [HNext]_(hvars) => ThreadInv'
<1> SUFFICES ASSUME HTypeOK, StampInv, ThreadInv, [HNext]_(hvars) PROVE ThreadInv'
  OBVIOUS
<1>0. /\ attempt \in 0..MaxAttempts /\ MaxAttempts \in Nat /\ Attempts = 1..MaxAttempts
      /\ MaxWrites \in Nat
      /\ thread \in [Attempts -> {"none", "begun", "skips", "running", "handed",
                                  "executing", "ended"}]
      /\ taken \in [Attempts -> 0..MaxWrites]
      /\ stage # "idle" => attempt \in Attempts
  BY BoundsAssumption DEF HTypeOK, Attempts, StampInv
<1> USE <1>0 DEF ThreadInv, Active
<1>1. CASE UNCHANGED <<attempt, threads, late>> /\ (phase' = phase \/ phase = "up")
           /\ (stage' = stage \/ {stage, stage'} \cap {"acquiring", "ingesting", "failing", "idle"} = {})
  BY <1>1 DEF threads
<1>2. CASE Start
  BY <1>2 DEF Start, threads, hghosts
<1>3. CASE Fetched \/ Fails \/ FindsRecordsBusy \/ NoBudget
  BY <1>3 DEF Fetched, Fails, FindsRecordsBusy, NoBudget, threads, hghosts
<1>4. CASE Refused
  BY <1>4 DEF Refused, Ends, WriterFree, threads, hghosts
<1>5. CASE EndsSaved \/ SavesBusy \/ RecordsFailure
  BY <1>5 DEF EndsSaved, SavesBusy, RecordsFailure, Ends, Accepts, WriterFree, threads, hghosts
<1>6. CASE \E B \in SUBSET toPersist : Appends(B)
  BY <1>6 DEF Appends, threads, hghosts
<1>7. CASE CommitsAppend \/ CommitRefused
  BY <1>7 DEF CommitsAppend, CommitRefused, Ends, threads, hghosts
<1>8. CASE Saves
  BY <1>8 DEF Saves, threads, hghosts
<1>9. CASE BeginsTranscripts
  BY <1>9 DEF BeginsTranscripts, hghosts
<1>10. CASE StepReturns
  BY <1>10 DEF StepReturns, Ends, hghosts
<1>11. CASE Deadline
  BY <1>11 DEF Deadline
<1>12. ASSUME NEW n \in Attempts, Thread(n) PROVE ThreadInv'
  <2>1. /\ UNCHANGED <<attempt, stage, abandoned, late, phase>>
        /\ \A m \in Attempts : m # n => thread'[m] = thread[m] /\ taken'[m] = taken[m]
        /\ thread[n] \in Active
    BY <1>12 DEF Thread, ThreadBegins, ThreadHands, StepRuns, StepDone, ThreadEnds,
                 ThreadMoves, hghosts
  <2>2. thread'[n] = "handed" => taken'[n] < MaxWrites /\ n \notin abandoned'
    BY <1>12 DEF Thread, ThreadBegins, ThreadHands, StepRuns, StepDone, ThreadEnds, ThreadMoves
  <2>3. thread'[n] = "executing" => taken'[n] < MaxWrites /\ n \notin abandoned'
    BY <1>12 DEF Thread, ThreadBegins, ThreadHands, StepRuns, StepDone, ThreadEnds, ThreadMoves
  <2> QED
    BY <2>1, <2>2, <2>3
<1>13. CASE StopAccepting \/ ShutdownMarks
  BY <1>13 DEF StopAccepting, ShutdownMarks, threads, hghosts
<1>14. CASE Restarts
  BY <1>14 DEF Restarts
<1>15. CASE PutsRecord \/ RefusesRecord
  BY <1>15, <1>1 DEF PutsRecord, RefusesRecord, hghosts
<1>16. CASE UNCHANGED hvars
  BY <1>16, <1>1 DEF hvars, hghosts
<1> QED
  BY <1>2, <1>3, <1>4, <1>5, <1>6, <1>7, <1>8, <1>9, <1>10, <1>11, <1>12, <1>13,
     <1>14, <1>15, <1>16 DEF HNext, Goes, Writes, Transcripts

\* The types.  The numbers, the sets and the functions of one action are
\* separate facts.
LEMMA TypeStep == AttemptInv /\ [HNext]_(hvars) => HTypeOK'
<1> SUFFICES ASSUME AttemptInv, [HNext]_(hvars) PROVE HTypeOK'
  OBVIOUS
<1>a. /\ cursor \in 0..LastEvent /\ next \in 0..LastEvent /\ LastEvent \in Nat
      /\ attempt \in 0..MaxAttempts /\ MaxAttempts \in Nat /\ MaxWrites \in Nat
      /\ failure \in 0..attempt /\ success \in 0..attempt /\ previous \in 0..success
  BY ProviderAssumption, BoundsAssumption DEF AttemptInv, HTypeOK
<1>b. /\ seen \subseteq Events /\ recorded \subseteq Events /\ dropped \subseteq Events
      /\ toRecord \subseteq Events /\ toPersist \subseteq Events /\ appending \subseteq Events
      /\ abandoned \subseteq Attempts /\ late \subseteq Attempts
      /\ clean \in BOOLEAN /\ saved \in BOOLEAN
  BY DEF AttemptInv, HTypeOK
<1>c. /\ log \in [Events -> Nat] /\ torn \in [Events -> Nat]
      /\ thread \in [Attempts -> {"none", "begun", "skips", "running", "handed",
                                  "executing", "ended"}]
      /\ taken \in [Attempts -> 0..MaxWrites]
  BY DEF AttemptInv, HTypeOK
<1>d. /\ stage \in {"fetching", "acquiring", "ingesting", "idle", "writing", "appended",
                    "busy", "saved", "failing"}
      /\ phase \in {"up", "stopping", "closing"}
  BY DEF AttemptInv, HTypeOK, Bounded
<1>e. stage # "idle" => attempt \in Attempts
  BY <1>a DEF AttemptInv, StampInv, Attempts
<1>1. /\ cursor' \in 0..LastEvent /\ next' \in 0..LastEvent
      /\ attempt' \in 0..MaxAttempts
      /\ failure' \in 0..attempt' /\ success' \in 0..attempt' /\ previous' \in 0..success'
  <2> USE <1>a, <1>e DEF Attempts
  <2>1. CASE Start
    BY <2>1 DEF Start, stamps, result
  <2>2. CASE Fetched
    BY <2>2 DEF Fetched, stamps
  <2>3. CASE Writes
    BY <2>3 DEF Writes, PutsRecord, RefusesRecord, FindsRecordsBusy, SavesBusy, Appends,
                CommitsAppend, CommitRefused, Saves, Ends, stamps, result
  <2>4. CASE Transcripts
    BY <2>4 DEF Transcripts, EndsSaved, BeginsTranscripts, NoBudget, StepReturns, Deadline,
                Ends, stamps, result
  <2>5. CASE Fails \/ Refused \/ RecordsFailure
    BY <2>5 DEF Fails, Refused, RecordsFailure, TakesBack, Ends, stamps, result
  <2>6. CASE \E n \in Attempts : Thread(n)
    BY <2>6 DEF Thread, ThreadBegins, ThreadHands, StepRuns, StepDone, ThreadEnds, stamps, result
  <2>7. CASE StopAccepting \/ ShutdownMarks \/ Restarts
    BY <2>7 DEF StopAccepting, ShutdownMarks, Restarts, TakesBack, Ends, Bounded, stamps, result,
                AttemptInv, StampInv
  <2>8. CASE UNCHANGED hvars
    BY <2>8 DEF hvars, stamps, result
  <2> QED
    BY <2>1, <2>2, <2>3, <2>4, <2>5, <2>6, <2>7, <2>8 DEF HNext, Goes
<1>2. /\ seen' \subseteq Events /\ recorded' \subseteq Events /\ dropped' \subseteq Events
      /\ toRecord' \subseteq Events /\ toPersist' \subseteq Events /\ appending' \subseteq Events
      /\ abandoned' \subseteq Attempts /\ late' \subseteq Attempts
      /\ clean' \in BOOLEAN /\ saved' \in BOOLEAN
  <2> USE <1>b, <1>e
  <2>1. CASE Start \/ Fetched
    BY <2>1 DEF Start, Fetched, ledger, result, threads, hghosts
  <2>2. CASE Writes
    BY <2>2 DEF Writes, PutsRecord, RefusesRecord, FindsRecordsBusy, SavesBusy, Appends, Fresh,
                CommitsAppend, CommitRefused, Saves, Ends, ledger, result, threads, hghosts
  <2>3. CASE Transcripts
    BY <2>3 DEF Transcripts, EndsSaved, BeginsTranscripts, NoBudget, StepReturns, Deadline,
                Ends, ledger, result, threads, hghosts
  <2>4. CASE Fails \/ Refused \/ RecordsFailure
    BY <2>4 DEF Fails, Refused, RecordsFailure, Ends, ledger, result, threads, hghosts
  <2>5. CASE \E n \in Attempts : Thread(n)
    BY <2>5 DEF Thread, ThreadBegins, ThreadHands, StepRuns, StepDone, ThreadEnds, ledger,
                result, hghosts
  <2>6. CASE StopAccepting \/ ShutdownMarks \/ Restarts
    BY <2>6 DEF StopAccepting, ShutdownMarks, Restarts, Ends, ledger, result, threads, hghosts
  <2>7. CASE UNCHANGED hvars
    BY <2>7 DEF hvars, ledger, result, threads, hghosts
  <2> QED
    BY <2>1, <2>2, <2>3, <2>4, <2>5, <2>6, <2>7 DEF HNext, Goes
<1>3. log' \in [Events -> Nat] /\ torn' \in [Events -> Nat]
  <2> USE <1>c
  <2>1. CASE UNCHANGED <<log, torn>>
    BY <2>1
  <2>2. CASE \E B \in SUBSET toPersist : Appends(B)
    BY <2>2 DEF Appends, hghosts
  <2>3. CASE CommitRefused \/ Restarts
    BY <2>3 DEF CommitRefused, Restarts, Tears, ledger
  <2> QED
    BY <2>1, <2>2, <2>3 DEF HNext, Goes, Writes, Transcripts, Thread, hvars, ledger, hghosts,
       Start, Fetched, Fails, Refused, PutsRecord, RefusesRecord, FindsRecordsBusy, SavesBusy,
       CommitsAppend, Saves, EndsSaved, BeginsTranscripts, NoBudget, StepReturns, Deadline,
       RecordsFailure, ThreadBegins, ThreadHands, StepRuns, StepDone, ThreadEnds,
       StopAccepting, ShutdownMarks
<1>4. /\ thread' \in [Attempts -> {"none", "begun", "skips", "running", "handed",
                                   "executing", "ended"}]
      /\ taken' \in [Attempts -> 0..MaxWrites]
  <2> USE <1>a, <1>c, <1>e
  <2>1. CASE UNCHANGED <<thread, taken>>
    BY <2>1
  <2>2. CASE BeginsTranscripts \/ StepReturns
    BY <2>2 DEF BeginsTranscripts, StepReturns
  <2>3. ASSUME NEW n \in Attempts, Thread(n), ~StepDone(n)
        PROVE  thread' \in [Attempts -> {"none", "begun", "skips", "running", "handed",
                                         "executing", "ended"}]
               /\ UNCHANGED taken
    BY <2>3 DEF Thread, ThreadBegins, ThreadHands, StepRuns, ThreadEnds, ThreadMoves
  <2>4. ASSUME NEW n \in Attempts, StepDone(n)
        PROVE  /\ thread' \in [Attempts -> {"none", "begun", "skips", "running", "handed",
                                            "executing", "ended"}]
               /\ taken' \in [Attempts -> 0..MaxWrites]
    <3>1. taken[n] + 1 \in 0..MaxWrites
      BY <2>4 DEF StepDone, AttemptInv, ThreadInv
    <3> QED
      BY <2>4, <3>1 DEF StepDone, ThreadMoves
  <2>5. CASE Restarts
    BY <2>5 DEF Restarts
  <2> QED
    BY <2>1, <2>2, <2>3, <2>4, <2>5 DEF HNext, Goes, Writes, Transcripts, hvars, threads,
       Start, Fetched, Fails, Refused, PutsRecord, RefusesRecord, FindsRecordsBusy, SavesBusy,
       Appends, CommitsAppend, CommitRefused, Saves, EndsSaved, NoBudget, Deadline,
       RecordsFailure, StopAccepting, ShutdownMarks
<1>5. /\ stage' \in {"fetching", "acquiring", "ingesting", "idle", "writing", "appended",
                     "busy", "saved", "failing"}
      /\ phase' \in {"up", "stopping", "closing"}
  BY <1>d DEF HNext, Goes, Writes, Transcripts, Thread, hvars, Ends,
     Start, Fetched, Fails, Refused, PutsRecord, RefusesRecord, FindsRecordsBusy, SavesBusy,
     Appends, CommitsAppend, CommitRefused, Saves, EndsSaved, BeginsTranscripts, NoBudget,
     StepReturns, Deadline, RecordsFailure, ThreadBegins, ThreadHands, StepRuns, StepDone,
     ThreadEnds, StopAccepting, ShutdownMarks, Restarts
<1> QED
  BY <1>1, <1>2, <1>3, <1>4, <1>5 DEF HTypeOK, Bounded

-----------------------------------------------------------------------------

\* The invariant holds in every reachable state.
THEOREM AttemptInvariance == HSpec => []AttemptInv
<1>1. AttemptInv /\ [HNext]_(hvars) => AttemptInv'
  BY TypeStep, StampStep, LedgerStep, ThreadStep DEF AttemptInv
<1> QED
  BY AttemptInit, <1>1, PTL DEF HSpec

\* The types, for any provider and any number of attempts: among them that the
\* success kept in reserve is never later than the one shown.
THEOREM AttemptTypeCorrect == HSpec => []HTypeOK
<1>1. AttemptInv => HTypeOK
  BY DEF AttemptInv
<1> QED
  BY AttemptInvariance, <1>1, PTL

\* No event the position passed is missing from the ledger, unless refused.
THEOREM NothingIsSkipped == HSpec => []PositionIsBacked
<1>1. AttemptInv => PositionIsBacked
  BY DEF AttemptInv, LedgerInv
<1> QED
  BY AttemptInvariance, <1>1, PTL

\* Every line of the ledger cites a meeting that has a record.
THEOREM CitationsResolve == HSpec => []CitesARecord
<1>1. AttemptInv => CitesARecord
  BY DEF AttemptInv, LedgerInv
<1> QED
  BY AttemptInvariance, <1>1, PTL

\* A second line of an event comes from an append whose commit was refused or
\* killed, one each.
THEOREM DuplicatesAreTorn == HSpec => []OneLinePerEvent
<1>1. AttemptInv => OneLinePerEvent
  BY DEF AttemptInv, HTypeOK, LedgerInv, OneLinePerEvent
<1> QED
  BY AttemptInvariance, <1>1, PTL

\* A failed attempt is never shown as one that worked.
THEOREM FailureIsShown == HSpec => []NoSuccessOfFailed
<1>1. AttemptInv => NoSuccessOfFailed
  BY DEF AttemptInv, StampInv
<1> QED
  BY AttemptInvariance, <1>1, PTL

\* A thread that was abandoned writes nothing once its attempt is over.
THEOREM AbandonedIsHarmless == HSpec => AbandonedNeverWritesAgain
<1>1. ASSUME AttemptInv, [HNext]_(hvars), NEW n \in Attempts, taken'[n] > taken[n]
      PROVE  \/ n = attempt /\ (stage # "idle" \/ phase # "up")
             \/ n \in late \ abandoned
  <2>1. thread[n] = "executing"
    <3>1. taken \in [Attempts -> 0..MaxWrites] /\ MaxWrites \in Nat
      BY <1>1, BoundsAssumption DEF AttemptInv, HTypeOK
    <3>2. taken' # taken /\ taken' # [m \in Attempts |-> 0]
      BY <1>1, <3>1
    <3>3. PICK m \in Attempts : StepDone(m)
      BY <1>1, <3>2 DEF HNext, Goes, Writes, Transcripts, Thread, hvars, threads,
         Start, Fetched, Fails, Refused, PutsRecord, RefusesRecord, FindsRecordsBusy, SavesBusy,
         Appends, CommitsAppend, CommitRefused, Saves, EndsSaved, BeginsTranscripts, NoBudget,
         StepReturns, Deadline, RecordsFailure, ThreadBegins, ThreadHands, StepRuns, ThreadEnds,
         StopAccepting, ShutdownMarks, Restarts
    <3> QED
      BY <1>1, <3>1, <3>3 DEF StepDone
  <2> QED
    BY <1>1, <2>1 DEF AttemptInv, ThreadInv, Active
<1>2. AttemptInv /\ [HNext]_(hvars) =>
        [\A n \in Attempts : taken'[n] > taken[n] =>
            \/ n = attempt /\ (stage # "idle" \/ phase # "up")
            \/ n \in late \ abandoned]_(hvars)
  BY <1>1
<1> QED
  BY AttemptInvariance, <1>2, PTL DEF HSpec, AbandonedNeverWritesAgain

=============================================================================
