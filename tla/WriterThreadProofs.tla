------------------------- MODULE WriterThreadProofs -------------------------
(***************************************************************************)
(* Proofs about WriterThread, for any set of steps.  The inductive         *)
(* invariant says where a step can be: not handed over, queued and         *)
(* untouched, in the thread's hands, or settled -- and what each of these  *)
(* means for its answer, its caller and its transaction.                   *)
(***************************************************************************)
EXTENDS WriterThread, TLAPS

(***************************************************************************)
(* Removing one element of a sequence.                                     *)
(***************************************************************************)

\* A withdrawn step leaves the queue: the steps before it keep their place, the
\* ones behind it move up one.
LEMMA RemoveAtFacts ==
    ASSUME NEW S, NEW q \in Seq(S), NEW i \in 1..Len(q)
    PROVE  /\ RemoveAt(q, i) \in Seq(S)
           /\ Len(RemoveAt(q, i)) = Len(q) - 1
           /\ \A j \in 1..(Len(q) - 1) :
                 RemoveAt(q, i)[j] = IF j < i THEN q[j] ELSE q[j + 1]
<1> DEFINE front == SubSeq(q, 1, i - 1)
           back  == SubSeq(q, i + 1, Len(q))
<1>1. front \in Seq(S) /\ Len(front) = i - 1
      /\ \A j \in 1..(i - 1) : front[j] = q[j]
  OBVIOUS
<1>2. back \in Seq(S) /\ Len(back) = Len(q) - i
      /\ \A j \in 1..(Len(q) - i) : back[j] = q[i + j]
  OBVIOUS
<1>3. RemoveAt(q, i) = front \o back
  BY DEF RemoveAt
<1> HIDE DEF front, back
<1>4. front \o back \in Seq(S) /\ Len(front \o back) = Len(q) - 1
  BY <1>1, <1>2
<1>5. ASSUME NEW j \in 1..(Len(q) - 1)
      PROVE  (front \o back)[j] = IF j < i THEN q[j] ELSE q[j + 1]
  <2>1. CASE j < i
    BY <2>1, <1>1, <1>2
  <2>2. CASE ~(j < i)
    <3>1. (front \o back)[j] = back[j - (i - 1)]
      BY <2>2, <1>1, <1>2
    <3>2. j - (i - 1) \in 1..(Len(q) - i) /\ i + (j - (i - 1)) = j + 1
      BY <2>2
    <3> QED
      BY <1>2, <2>2, <3>1, <3>2
  <2> QED
    BY <2>1, <2>2
<1> QED
  BY <1>3, <1>4, <1>5

-----------------------------------------------------------------------------
(* The inductive invariant.                                                *)

\* What is queued was handed over, has not begun and is still waited for; no
\* step is queued twice.
QueueInv ==
    /\ \A i \in 1..Len(queue) :
          /\ caller[queue[i]] = "waits" /\ kind[queue[i]] # "none"
          /\ ~started[queue[i]]
          /\ done[queue[i]] = "unset"
    /\ \A i, j \in 1..Len(queue) : queue[i] = queue[j] => i = j

\* The shutdown's steps come behind every ordinary one, and once one is handed
\* over no ordinary one is accepted.
OrderInv ==
    /\ \A i, j \in 1..Len(queue) :
          kind[queue[i]] = "shutdown" /\ kind[queue[j]] = "ordinary" => j < i
    /\ \A i \in 1..Len(queue) : kind[queue[i]] = "shutdown" => stopping

\* The thread is in a step exactly when it has one; that step has begun, is not
\* answered, and the writer has not halted.
ThreadInv ==
    /\ (thread = "in step") <=> (current \in Steps)
    /\ current \in Steps =>
          /\ started[current] /\ done[current] = "unset"
          /\ tx[current] \in {"none", "open"}
          /\ ~halted

\* A step that has not begun touched nothing and can only have been refused; a
\* transaction is open only in the thread's hands or stuck, under the write
\* lock and at the version the daemon opened.
StepInv ==
    \A s \in Steps :
       /\ ~started[s] => tx[s] = "none" /\ done[s] \in {"unset", "stopped"}
       /\ caller[s] = "new" => ~started[s] /\ done[s] = "unset"
       /\ caller[s] = "busy" => ~started[s]
       /\ started[s] /\ done[s] = "unset" => s = current
       /\ tx[s] = "open" => s = current /\ lock = "daemon" /\ version = "opened"

IInv == TypeOK /\ QueueInv /\ OrderInv /\ ThreadInv /\ StepInv /\ AnswerAgreesWithStore
-----------------------------------------------------------------------------

\* The invariant holds in the initial state.
LEMMA InitEstablishes == Init => IInv
<1> SUFFICES ASSUME Init PROVE IInv
  OBVIOUS
<1> USE DEF Init
<1>a. queue \in Seq(Steps) /\ current \in Steps \cup {NoStep}
  OBVIOUS
<1>b. /\ kind \in [Steps -> Kinds \cup {"none"}]
      /\ mode \in [Steps -> Modes \cup {"none"}]
      /\ started \in [Steps -> BOOLEAN]
  OBVIOUS
<1>c. /\ done \in [Steps -> Answer \cup {"unset"}]
      /\ caller \in [Steps -> Told \cup {"new", "waits"}]
      /\ tx \in [Steps -> {"none", "open", "committed", "undone", "stuck"}]
  OBVIOUS
<1>1. TypeOK
  BY <1>a, <1>b, <1>c DEF TypeOK
<1>2. QueueInv /\ OrderInv
  BY DEF QueueInv, OrderInv
<1>3. ThreadInv /\ StepInv
  BY StepsAssumption DEF ThreadInv, StepInv
<1>4. AnswerAgreesWithStore
  BY DEF AnswerAgreesWithStore, Answer
<1> QED
  BY <1>1, <1>2, <1>3, <1>4 DEF IInv

\* What is left of the queue after a withdrawal: the same steps in the same
\* order, without the one withdrawn.
LEMMA WithdrawFacts ==
    ASSUME TypeOK, QueueInv, OrderInv, NEW s \in Steps, Withdraw(s)
    PROVE  /\ queue' \in Seq(Steps)
           /\ \E place \in [1..Len(queue') -> 1..Len(queue)] :
                 /\ \A j \in 1..Len(queue') :
                       queue'[j] = queue[place[j]] /\ queue'[j] # s
                 /\ \A j, l \in 1..Len(queue') : j < l <=> place[j] < place[l]
<1>a. queue \in Seq(Steps) /\ DOMAIN queue = 1..Len(queue) /\ Len(queue) \in Nat
  <2>1. queue \in Seq(Steps)
    BY DEF TypeOK
  <2> QED
    BY <2>1
<1>1. CASE s \in Queued
  <2>1. PICK k \in 1..Len(queue) : queue[k] = s /\ queue' = RemoveAt(queue, k)
    <3>1. PICK k \in DOMAIN queue : queue[k] = s /\ queue' = RemoveAt(queue, k)
      BY <1>1 DEF Withdraw, Queued
    <3> QED
      BY <1>a, <3>1
  <2>2. /\ queue' \in Seq(Steps)
        /\ Len(queue') = Len(queue) - 1
        /\ \A j \in 1..(Len(queue) - 1) :
              queue'[j] = IF j < k THEN queue[j] ELSE queue[j + 1]
    BY <1>a, <2>1, RemoveAtFacts
  <2> DEFINE place == [j \in 1..Len(queue') |-> IF j < k THEN j ELSE j + 1]
  <2>3. place \in [1..Len(queue') -> 1..Len(queue)]
    BY <1>a, <2>2
  <2>4. \A j \in 1..Len(queue') : queue'[j] = queue[place[j]] /\ place[j] # k
    BY <1>a, <2>2
  <2>5. \A j \in 1..Len(queue') : queue'[j] # s
    BY <1>a, <2>1, <2>3, <2>4 DEF QueueInv
  <2>6. \A j, l \in 1..Len(queue') : j < l <=> place[j] < place[l]
    BY <1>a, <2>2
  <2> HIDE DEF place
  <2> QED
    BY <2>2, <2>3, <2>4, <2>5, <2>6
<1>2. CASE s \notin Queued
  <2>1. queue' = queue
    BY <1>2 DEF Withdraw
  <2>2. \A j \in 1..Len(queue) : queue[j] # s
    BY <1>2, <1>a DEF Queued
  <2> DEFINE place == [j \in 1..Len(queue') |-> j]
  <2>3. place \in [1..Len(queue') -> 1..Len(queue)]
    BY <1>a, <2>1
  <2>4. \A j \in 1..Len(queue') : queue'[j] = queue[place[j]] /\ queue'[j] # s
    BY <2>1, <2>2
  <2>5. \A j, l \in 1..Len(queue') : j < l <=> place[j] < place[l]
    BY <2>1
  <2> HIDE DEF place
  <2> QED
    BY <1>a, <2>1, <2>3, <2>4, <2>5
<1> QED
  BY <1>1, <1>2

\* Removing a step from the queue keeps what the queue promises.
LEMMA WithdrawKeepsQueue ==
    ASSUME IInv, NEW s \in Steps, Withdraw(s),
           UNCHANGED <<flags, kind, started, done>>,
           \A t \in Steps : t # s => caller'[t] = caller[t]
    PROVE  queue' \in Seq(Steps) /\ QueueInv' /\ OrderInv'
<1>a. TypeOK /\ QueueInv /\ OrderInv
  BY DEF IInv
<1>1. PICK place \in [1..Len(queue') -> 1..Len(queue)] :
          /\ \A j \in 1..Len(queue') : queue'[j] = queue[place[j]] /\ queue'[j] # s
          /\ \A j, l \in 1..Len(queue') : j < l <=> place[j] < place[l]
  BY <1>a, WithdrawFacts
<1>2. queue' \in Seq(Steps)
  BY <1>a, WithdrawFacts
<1>b. queue \in Seq(Steps) /\ \A j \in 1..Len(queue) : queue[j] \in Steps
  <2>1. queue \in Seq(Steps)
    BY <1>a DEF TypeOK
  <2> QED
    BY <2>1
<1>3. Len(queue') \in Nat /\ \A j \in 1..Len(queue') : place[j] \in 1..Len(queue)
  BY <1>1, <1>2
<1>4. \A j \in 1..Len(queue') :
         /\ caller'[queue'[j]] = "waits" /\ kind'[queue'[j]] # "none"
         /\ ~started'[queue'[j]] /\ done'[queue'[j]] = "unset"
  BY <1>a, <1>b, <1>1, <1>2, <1>3 DEF QueueInv
<1>5. \A j, l \in 1..Len(queue') : queue'[j] = queue'[l] => j = l
  <2> SUFFICES ASSUME NEW j \in 1..Len(queue'), NEW l \in 1..Len(queue'),
                      queue'[j] = queue'[l]
               PROVE  j = l
    OBVIOUS
  <2>1. place[j] = place[l]
    BY <1>a, <1>1, <1>3 DEF QueueInv
  <2> QED
    BY <1>1, <1>2, <1>3, <2>1
<1>6. OrderInv'
  <2>1. \A j, l \in 1..Len(queue') :
            kind'[queue'[j]] = "shutdown" /\ kind'[queue'[l]] = "ordinary" => l < j
    BY <1>a, <1>1, <1>2, <1>3 DEF OrderInv
  <2>2. \A j \in 1..Len(queue') : kind'[queue'[j]] = "shutdown" => stopping'
    BY <1>a, <1>1, <1>3 DEF OrderInv, flags
  <2> QED
    BY <2>1, <2>2 DEF OrderInv
<1> QED
  BY <1>2, <1>4, <1>5, <1>6 DEF QueueInv

-----------------------------------------------------------------------------
(* One lemma per action.                                                   *)

\* What every step of the proof needs to know of the queue.
LEMMA QueueTyped ==
    ASSUME TypeOK
    PROVE  /\ queue \in Seq(Steps) /\ Len(queue) \in Nat
           /\ DOMAIN queue = 1..Len(queue)
           /\ \A i \in 1..Len(queue) : queue[i] \in Steps
<1>1. queue \in Seq(Steps)
  BY DEF TypeOK
<1> QED
  BY <1>1

\* The words a step and its caller are answered with.
LEMMA Vocabulary ==
    /\ {"value", "error", "stopped"} = Answer
    /\ Answer \subseteq Told /\ "busy" \in Told /\ "cancelled" \in Told
    /\ "unset" \notin Answer /\ "new" \notin Told /\ "waits" \notin Told
  BY DEF Answer, Told

LEMMA HandOverKeeps ==
    ASSUME IInv, NEW s \in Steps, NEW k \in Kinds, NEW m \in Modes, HandOver(s, k, m)
    PROVE  IInv'
<1>i. TypeOK /\ QueueInv /\ OrderInv /\ ThreadInv /\ StepInv /\ AnswerAgreesWithStore
  BY DEF IInv
<1>q. /\ queue \in Seq(Steps) /\ Len(queue) \in Nat
      /\ \A i \in 1..Len(queue) : queue[i] \in Steps /\ queue[i] # s
  BY <1>i, QueueTyped DEF QueueInv, HandOver
<1>w. k # "none" /\ "stopped" \in Answer /\ "stopped" \in Told /\ "waits" \notin Told
  BY KindsAssumption, Vocabulary DEF StepKind
<1>u. UNCHANGED <<stopping, closing, closed, halted, thread, current, started, tx,
                 lock, version>>
  BY DEF HandOver, flags, store
<1>e. /\ kind' = [kind EXCEPT ![s] = k] /\ mode' = [mode EXCEPT ![s] = m]
      /\ \A t \in Steps : kind'[t] = IF t = s THEN k ELSE kind[t]
  BY <1>i DEF HandOver, TypeOK
<1>n. /\ caller[s] = "new" /\ ~started[s] /\ done[s] = "unset" /\ tx[s] = "none"
      /\ k = "shutdown" => stopping
  BY <1>i DEF HandOver, StepInv
<1>1. CASE Refuses(k)
  <2>e. /\ queue' = queue
        /\ done' = [done EXCEPT ![s] = "stopped"]
        /\ caller' = [caller EXCEPT ![s] = "stopped"]
        /\ \A t \in Steps : /\ done'[t] = IF t = s THEN "stopped" ELSE done[t]
                            /\ caller'[t] = IF t = s THEN "stopped" ELSE caller[t]
    <3>1. /\ queue' = queue
          /\ done' = [done EXCEPT ![s] = "stopped"]
          /\ caller' = [caller EXCEPT ![s] = "stopped"]
      BY <1>1 DEF HandOver
    <3>2. /\ done \in [Steps -> Answer \cup {"unset"}]
          /\ caller \in [Steps -> Told \cup {"new", "waits"}]
      BY <1>i DEF TypeOK
    <3> QED
      BY <3>1, <3>2
  <2>1. TypeOK'
    BY <1>i, <1>w, <1>u, <1>e, <2>e DEF TypeOK
  <2>2. QueueInv' /\ OrderInv'
    BY <1>i, <1>q, <1>u, <1>e, <2>e DEF QueueInv, OrderInv
  <2>3. ThreadInv'
    BY <1>i, <1>n, <1>u, <2>e DEF ThreadInv
  <2>5. StepInv'
    BY <1>i, <1>n, <1>u, <2>e DEF StepInv
  <2>4. AnswerAgreesWithStore'
    BY <1>i, <1>n, <1>u, <2>e DEF AnswerAgreesWithStore
  <2> QED
    BY <2>1, <2>2, <2>3, <2>4, <2>5 DEF IInv
<1>2. CASE ~Refuses(k)
  <2>e. /\ queue' = Append(queue, s) /\ done' = done
        /\ caller' = [caller EXCEPT ![s] = "waits"]
        /\ \A t \in Steps : caller'[t] = IF t = s THEN "waits" ELSE caller[t]
    BY <1>2, <1>i DEF HandOver, TypeOK
  <2>1. TypeOK'
    <3>1. queue' \in Seq(Steps)
      BY <1>q, <2>e
    <3> QED
      BY <3>1, <1>i, <1>u, <1>e, <2>e DEF TypeOK
  <2>2. /\ Len(queue') = Len(queue) + 1 /\ queue'[Len(queue) + 1] = s
        /\ \A i \in 1..Len(queue) : queue'[i] = queue[i]
    BY <2>e, <1>q
  <2>3. QueueInv'
    BY <1>i, <1>q, <1>w, <1>n, <1>u, <1>e, <2>e, <2>2 DEF QueueInv
  <2>4. OrderInv'
    <3>1. k = "ordinary" => ~stopping
      BY <1>2 DEF Refuses
    <3>2. Len(queue) \in Nat /\ Len(queue') = Len(queue) + 1
      BY <1>q, <2>2
    <3>3. /\ kind'[queue'[Len(queue) + 1]] = k
          /\ \A i \in 1..Len(queue) : kind'[queue'[i]] = kind[queue[i]]
      BY <1>q, <1>e, <2>2, <1>i, <1>n DEF QueueInv
    <3>4. (k = "shutdown" => stopping) /\ UNCHANGED stopping
      BY <1>n, <1>u
    <3>5. OrderInv
      BY <1>i
    <3> QED
      BY <3>1, <3>2, <3>3, <3>4, <3>5 DEF OrderInv
  <2>5. ThreadInv'
    BY <1>i, <1>n, <1>u, <2>e DEF ThreadInv
  <2>7. StepInv'
    BY <1>i, <1>n, <1>u, <2>e DEF StepInv
  <2>6. AnswerAgreesWithStore'
    BY <1>i, <1>w, <1>u, <2>e, Vocabulary DEF AnswerAgreesWithStore
  <2> QED
    BY <2>1, <2>3, <2>4, <2>5, <2>6, <2>7 DEF IInv
<1> QED
  BY <1>1, <1>2

\* A caller that stops waiting: the step is out of the queue, or goes on alone.
LEMMA StopsWaitingKeeps ==
    ASSUME IInv, NEW s \in Steps, NEW word \in {"busy", "cancelled"},
           caller[s] = "waits",
           caller' = [caller EXCEPT ![s] = word],
           \/ ~started[s] /\ Withdraw(s)
           \/ started[s] /\ word = "cancelled" /\ queue' = queue,
           UNCHANGED <<stopping, closing, closed, halted, thread, current, kind,
                       mode, started, done, tx, lock, version>>
    PROVE  IInv'
<1>i. TypeOK /\ QueueInv /\ OrderInv /\ ThreadInv /\ StepInv /\ AnswerAgreesWithStore
  BY DEF IInv
<1>w. word \in Told /\ word \notin Answer /\ word # "new"
  BY DEF Told, Answer
<1>e. \A t \in Steps : caller'[t] = IF t = s THEN word ELSE caller[t]
  BY <1>i DEF TypeOK
<1>1. queue' \in Seq(Steps) /\ QueueInv' /\ OrderInv'
  <2>1. CASE ~started[s] /\ Withdraw(s)
    <3>1. UNCHANGED <<flags, kind, started, done>>
      BY DEF flags
    <3> QED
      BY <2>1, <3>1, <1>e, WithdrawKeepsQueue
  <2>2. CASE started[s] /\ queue' = queue
    <3>1. queue \in Seq(Steps) /\ \A i \in 1..Len(queue) : queue[i] \in Steps /\ queue[i] # s
      BY <2>2, <1>i, QueueTyped DEF QueueInv
    <3> QED
      BY <2>2, <3>1, <1>i, <1>e DEF QueueInv, OrderInv
  <2> QED
    BY <2>1, <2>2
<1>2. TypeOK'
  BY <1>i, <1>w, <1>1 DEF TypeOK
<1>3. ThreadInv'
  BY <1>i DEF ThreadInv
<1>4. StepInv'
  BY <1>i, <1>e, <1>w DEF StepInv
<1>5. AnswerAgreesWithStore'
  BY <1>i, <1>e, <1>w DEF AnswerAgreesWithStore
<1> QED
  BY <1>1, <1>2, <1>3, <1>4, <1>5 DEF IInv

LEMMA TakesAnswerKeeps ==
    ASSUME IInv, NEW s \in Steps, TakesAnswer(s)
    PROVE  IInv'
<1>i. TypeOK /\ QueueInv /\ OrderInv /\ ThreadInv /\ StepInv /\ AnswerAgreesWithStore
  BY DEF IInv
<1>u. UNCHANGED <<stopping, closing, closed, halted, queue, thread, current, kind,
                  mode, started, done, tx, lock, version>>
  BY DEF TakesAnswer, flags, store
<1>w. done[s] \in Answer /\ done[s] \in Told /\ done[s] # "new" /\ done[s] # "busy"
  BY <1>i DEF TakesAnswer, TypeOK, Told, Answer
<1>e. /\ caller' = [caller EXCEPT ![s] = done[s]]
      /\ \A t \in Steps : caller'[t] = IF t = s THEN done[s] ELSE caller[t]
  BY <1>i DEF TakesAnswer, TypeOK
<1>q. queue \in Seq(Steps) /\ \A i \in 1..Len(queue) : queue[i] \in Steps /\ queue[i] # s
  BY <1>i, QueueTyped DEF QueueInv, TakesAnswer
<1>1. TypeOK'
  BY <1>i, <1>u, <1>w, <1>e DEF TypeOK
<1>2. QueueInv' /\ OrderInv'
  BY <1>i, <1>u, <1>e, <1>q DEF QueueInv, OrderInv
<1>3. ThreadInv'
  BY <1>i, <1>u DEF ThreadInv
<1>4. StepInv'
  BY <1>i, <1>u, <1>e, <1>w DEF StepInv
<1>5. AnswerAgreesWithStore'
  BY <1>i, <1>u, <1>e DEF AnswerAgreesWithStore
<1> QED
  BY <1>1, <1>2, <1>3, <1>4, <1>5 DEF IInv

LEMMA PopKeeps ==
    ASSUME IInv, Pop
    PROVE  IInv'
<1> DEFINE s == Head(queue)
<1>i. TypeOK /\ QueueInv /\ OrderInv /\ ThreadInv /\ StepInv /\ AnswerAgreesWithStore
  BY DEF IInv
<1>a. queue \in Seq(Steps) /\ queue # <<>>
  BY <1>i DEF TypeOK, Pop
<1>q. /\ s = queue[1] /\ s \in Steps /\ queue' = Tail(queue) /\ queue' \in Seq(Steps)
      /\ Len(queue) \in Nat /\ Len(queue) >= 1 /\ Len(queue') = Len(queue) - 1
      /\ \A i \in 1..Len(queue') : queue'[i] = queue[i + 1]
      /\ \A i \in 1..Len(queue) : queue[i] \in Steps
  <2>1. queue' = Tail(queue)
    BY DEF Pop
  <2> QED
    BY <1>a, <2>1
<1>n. \A i \in 1..Len(queue') : queue'[i] \in Steps /\ queue'[i] # s
  <2> SUFFICES ASSUME NEW i \in 1..Len(queue') PROVE queue'[i] \in Steps /\ queue'[i] # s
    OBVIOUS
  <2>1. i + 1 \in 1..Len(queue) /\ 1 \in 1..Len(queue) /\ i + 1 # 1
    BY <1>q
  <2> QED
    BY <1>i, <1>q, <2>1 DEF QueueInv
<1>h. caller[s] = "waits" /\ ~started[s] /\ done[s] = "unset" /\ tx[s] = "none"
  BY <1>i, <1>q DEF QueueInv, StepInv
<1>u. UNCHANGED <<stopping, closing, closed, halted, kind, mode, caller, tx, lock,
                  version>>
  BY DEF Pop, flags, store
<1>e. /\ started' = [started EXCEPT ![s] = TRUE]
      /\ \A t \in Steps : started'[t] = IF t = s THEN TRUE ELSE started[t]
  BY <1>i DEF Pop, TypeOK
<1>t. thread = "waiting" /\ current = NoStep /\ NoStep \notin Steps
  BY <1>i, StepsAssumption DEF Pop, ThreadInv, TypeOK
<1> HIDE DEF s
<1>d. /\ \A i, j \in 1..Len(queue') : queue'[i] = queue'[j] => i = j
      /\ \A i \in 1..Len(queue') :
            /\ caller[queue'[i]] = "waits" /\ kind[queue'[i]] # "none"
            /\ ~started[queue'[i]] /\ done[queue'[i]] = "unset"
  <2>1. \A i \in 1..Len(queue') : i + 1 \in 1..Len(queue) /\ i \in Nat
    BY <1>q
  <2> QED
    BY <1>i, <1>q, <2>1 DEF QueueInv
<1>o. OrderInv'
  <2>1. \A i \in 1..Len(queue') : i + 1 \in 1..Len(queue)
    BY <1>q
  <2> QED
    BY <1>i, <1>q, <1>u, <2>1 DEF OrderInv
<1>1. CASE halted
  <2>e. /\ done' = [done EXCEPT ![s] = "stopped"] /\ thread' = thread /\ current' = current
        /\ \A t \in Steps : done'[t] = IF t = s THEN "stopped" ELSE done[t]
    BY <1>1, <1>i DEF Pop, TypeOK, s
  <2>1. TypeOK'
    BY <1>i, <1>q, <1>u, <1>e, <2>e, Vocabulary DEF TypeOK
  <2>2. QueueInv'
    BY <1>d, <1>n, <1>u, <1>e, <2>e DEF QueueInv
  <2>3. ThreadInv'
    BY <1>t, <2>e DEF ThreadInv
  <2>4. StepInv'
    BY <1>i, <1>q, <1>h, <1>u, <1>e, <1>t, <2>e DEF StepInv
  <2>5. AnswerAgreesWithStore'
    BY <1>i, <1>h, <1>u, <2>e, Vocabulary DEF AnswerAgreesWithStore
  <2> QED
    BY <1>o, <2>1, <2>2, <2>3, <2>4, <2>5 DEF IInv
<1>2. CASE ~halted
  <2>e. done' = done /\ thread' = "in step" /\ current' = s
    BY <1>2 DEF Pop, s
  <2>1. TypeOK'
    BY <1>i, <1>q, <1>u, <1>e, <2>e DEF TypeOK
  <2>2. QueueInv'
    BY <1>d, <1>n, <1>u, <1>e, <2>e DEF QueueInv
  <2>3. ThreadInv'
    BY <1>2, <1>q, <1>h, <1>u, <1>e, <2>e DEF ThreadInv
  <2>4. StepInv'
    BY <1>i, <1>q, <1>h, <1>u, <1>e, <1>t, <2>e DEF StepInv
  <2>5. AnswerAgreesWithStore'
    BY <1>i, <1>u, <2>e DEF AnswerAgreesWithStore
  <2> QED
    BY <1>o, <2>1, <2>2, <2>3, <2>4, <2>5 DEF IInv
<1> QED
  BY <1>1, <1>2

\* Opening the transaction: the write lock is free, so no other is open.
LEMMA OpensKeeps ==
    ASSUME IInv, Opens
    PROVE  IInv'
<1>i. TypeOK /\ QueueInv /\ OrderInv /\ ThreadInv /\ StepInv /\ AnswerAgreesWithStore
  BY DEF IInv
<1>u. UNCHANGED <<stopping, closing, closed, halted, queue, thread, current, kind,
                  mode, started, done, caller, version>>
  BY DEF Opens, flags
<1>t. current \in Steps /\ started[current] /\ done[current] = "unset" /\ version = "opened"
  BY <1>i DEF Opens, ThreadInv
<1>e. /\ tx' = [tx EXCEPT ![current] = "open"] /\ lock' = "daemon" /\ lock = "free"
      /\ \A t \in Steps : tx'[t] = IF t = current THEN "open" ELSE tx[t]
  BY <1>i DEF Opens, TypeOK
<1>1. TypeOK'
  BY <1>i, <1>u, <1>e DEF TypeOK
<1>2. QueueInv' /\ OrderInv'
  BY <1>i, <1>u DEF QueueInv, OrderInv
<1>3. ThreadInv'
  BY <1>i, <1>u, <1>e, <1>t DEF ThreadInv
<1>4. StepInv'
  BY <1>i, <1>u, <1>e, <1>t DEF StepInv
<1>5. AnswerAgreesWithStore'
  BY <1>i, <1>u, <1>e, <1>t DEF AnswerAgreesWithStore
<1> QED
  BY <1>1, <1>2, <1>3, <1>4, <1>5 DEF IInv

\* The end of a step, whatever became of its transaction.
LEMMA EndsKeeps ==
    ASSUME IInv, thread = "in step",
           NEW answer \in {"value", "error"}, NEW halts \in BOOLEAN, Ends(answer, halts),
           NEW w \in {"none", "committed", "undone", "stuck"},
           tx' = [tx EXCEPT ![current] = w],
           answer = "value" => w \in {"none", "committed"},
           answer = "error" => w \in {"none", "undone", "stuck"},
           lock' \in {"free", lock}, version' = version
    PROVE  IInv'
<1>i. TypeOK /\ QueueInv /\ OrderInv /\ ThreadInv /\ StepInv /\ AnswerAgreesWithStore
  BY DEF IInv
<1>u. UNCHANGED <<stopping, closing, closed, queue, kind, mode, started, caller>>
  BY DEF Ends, flags
<1>t. current \in Steps /\ started[current] /\ done[current] = "unset"
  BY <1>i DEF ThreadInv
<1>e. /\ thread' = "waiting" /\ current' = NoStep
      /\ done' = [done EXCEPT ![current] = answer] /\ halted' \in BOOLEAN
      /\ \A t \in Steps : /\ done'[t] = IF t = current THEN answer ELSE done[t]
                          /\ tx'[t] = IF t = current THEN w ELSE tx[t]
  BY <1>i DEF Ends, TypeOK
<1>w. answer \in Answer /\ answer # "unset" /\ answer # "stopped"
  BY DEF Answer
<1>q. queue \in Seq(Steps) /\ \A i \in 1..Len(queue) : queue[i] \in Steps /\ queue[i] # current
  BY <1>i, <1>t, QueueTyped DEF QueueInv
<1>1. TypeOK'
  BY <1>i, <1>u, <1>e, <1>w DEF TypeOK
<1>2. QueueInv'
  <2>1. \A i \in 1..Len(queue) : done'[queue[i]] = done[queue[i]]
    BY <1>e, <1>q
  <2> QED
    BY <1>i, <1>u, <2>1 DEF QueueInv
<1>6. OrderInv'
  BY <1>i, <1>u DEF OrderInv
<1>3. ThreadInv'
  BY <1>e, StepsAssumption DEF ThreadInv
<1>4. StepInv'
  <2> SUFFICES ASSUME NEW s \in Steps
               PROVE  /\ ~started'[s] => tx'[s] = "none" /\ done'[s] \in {"unset", "stopped"}
                      /\ caller'[s] = "new" => ~started'[s] /\ done'[s] = "unset"
                      /\ caller'[s] = "busy" => ~started'[s]
                      /\ started'[s] /\ done'[s] = "unset" => s = current'
                      /\ tx'[s] = "open" => s = current' /\ lock' = "daemon" /\ version' = "opened"
    BY DEF StepInv
  <2>1. /\ ~started[s] => tx[s] = "none" /\ done[s] \in {"unset", "stopped"}
        /\ caller[s] = "new" => ~started[s] /\ done[s] = "unset"
        /\ caller[s] = "busy" => ~started[s]
        /\ started[s] /\ done[s] = "unset" => s = current
        /\ tx[s] = "open" => s = current
    BY <1>i DEF StepInv
  <2>2. UNCHANGED <<started, caller>>
    BY <1>u
  <2>3. CASE s = current
    <3>1. done'[s] = answer /\ tx'[s] = w /\ started[s]
      BY <1>e, <1>t, <2>3
    <3>2. caller[s] # "new" /\ caller[s] # "busy"
      BY <2>1, <3>1
    <3> QED
      BY <1>w, <2>2, <3>1, <3>2
  <2>4. CASE s # current
    <3>1. done'[s] = done[s] /\ tx'[s] = tx[s]
      BY <1>e, <2>4
    <3> QED
      BY <2>1, <2>2, <2>4, <3>1
  <2> QED
    BY <2>3, <2>4
<1>5. AnswerAgreesWithStore'
  <2>1. \A t \in Steps : caller[t] \in Answer \ {"stopped"} => t # current
    BY <1>i, <1>t, Vocabulary DEF AnswerAgreesWithStore
  <2>2. /\ answer = "value" => w \in {"none", "committed"}
        /\ answer = "error" => w \in {"none", "undone", "stuck"}
        /\ answer # "stopped" /\ UNCHANGED caller
    BY <1>u, <1>w
  <2>3. ASSUME NEW t \in Steps
        PROVE  /\ done'[t] = "value" => tx'[t] \in {"none", "committed"}
               /\ done'[t] = "error" => tx'[t] \in {"none", "undone", "stuck"}
               /\ done'[t] = "stopped" => tx'[t] = "none"
               /\ caller'[t] \in Answer \ {"stopped"} => done'[t] = caller'[t]
    <3>1. CASE t = current
      BY <1>e, <2>1, <2>2, <3>1
    <3>2. CASE t # current
      BY <1>e, <1>i, <2>2, <3>2 DEF AnswerAgreesWithStore
    <3> QED
      BY <3>1, <3>2
  <2> QED
    BY <2>3 DEF AnswerAgreesWithStore
<1> QED
  BY <1>1, <1>2, <1>3, <1>4, <1>5, <1>6 DEF IInv

LEMMA RunsStepKeeps ==
    ASSUME IInv, RunsStep
    PROVE  IInv'
<1>i. TypeOK /\ ThreadInv
  BY DEF IInv
<1>c. thread = "in step" => current \in Steps
  BY <1>i DEF ThreadInv
<1>n. ASSUME thread = "in step", tx[current] = "none", UNCHANGED <<tx, store>>
      PROVE  /\ tx' = [tx EXCEPT ![current] = "none"]
             /\ lock' = lock /\ version' = version
  BY <1>n, <1>i, <1>c DEF TypeOK, store
<1>1. CASE Opens
  BY <1>1, OpensKeeps
<1>2. CASE FindsVersionMoved
  BY <1>2, <1>n, EndsKeeps DEF FindsVersionMoved
<1>3. CASE RaisesUnopened
  BY <1>3, <1>n, EndsKeeps DEF RaisesUnopened
<1>4. CASE ReturnsUnopened
  BY <1>4, <1>n, EndsKeeps DEF ReturnsUnopened
<1>5. CASE Commits
  BY <1>5, EndsKeeps DEF Commits
<1>6. CASE RollsBack
  BY <1>6, EndsKeeps DEF RollsBack
<1>7. CASE GetsStuck
  BY <1>7, EndsKeeps DEF GetsStuck, store
<1> QED
  BY <1>1, <1>2, <1>3, <1>4, <1>5, <1>6, <1>7 DEF RunsStep

\* The stop and the other process touch no step.
LEMMA FlagsKeep ==
    ASSUME IInv,
           \/ StopAccepting \/ Close \/ Return \/ OtherLocks \/ OtherUnlocks
           \/ UNCHANGED vars
    PROVE  IInv'
<1>i. TypeOK /\ QueueInv /\ OrderInv /\ ThreadInv /\ StepInv /\ AnswerAgreesWithStore
  BY DEF IInv
<1>u. UNCHANGED <<queue, current, kind, mode, started, done, caller, tx, halted>>
  BY DEF StopAccepting, Close, Return, OtherLocks, OtherUnlocks, vars, flags, store, steps
<1>s. /\ stopping' \in BOOLEAN /\ (stopping => stopping')
      /\ closing' \in BOOLEAN /\ closed' \in BOOLEAN
  BY <1>i DEF StopAccepting, Close, Return, OtherLocks, OtherUnlocks, vars, flags, TypeOK
<1>t. \/ thread' = thread
      \/ thread = "waiting" /\ thread' = "returned"
  BY DEF StopAccepting, Close, Return, OtherLocks, OtherUnlocks, vars
<1>l. /\ lock' \in {"free", "daemon", "other"} /\ version' \in {"opened", "moved"}
      /\ lock = "daemon" => lock' = lock /\ version' = version
  BY <1>i DEF StopAccepting, Close, Return, OtherLocks, OtherUnlocks, vars, store, TypeOK
<1>1. TypeOK'
  BY <1>i, <1>u, <1>s, <1>t, <1>l DEF TypeOK
<1>2. QueueInv' /\ OrderInv'
  BY <1>i, <1>u, <1>s DEF QueueInv, OrderInv
<1>3. ThreadInv'
  BY <1>i, <1>u, <1>t DEF ThreadInv
<1>4. StepInv'
  BY <1>i, <1>u, <1>l DEF StepInv
<1>5. AnswerAgreesWithStore'
  BY <1>i, <1>u DEF AnswerAgreesWithStore
<1> QED
  BY <1>1, <1>2, <1>3, <1>4, <1>5 DEF IInv

LEMMA ClosedKeeps ==
    ASSUME IInv, Closed
    PROVE  IInv'
<1>i. TypeOK /\ QueueInv /\ OrderInv /\ ThreadInv /\ StepInv /\ AnswerAgreesWithStore
  BY DEF IInv
<1>u. UNCHANGED <<stopping, closing, halted, thread, current, kind, mode, started,
                  caller, tx, lock, version>>
  BY DEF Closed, store
<1>q. \A t \in Queued : t \in Steps /\ ~started[t] /\ done[t] = "unset" /\ caller[t] = "waits"
  BY <1>i, QueueTyped DEF Queued, QueueInv
<1>e. /\ closed' = TRUE /\ queue' = <<>>
      /\ done' = [t \in Steps |-> IF t \in Queued /\ done[t] = "unset"
                                  THEN "stopped" ELSE done[t]]
  BY DEF Closed
<1>d. \A t \in Steps : done'[t] = IF t \in Queued THEN "stopped" ELSE done[t]
  BY <1>e, <1>q
<1>1. TypeOK'
  <2>1. \A t \in Steps : done[t] \in Answer \cup {"unset"} /\ "stopped" \in Answer
    BY <1>i, Vocabulary DEF TypeOK
  <2>2. done' \in [Steps -> Answer \cup {"unset"}]
    BY <1>e, <2>1
  <2>3. queue' \in Seq(Steps)
    BY <1>e
  <2> QED
    BY <1>i, <1>u, <1>e, <2>2, <2>3 DEF TypeOK
<1>2. QueueInv' /\ OrderInv'
  BY <1>e DEF QueueInv, OrderInv
<1>3. ThreadInv'
  BY <1>i, <1>u, <1>d, <1>q DEF ThreadInv
<1>4. StepInv'
  <2>1. \A t \in Queued : ~started[t] /\ caller[t] # "new" /\ caller[t] # "busy"
    BY <1>q
  <2> QED
    BY <1>i, <1>u, <1>d, <2>1 DEF StepInv
<1>5. AnswerAgreesWithStore'
  <2>1. \A t \in Queued : tx[t] = "none" /\ caller[t] \notin Answer
    BY <1>i, <1>q, Vocabulary DEF StepInv
  <2> QED
    BY <1>i, <1>u, <1>d, <2>1 DEF AnswerAgreesWithStore
<1> QED
  BY <1>1, <1>2, <1>3, <1>4, <1>5 DEF IInv

LEMMA CallerKeeps ==
    ASSUME IInv, NEW s \in Steps, Caller(s)
    PROVE  IInv'
<1>1. ASSUME NEW k \in Kinds, NEW m \in Modes, HandOver(s, k, m) PROVE IInv'
  BY <1>1, HandOverKeeps
<1>2. CASE StartTimeout(s)
  <2>1. UNCHANGED <<stopping, closing, closed, halted, thread, current, kind,
                    mode, started, done, tx, lock, version>>
    BY <1>2 DEF StartTimeout, flags, store
  <2>2. /\ ~started[s] /\ Withdraw(s) /\ caller[s] = "waits"
        /\ caller' = [caller EXCEPT ![s] = "busy"]
    BY <1>2 DEF StartTimeout, MayWithdraw
  <2> QED
    BY <2>1, <2>2, StopsWaitingKeeps
<1>3. CASE Cancelled(s)
  <2>1. UNCHANGED <<stopping, closing, closed, halted, thread, current, kind,
                    mode, started, done, tx, lock, version>>
    BY <1>3 DEF Cancelled, flags, store
  <2>2. /\ \/ ~started[s] /\ Withdraw(s)
           \/ started[s] /\ queue' = queue
        /\ caller[s] = "waits" /\ caller' = [caller EXCEPT ![s] = "cancelled"]
    BY <1>3 DEF Cancelled, MayWithdraw
  <2> QED
    BY <2>1, <2>2, StopsWaitingKeeps
<1>4. CASE TakesAnswer(s)
  BY <1>4, TakesAnswerKeeps
<1> QED
  BY <1>1, <1>2, <1>3, <1>4 DEF Caller

LEMMA NextKeeps == IInv /\ [Next]_vars => IInv'
<1> SUFFICES ASSUME IInv, [Next]_vars PROVE IInv'
  OBVIOUS
<1>1. ASSUME NEW s \in Steps, Caller(s) PROVE IInv'
  BY <1>1, CallerKeeps
<1>2. CASE Pop
  BY <1>2, PopKeeps
<1>3. CASE RunsStep
  BY <1>3, RunsStepKeeps
<1>4. CASE Closed
  BY <1>4, ClosedKeeps
<1>5. CASE StopAccepting \/ Close \/ Return \/ OtherLocks \/ OtherUnlocks \/ UNCHANGED vars
  BY <1>5, FlagsKeep
<1> QED
  BY <1>1, <1>2, <1>3, <1>4, <1>5 DEF Next, Thread

-----------------------------------------------------------------------------
(* The theorems.                                                           *)

\* The inductive invariant holds in every reachable state.
THEOREM Invariance == Spec => []IInv
<1>1. Init => IInv
  BY InitEstablishes
<1>2. IInv /\ [Next]_vars => IInv'
  BY NextKeeps
<1> QED
  BY <1>1, <1>2, PTL DEF Spec

\* Every variable of the writer keeps its type (concurrency.py, _Step and
\* WriterThread).
THEOREM TypeCorrect == Spec => []TypeOK
<1>1. IInv => TypeOK
  BY DEF IInv
<1> QED
  BY <1>1, Invariance, PTL

\* WriterBusy is never said of a step that ran: for any number of callers, no
\* interleaving of a wait running out with the thread taking the step breaks it
\* (WriterThread.call, call_async, _withdraw).
THEOREM BusyIsHonest == Spec => []BusyMeansNothingWritten
<1>1. IInv => BusyMeansNothingWritten
  BY DEF IInv, StepInv, BusyMeansNothingWritten
<1> QED
  BY <1>1, Invariance, PTL

\* An answer never disagrees with what the store kept of the step
\* (WriterThread._execute, StorageService.claimed_step).
THEOREM AnswersAreHonest == Spec => []AnswerAgreesWithStore
<1>1. IInv => AnswerAgreesWithStore
  BY DEF IInv
<1> QED
  BY <1>1, Invariance, PTL

\* What a step may do to its transaction.
LEMMA TransactionMoves ==
    ASSUME IInv, [Next]_vars, NEW s \in Steps, tx'[s] # tx[s]
    PROVE  RunsStep /\ s = current /\ thread = "in step"
<1>i. TypeOK
  BY DEF IInv
<1>1. CASE RunsStep
  <2>1. thread = "in step"
    BY <1>1 DEF RunsStep, Opens, FindsVersionMoved, RaisesUnopened, ReturnsUnopened,
                Commits, RollsBack, GetsStuck
  <2>2. tx' = tx \/ \E w : tx' = [tx EXCEPT ![current] = w]
    BY <1>1 DEF RunsStep, Opens, FindsVersionMoved, RaisesUnopened, ReturnsUnopened,
                Commits, RollsBack, GetsStuck
  <2>3. s = current
    BY <2>2, <1>i DEF TypeOK
  <2> QED
    BY <1>1, <2>1, <2>3
<1>2. ASSUME NEW t \in Steps, Caller(t) PROVE tx' = tx
  BY <1>2 DEF Caller, HandOver, StartTimeout, Cancelled, TakesAnswer
<1>3. CASE Pop \/ Return \/ StopAccepting \/ Close \/ Closed \/ OtherLocks \/ OtherUnlocks
           \/ UNCHANGED vars
  BY <1>3 DEF Pop, Return, StopAccepting, Close, Closed, OtherLocks, OtherUnlocks,
              vars, steps
<1> QED
  BY <1>1, <1>2, <1>3 DEF Next, Thread

\* A halted writer runs and writes nothing more (concurrency.py: "every later step is
\* refused").
THEOREM HaltIsFinal == Spec => NothingWrittenAfterHalt
<1>1. IInv /\ [Next]_vars =>
        [halted => /\ thread' # "in step"
                   /\ \A s \in Steps : tx'[s] = tx[s]]_vars
  <2> SUFFICES ASSUME IInv, [Next]_vars, halted
               PROVE  thread' # "in step" /\ \A s \in Steps : tx'[s] = tx[s]
    OBVIOUS
  <2>1. thread # "in step"
    BY DEF IInv, ThreadInv
  <2>2. \A s \in Steps : tx'[s] = tx[s]
    BY <2>1, TransactionMoves
  <2>3. ~RunsStep
    BY <2>1 DEF RunsStep, Opens, FindsVersionMoved, RaisesUnopened, ReturnsUnopened,
                Commits, RollsBack, GetsStuck
  <2>4. ASSUME NEW t \in Steps, Caller(t) PROVE thread' = thread
    BY <2>4 DEF Caller, HandOver, StartTimeout, Cancelled, TakesAnswer
  <2>5. ASSUME Pop \/ Return PROVE thread' # "in step"
    BY <2>5, <2>1 DEF Pop, Return
  <2>6. ASSUME StopAccepting \/ Close \/ Closed \/ OtherLocks \/ OtherUnlocks
               \/ UNCHANGED vars
        PROVE  thread' # "in step"
    BY <2>6, <2>1 DEF StopAccepting, Close, Closed, OtherLocks, OtherUnlocks, vars
  <2> QED
    BY <2>1, <2>2, <2>3, <2>4, <2>5, <2>6 DEF Next, Thread
<1> QED
  BY <1>1, Invariance, PTL DEF Spec, NothingWrittenAfterHalt

\* No transaction of the daemon is committed to a store another process moved
\* past the daemon's schema version (_OperationalConnection._open_for_step).
THEOREM MovedStoreIsSafe == Spec => NeverWritesMovedStore
<1>1. IInv /\ [Next]_vars =>
        [\A s \in Steps : tx'[s] = "committed" /\ tx[s] # "committed"
                            => version = "opened"]_vars
  <2> SUFFICES ASSUME IInv, [Next]_vars, NEW s \in Steps,
                      tx'[s] = "committed", tx[s] # "committed"
               PROVE  version = "opened"
    OBVIOUS
  <2>i. TypeOK /\ StepInv
    BY DEF IInv
  <2>1. RunsStep /\ s = current
    BY TransactionMoves
  <2>2. tx[s] = "open"
    BY <2>1, <2>i DEF RunsStep, Opens, FindsVersionMoved, RaisesUnopened,
                      ReturnsUnopened, Commits, RollsBack, GetsStuck, TypeOK
  <2> QED
    BY <2>2, <2>i DEF StepInv
<1> QED
  BY <1>1, Invariance, PTL DEF Spec, NeverWritesMovedStore

\* The shutdown's step starts only once no ordinary step is left queued
\* (RequestPath.shutdown_pass: "runs after every claimed step already queued").
THEOREM ShutdownIsLast == Spec => ShutdownStepRunsLast
<1>1. IInv /\ [Next]_vars =>
        [\A s \in Steps : kind[s] = "shutdown" /\ started'[s] /\ ~started[s]
            => \A o \in Steps : kind[o] = "ordinary" => o \notin Queued]_vars
  <2> SUFFICES ASSUME IInv, [Next]_vars, NEW s \in Steps, kind[s] = "shutdown",
                      started'[s], ~started[s],
                      NEW o \in Steps, kind[o] = "ordinary", o \in Queued
               PROVE  FALSE
    OBVIOUS
  <2>i. TypeOK /\ QueueInv /\ OrderInv
    BY DEF IInv
  <2>1. Pop
    <3>1. ASSUME NEW t \in Steps, Caller(t) PROVE started' = started
      BY <3>1 DEF Caller, HandOver, StartTimeout, Cancelled, TakesAnswer
    <3>2. CASE Return \/ RunsStep \/ StopAccepting \/ Close \/ Closed \/ OtherLocks
               \/ OtherUnlocks \/ UNCHANGED vars
      BY <3>2 DEF Return, RunsStep, Opens, FindsVersionMoved, RaisesUnopened,
                  ReturnsUnopened, Commits, RollsBack, GetsStuck, Ends, StopAccepting,
                  Close, Closed, OtherLocks, OtherUnlocks, vars, steps
    <3> QED
      BY <3>1, <3>2 DEF Next, Thread
  <2>2. s = Head(queue) /\ queue # <<>>
    BY <2>1, <2>i DEF Pop, TypeOK
  <2>3. queue \in Seq(Steps) /\ DOMAIN queue = 1..Len(queue)
    BY <2>i, QueueTyped
  <2>4. 1 \in 1..Len(queue) /\ queue[1] = s
    BY <2>2, <2>3
  <2>5. PICK j \in 1..Len(queue) : queue[j] = o
    BY <2>3 DEF Queued
  <2>6. j < 1
    BY <2>i, <2>4, <2>5 DEF OrderInv
  <2> QED
    BY <2>6
<1> QED
  BY <1>1, Invariance, PTL DEF Spec, ShutdownStepRunsLast

(***************************************************************************)
(* That the writer keeps its promise: WriterThread implements ClaimedSteps *)
(* under the mapping at its end, for any set of steps.  Each step of the   *)
(* writer changes the fate or the word of at most one step, except closing *)
(* it, which refuses all that is queued.                                   *)
(***************************************************************************)

\* A withdrawal takes one step out of the queue and no other.
LEMMA WithdrawTakesOne ==
    ASSUME TypeOK, QueueInv, NEW s \in Steps, Withdraw(s)
    PROVE  Queued' = Queued \ {s}
<1>a. queue \in Seq(Steps) /\ DOMAIN queue = 1..Len(queue) /\ Len(queue) \in Nat
  <2>1. queue \in Seq(Steps)
    BY DEF TypeOK
  <2> QED
    BY <2>1
<1>1. CASE s \in Queued
  <2>1. PICK k \in 1..Len(queue) : queue[k] = s /\ queue' = RemoveAt(queue, k)
    <3>1. PICK k \in DOMAIN queue : queue[k] = s /\ queue' = RemoveAt(queue, k)
      BY <1>1 DEF Withdraw, Queued
    <3> QED
      BY <1>a, <3>1
  <2>2. /\ queue' \in Seq(Steps)
        /\ Len(queue') = Len(queue) - 1
        /\ \A j \in 1..(Len(queue) - 1) :
              queue'[j] = IF j < k THEN queue[j] ELSE queue[j + 1]
    BY <1>a, <2>1, RemoveAtFacts
  <2>3. DOMAIN queue' = 1..(Len(queue) - 1)
    BY <2>2
  <2>4. ASSUME NEW o \in Queued' PROVE o \in Queued \ {s}
    <3>1. PICK j \in 1..(Len(queue) - 1) : o = queue'[j]
      BY <2>3, <2>4 DEF Queued
    <3>2. PICK l \in 1..Len(queue) : o = queue[l] /\ l # k
      BY <1>a, <2>2, <3>1
    <3> QED
      BY <1>a, <2>1, <3>2 DEF Queued, QueueInv
  <2>5. ASSUME NEW o \in Queued \ {s} PROVE o \in Queued'
    <3>1. PICK l \in 1..Len(queue) : o = queue[l]
      BY <1>a, <2>5 DEF Queued
    <3>2. l # k
      BY <2>1, <2>5, <3>1
    <3>3. \E j \in 1..(Len(queue) - 1) : queue'[j] = o
      <4>1. CASE l < k
        BY <1>a, <2>2, <3>1, <4>1
      <4>2. CASE l > k
        <5>1. l - 1 \in 1..(Len(queue) - 1) /\ ~(l - 1 < k) /\ (l - 1) + 1 = l
          BY <1>a, <4>2
        <5> QED
          BY <2>2, <3>1, <5>1
      <4> QED
        BY <3>2, <4>1, <4>2
    <3> QED
      BY <2>3, <3>3 DEF Queued
  <2> QED
    BY <2>4, <2>5
<1>2. CASE s \notin Queued
  BY <1>2 DEF Withdraw, Queued
<1> QED
  BY <1>1, <1>2

\* The queue's set as a step joins it at the end, and as its head leaves it.
LEMMA AppendJoins ==
    ASSUME TypeOK, NEW s \in Steps, queue' = Append(queue, s)
    PROVE  Queued' = Queued \cup {s}
<1>1. queue \in Seq(Steps) /\ DOMAIN queue = 1..Len(queue) /\ Len(queue) \in Nat
  BY QueueTyped
<1>2. /\ DOMAIN queue' = 1..(Len(queue) + 1)
      /\ \A i \in 1..Len(queue) : queue'[i] = queue[i]
      /\ queue'[Len(queue) + 1] = s
  BY <1>1
<1> QED
  BY <1>1, <1>2 DEF Queued

LEMMA HeadLeaves ==
    ASSUME TypeOK, QueueInv, queue # <<>>, queue' = Tail(queue)
    PROVE  Head(queue) \in Steps /\ Head(queue) \in Queued /\ Queued' = Queued \ {Head(queue)}
<1>1. queue \in Seq(Steps) /\ DOMAIN queue = 1..Len(queue) /\ Len(queue) \in Nat
  BY QueueTyped
<1>2. /\ DOMAIN queue' = 1..(Len(queue) - 1) /\ Len(queue) >= 1
      /\ \A i \in 1..(Len(queue) - 1) : queue'[i] = queue[i + 1]
      /\ Head(queue) = queue[1] /\ queue[1] \in Steps
  BY <1>1
<1>3. ASSUME NEW o \in Queued' PROVE o \in Queued \ {Head(queue)}
  <2>1. PICK i \in 1..(Len(queue) - 1) : o = queue[i + 1]
    BY <1>2, <1>3 DEF Queued
  <2>2. i + 1 \in 1..Len(queue) /\ i + 1 # 1 /\ 1 \in 1..Len(queue)
    BY <1>1
  <2> QED
    BY <1>1, <1>2, <2>1, <2>2 DEF Queued, QueueInv
<1>4. ASSUME NEW o \in Queued \ {Head(queue)} PROVE o \in Queued'
  <2>1. PICK i \in 1..Len(queue) : o = queue[i]
    BY <1>1, <1>4 DEF Queued
  <2>2. i # 1
    BY <1>2, <1>4, <2>1
  <2>3. i - 1 \in 1..(Len(queue) - 1) /\ (i - 1) + 1 = i
    BY <1>1, <2>2
  <2>4. queue'[i - 1] = o
    BY <1>2, <2>1, <2>3
  <2> QED
    BY <1>2, <2>3, <2>4 DEF Queued
<1>5. Head(queue) \in Queued
  BY <1>1, <1>2 DEF Queued
<1> QED
  BY <1>2, <1>3, <1>4, <1>5

-----------------------------------------------------------------------------

\* What each fate allows the caller to be told.
LEMMA WordsOf ==
    /\ {"value", "cancelled"} \subseteq Promise!Words("applied")
    /\ {"error", "cancelled"} \subseteq Promise!Words("undone")
    /\ {"stopped", "busy", "cancelled"} \subseteq Promise!Words("refused")
    /\ {"busy", "cancelled"} \subseteq Promise!Words("withdrawn")
    /\ "cancelled" \in Promise!Words("pending")
  BY DEF Promise!Words

\* A step that changes nothing a step's fate is read from is a stutter.
LEMMA NothingDecided ==
    ASSUME UNCHANGED <<caller, done>>,
           \A s \in Steps : AtWriter(s)' <=> AtWriter(s),
           \A s \in Steps : tx'[s] = "committed" <=> tx[s] = "committed"
    PROVE  UNCHANGED Promise!vars
<1>1. \A s \in Steps : FateOf(s)' = FateOf(s) /\ ToldOf(s)' = ToldOf(s)
  BY DEF FateOf, ToldOf, AtWriter
<1>2. Kept' = Kept
  BY DEF Kept
<1> QED
  BY <1>1, <1>2 DEF Promise!vars, Fates, Tolds

\* A step that touches one step's answer, caller or place moves that one alone.
LEMMA OneMoves ==
    ASSUME TypeOK, NEW s \in Steps,
           \A o \in Steps \ {s} :
              caller'[o] = caller[o] /\ done'[o] = done[o] /\ (AtWriter(o)' <=> AtWriter(o)),
           \/ ToldOf(s)' = ToldOf(s)
           \/ ToldOf(s) = "nothing" /\ ToldOf(s)' \in Promise!Words(FateOf(s)')
    PROVE  Promise!Moves(s, FateOf(s)', ToldOf(s)')
<1>1. \A o \in Steps \ {s} : FateOf(o)' = FateOf(o) /\ ToldOf(o)' = ToldOf(o)
  BY DEF FateOf, ToldOf, AtWriter
<1>2. Fates' = [Fates EXCEPT ![s] = FateOf(s)'] /\ Tolds' = [Tolds EXCEPT ![s] = ToldOf(s)']
  BY <1>1 DEF Fates, Tolds
<1>3. ToldOf(s) = Tolds[s]
  BY DEF Tolds
<1> QED
  BY <1>2, <1>3 DEF Promise!Moves

\* The initial state promises nothing yet.
LEMMA InitMaps == Init => Promise!Init
<1> SUFFICES ASSUME Init PROVE Promise!Init
  OBVIOUS
<1>1. \A s \in Steps : FateOf(s) = "none" /\ ToldOf(s) = "nothing" /\ tx[s] # "committed"
  BY DEF Init, FateOf, ToldOf, Told, Answer
<1> QED
  BY <1>1 DEF Promise!Init, Fates, Tolds, Kept

\* A caller's action hands its step over, gives it up or is told of it.
LEMMA CallerMaps == ASSUME IInv, NEW s \in Steps, Caller(s) PROVE Promise!Next
<1>0. TypeOK /\ QueueInv /\ StepInv /\ ThreadInv
  BY DEF IInv
<1>a. /\ caller \in [Steps -> Told \cup {"new", "waits"}]
      /\ done \in [Steps -> Answer \cup {"unset"}]
  BY <1>0 DEF TypeOK
<1>f. Fates[s] = FateOf(s) /\ Tolds[s] = ToldOf(s)
  BY DEF Fates, Tolds
<1>q. s \in Queued => caller[s] = "waits" /\ done[s] = "unset" /\ ~started[s]
  BY <1>0, QueueTyped DEF Queued, QueueInv
<1>t. ASSUME ToldOf(s) = "nothing", FateOf(s)' = FateOf(s), FateOf(s) # "none",
             ToldOf(s)' \in Promise!Words(FateOf(s)), UNCHANGED Kept,
             Promise!Moves(s, FateOf(s)', ToldOf(s)')
      PROVE  Promise!Next
  BY <1>f, <1>t DEF Promise!Next, Promise!Tell
<1>1. ASSUME NEW k \in Kinds, NEW m \in Modes, HandOver(s, k, m) PROVE Promise!Next
  <2>1. caller[s] = "new" /\ FateOf(s) = "none" /\ ToldOf(s) = "nothing" /\ done[s] = "unset"
    BY <1>1, <1>0 DEF HandOver, FateOf, ToldOf, Told, Answer, StepInv
  <2>2. /\ caller' = [caller EXCEPT ![s] = caller'[s]] /\ done' = [done EXCEPT ![s] = done'[s]]
        /\ UNCHANGED <<current, tx>>
    BY <1>1, <1>a DEF HandOver
  <2>3. CASE Refuses(k)
    <3>1. caller'[s] = "stopped" /\ done'[s] = "stopped" /\ UNCHANGED queue
      BY <1>1, <1>a, <2>3 DEF HandOver
    <3>2. FateOf(s)' = "refused" /\ ToldOf(s)' = "stopped"
      BY <3>1 DEF FateOf, ToldOf, Told, Answer
    <3>3. Promise!Moves(s, "refused", "stopped")
      BY <3>1, <3>2, <2>1, <2>2, <1>0, <1>a, OneMoves, WordsOf DEF AtWriter, Queued
    <3>4. Promise!HandOver(s)
      BY <3>3, <2>1, <2>2, <1>f DEF Promise!HandOver, Kept
    <3> QED
      BY <3>4 DEF Promise!Next
  <2>4. CASE ~Refuses(k)
    <3>1. caller'[s] = "waits" /\ UNCHANGED done /\ Queued' = Queued \cup {s}
      BY <1>1, <1>0, <1>a, <2>4, AppendJoins DEF HandOver
    <3>2. FateOf(s)' = "pending" /\ ToldOf(s)' = "nothing"
      BY <3>1, <2>1 DEF FateOf, AtWriter, ToldOf, Told, Answer
    <3>3. Promise!Moves(s, "pending", "nothing")
      BY <3>1, <3>2, <2>1, <2>2, <1>0, <1>a, OneMoves DEF AtWriter
    <3>4. Promise!HandOver(s)
      BY <3>3, <2>1, <2>2, <1>f DEF Promise!HandOver, Kept
    <3> QED
      BY <3>4 DEF Promise!Next
  <2> QED
    BY <2>3, <2>4
<1>w. ASSUME caller[s] = "waits", ~started[s], Withdraw(s), NEW w \in {"busy", "cancelled"},
             caller' = [caller EXCEPT ![s] = w], UNCHANGED <<current, done, tx>>
      PROVE  Promise!Next
  <2>1. Queued' = Queued \ {s} /\ s # current
    BY <1>w, <1>0, WithdrawTakesOne DEF ThreadInv
  <2>2. ToldOf(s) = "nothing" /\ ToldOf(s)' = w /\ done[s] \in {"unset", "stopped"}
    BY <1>w, <1>0, <1>a DEF ToldOf, Told, Answer, StepInv
  <2>3. \/ FateOf(s) = "pending" /\ FateOf(s)' = "withdrawn"
        \/ FateOf(s) \in {"refused", "withdrawn"} /\ FateOf(s)' = FateOf(s)
    BY <1>w, <1>a, <2>1, <2>2 DEF FateOf, AtWriter
  <2>4. w \in Promise!Words(FateOf(s)')
    BY <2>3, WordsOf
  <2>5. Promise!Moves(s, FateOf(s)', w)
    BY <1>w, <1>0, <1>a, <2>1, <2>2, <2>4, OneMoves DEF AtWriter
  <2>6. UNCHANGED Kept
    BY <1>w DEF Kept
  <2>7. CASE FateOf(s) = "pending"
    BY <2>3, <2>5, <2>6, <2>7, <1>f DEF Promise!Next, Promise!GiveUp, Promise!Decided
  <2>8. CASE FateOf(s) # "pending"
    BY <2>2, <2>3, <2>4, <2>5, <2>6, <2>8, <1>t
  <2> QED
    BY <2>7, <2>8
<1>2. CASE StartTimeout(s)
  BY <1>2, <1>w DEF StartTimeout, MayWithdraw
<1>3. CASE Cancelled(s)
  <2>1. CASE ~started[s]
    BY <1>3, <2>1, <1>w DEF Cancelled, MayWithdraw
  <2>2. CASE started[s]
    <3>1. /\ caller[s] = "waits" /\ caller' = [caller EXCEPT ![s] = "cancelled"]
          /\ UNCHANGED <<queue, current, done, tx>>
      BY <1>3, <2>2 DEF Cancelled, MayWithdraw
    <3>2. ToldOf(s) = "nothing" /\ ToldOf(s)' = "cancelled"
      BY <3>1, <1>a DEF ToldOf, Told, Answer
    <3>3. FateOf(s)' = FateOf(s) /\ FateOf(s) \in {"applied", "undone", "refused", "pending", "withdrawn"}
      BY <3>1, <1>a DEF FateOf, AtWriter, Queued, Answer
    <3>4. "cancelled" \in Promise!Words(FateOf(s))
      BY <3>3, WordsOf
    <3>5. Promise!Moves(s, FateOf(s)', ToldOf(s)')
      BY <3>1, <3>2, <3>3, <3>4, <1>0, <1>a, OneMoves DEF AtWriter, Queued
    <3> QED
      BY <3>1, <3>2, <3>3, <3>4, <3>5, <1>t DEF Kept
  <2> QED
    BY <2>1, <2>2 DEF TypeOK
<1>4. CASE TakesAnswer(s)
  <2>1. /\ caller[s] = "waits" /\ done[s] \in Answer /\ caller' = [caller EXCEPT ![s] = done[s]]
        /\ UNCHANGED <<queue, current, done, tx>>
    BY <1>4, <1>a DEF TakesAnswer
  <2>2. ToldOf(s) = "nothing" /\ ToldOf(s)' = done[s]
    BY <2>1, <1>a DEF ToldOf, Told, Answer
  <2>3. /\ FateOf(s)' = FateOf(s) /\ FateOf(s) # "none"
        /\ FateOf(s) = (IF done[s] = "value" THEN "applied"
                          ELSE IF done[s] = "error" THEN "undone" ELSE "refused")
    BY <2>1, <1>a DEF FateOf, AtWriter, Queued, Answer
  <2>4. done[s] \in Promise!Words(FateOf(s))
    BY <2>1, <2>3, WordsOf DEF Answer
  <2>5. Promise!Moves(s, FateOf(s)', ToldOf(s)')
    BY <2>1, <2>2, <2>3, <2>4, <1>0, <1>a, OneMoves DEF AtWriter, Queued
  <2> QED
    BY <2>1, <2>2, <2>3, <2>4, <2>5, <1>t DEF Kept
<1> QED
  BY <1>1, <1>2, <1>3, <1>4 DEF Caller

\* A halted writer refuses the step it pops; otherwise popping decides nothing.
LEMMA PopMaps == ASSUME IInv, Pop PROVE Promise!Next \/ UNCHANGED Promise!vars
<1>0. TypeOK /\ QueueInv /\ ThreadInv
  BY DEF IInv
<1>a. done \in [Steps -> Answer \cup {"unset"}] /\ queue # <<>> /\ current \notin Steps
  BY <1>0 DEF TypeOK, Pop, ThreadInv
<1>h. PICK s \in Steps : s = Head(queue)
  BY <1>0, HeadLeaves DEF Pop
<1>1. s \in Queued /\ Queued' = Queued \ {s}
  BY <1>0, <1>h, HeadLeaves DEF Pop
<1>2. caller[s] = "waits" /\ done[s] = "unset"
  BY <1>0, <1>1, QueueTyped DEF Queued, QueueInv
<1>3. UNCHANGED <<caller, tx>>
  BY DEF Pop
<1>4. CASE halted
  <2>1. done' = [done EXCEPT ![s] = "stopped"] /\ UNCHANGED current
    BY <1>4, <1>h DEF Pop
  <2>2. ToldOf(s)' = ToldOf(s) /\ FateOf(s) = "pending" /\ FateOf(s)' = "refused"
    BY <2>1, <1>1, <1>2, <1>3, <1>a DEF ToldOf, FateOf, AtWriter
  <2>3. Promise!Moves(s, "refused", ToldOf(s))
    BY <2>1, <2>2, <1>0, <1>1, <1>3, <1>a, OneMoves DEF AtWriter
  <2>4. Promise!GiveUp(s)
    BY <2>2, <2>3, <1>1, <1>3 DEF Promise!GiveUp, Promise!Decided, Fates, Tolds, Kept
  <2> QED
    BY <2>4, <1>1 DEF Promise!Next
<1>5. CASE ~halted
  <2>1. current' = s /\ UNCHANGED done
    BY <1>5, <1>h DEF Pop
  <2>2. \A o \in Steps : AtWriter(o)' <=> AtWriter(o)
    BY <2>1, <1>1, <1>a DEF AtWriter
  <2> QED
    BY <2>1, <2>2, <1>3, NothingDecided
<1> QED
  BY <1>4, <1>5

\* A step that ends is applied with its writes, or undone without them.
LEMMA RunsStepMaps == ASSUME IInv, RunsStep PROVE Promise!Next \/ UNCHANGED Promise!vars
<1>0. TypeOK /\ QueueInv /\ ThreadInv /\ StepInv
  BY DEF IInv
<1>1. current \in Steps
  BY <1>0 DEF RunsStep, Opens, FindsVersionMoved, RaisesUnopened, ReturnsUnopened, Commits,
     RollsBack, GetsStuck, ThreadInv
<1>a. /\ done \in [Steps -> Answer \cup {"unset"}]
      /\ tx \in [Steps -> {"none", "open", "committed", "undone", "stuck"}]
      /\ NoStep \notin Steps
  BY <1>0, StepsAssumption DEF TypeOK
<1>2. caller[current] # "new" /\ done[current] = "unset" /\ tx[current] # "committed"
  BY <1>0, <1>1 DEF ThreadInv, StepInv
<1>3. current \notin Queued
  BY <1>0, <1>1, QueueTyped DEF Queued, QueueInv, ThreadInv
<1>e. ASSUME NEW answer \in {"value", "error"}, NEW halts, Ends(answer, halts)
      PROVE  /\ FateOf(current) = "pending" /\ UNCHANGED caller
             /\ LET f == IF answer = "value" THEN "applied" ELSE "undone"
                IN Promise!Moves(current, f, ToldOf(current))
  <2>1. /\ UNCHANGED <<queue, caller>> /\ current' = NoStep
        /\ done' = [done EXCEPT ![current] = answer]
    BY <1>e DEF Ends
  <2>2. /\ FateOf(current) = "pending"
        /\ \A s \in Steps : ToldOf(s)' = ToldOf(s)
    BY <2>1, <1>2 DEF FateOf, AtWriter, ToldOf
  <2>3. \A s \in Steps \ {current} :
           caller'[s] = caller[s] /\ done'[s] = done[s] /\ (AtWriter(s)' <=> AtWriter(s))
    BY <2>1, <1>a DEF AtWriter, Queued
  <2>4. \A s \in Steps \ {current} : FateOf(s)' = FateOf(s)
    BY <2>3 DEF FateOf
  <2>5. \A s \in Steps : s = current =>
           (caller'[s] # "new" /\ done'[s] = answer)
    BY <2>1, <1>1, <1>2, <1>a
  <2> DEFINE f == IF answer = "value" THEN "applied" ELSE "undone"
  <2>6. Fates' = [Fates EXCEPT ![current] = f]
    <3>1. \A s \in Steps : FateOf(s)' = IF s = current THEN f ELSE FateOf(s)
      BY <2>4, <2>5, <1>e DEF FateOf
    <3> QED
      BY <3>1 DEF Fates
  <2>7. Tolds' = [Tolds EXCEPT ![current] = ToldOf(current)] /\ Tolds[current] = ToldOf(current)
    BY <2>2, <1>1 DEF Tolds
  <2> QED
    BY <2>1, <2>2, <2>6, <2>7 DEF Promise!Moves
<1>u. ASSUME Ends("value", FALSE), tx' = tx \/ tx' = [tx EXCEPT ![current] = "committed"]
      PROVE  Promise!Next
  <2>1. Kept' \in {Kept, Kept \cup {current}}
    BY <1>u, <1>1, <1>a DEF Kept
  <2>2. Fates[current] = "pending" /\ Tolds[current] = ToldOf(current)
        /\ Promise!Moves(current, "applied", ToldOf(current))
    BY <1>u, <1>e, <1>1 DEF Fates, Tolds
  <2> QED
    BY <2>1, <2>2, <1>1 DEF Promise!Next, Promise!Apply
<1>n. ASSUME NEW halts, Ends("error", halts),
             tx' = tx \/ \E to \in {"undone", "stuck"} : tx' = [tx EXCEPT ![current] = to]
      PROVE  Promise!Next
  <2>1. Kept' = Kept
    BY <1>n, <1>1, <1>2, <1>a DEF Kept
  <2>2. Fates[current] = "pending" /\ Tolds[current] = ToldOf(current)
        /\ Promise!Moves(current, "undone", ToldOf(current))
    BY <1>n, <1>e, <1>1 DEF Fates, Tolds
  <2> QED
    BY <2>1, <2>2, <1>1 DEF Promise!Next, Promise!GiveUp, Promise!Decided
<1>4. CASE Opens
  <2>1. UNCHANGED <<queue, current, caller, done>> /\ tx' = [tx EXCEPT ![current] = "open"]
    BY <1>4 DEF Opens
  <2>2. \A s \in Steps : (tx'[s] = "committed" <=> tx[s] = "committed")
    BY <2>1, <1>2, <1>a
  <2>3. \A s \in Steps : AtWriter(s)' <=> AtWriter(s)
    BY <2>1 DEF AtWriter, Queued
  <2> QED
    BY <2>1, <2>2, <2>3, NothingDecided
<1>5. CASE FindsVersionMoved \/ RaisesUnopened \/ RollsBack \/ GetsStuck
  BY <1>5, <1>n DEF FindsVersionMoved, RaisesUnopened, RollsBack, GetsStuck
<1>6. CASE ReturnsUnopened \/ Commits
  BY <1>6, <1>u DEF ReturnsUnopened, Commits
<1> QED
  BY <1>4, <1>5, <1>6 DEF RunsStep

\* Closing refuses what is still queued.
LEMMA ClosedMaps == ASSUME IInv, Closed PROVE Promise!Next
<1>0. TypeOK /\ QueueInv /\ ThreadInv
  BY DEF IInv
<1>a. done \in [Steps -> Answer \cup {"unset"}] /\ current \notin Steps
  BY <1>0 DEF TypeOK, Closed, ThreadInv
<1>1. \A s \in Steps : s \in Queued => caller[s] = "waits" /\ done[s] = "unset"
  BY <1>0, QueueTyped DEF Queued, QueueInv
<1>2. /\ UNCHANGED <<current, caller, tx>> /\ queue' = <<>>
      /\ \A s \in Steps : done'[s] = IF s \in Queued THEN "stopped" ELSE done[s]
  BY <1>1 DEF Closed
<1>3. Queued' = {}
  BY <1>2 DEF Queued
<1>4. \A s \in Steps : /\ FateOf(s)' = IF s \in Queued THEN "refused" ELSE FateOf(s)
                       /\ s \in Queued => FateOf(s) = "pending"
                       /\ ToldOf(s)' = ToldOf(s)
  BY <1>1, <1>2, <1>3, <1>a DEF FateOf, AtWriter, ToldOf
<1>5. Queued \in SUBSET {s \in Steps : Fates[s] = "pending"}
  BY <1>0, <1>4, QueueTyped DEF Fates, Queued
<1>6. Fates' = [s \in Steps |-> IF s \in Queued THEN "refused" ELSE Fates[s]]
  BY <1>4 DEF Fates
<1>7. UNCHANGED <<Tolds, Kept>>
  BY <1>2, <1>4 DEF Tolds, Kept
<1> QED
  BY <1>5, <1>6, <1>7 DEF Promise!Next, Promise!RefuseAll

\* Every step of the writer is a step of the promise, or none.
LEMMA NextMaps == IInv /\ [Next]_vars => [Promise!Next]_(Promise!vars)
<1> SUFFICES ASSUME IInv, [Next]_vars PROVE Promise!Next \/ UNCHANGED Promise!vars
  OBVIOUS
<1>q. ASSUME UNCHANGED <<queue, current, caller, done, tx>> PROVE UNCHANGED Promise!vars
  BY <1>q, NothingDecided DEF AtWriter, Queued
<1>1. CASE Return \/ StopAccepting \/ Close \/ OtherLocks \/ OtherUnlocks \/ UNCHANGED vars
  BY <1>1, <1>q DEF Return, StopAccepting, Close, OtherLocks, OtherUnlocks, steps, vars
<1> QED
  BY <1>1, CallerMaps, PopMaps, RunsStepMaps, ClosedMaps DEF Next, Thread

\* The writer -- queue, thread, withdrawal, halt, stop and transactions -- keeps
\* the promise, for any set of steps.
THEOREM PromiseIsKept == Spec => KeepsItsPromise
<1> QED
  BY InitMaps, NextMaps, Invariance, PTL DEF Spec, KeepsItsPromise, Promise!Spec

=============================================================================
