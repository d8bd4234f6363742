---------------------------- MODULE SkillsProofs ----------------------------
(***************************************************************************)
(* Proofs about Skills, for any transcripts, commands, keys and entities.  *)
(* The inductive invariant says what the ledger of keys knows of each, what*)
(* a job that is within a call may rely on, and that no two jobs are within*)
(* calls about one entity, which is what makes the former stable.          *)
(***************************************************************************)
EXTENDS Skills, TLAPS

\* What the ledger says of a key, and what became of it at the provider.
KeyInv ==
    \A k \in Keys :
        /\ executed[k] = "none" => provider.calls[k] = 0 /\ k \notin provider.applied
        /\ executed[k] = "settled" => k \in provider.applied
        /\ provider.calls[k] <= 1
        /\ logged[k] <= 1
        /\ logged[k] > 0 => executed[k] = "settled"

\* A job has claimed its key before it calls, and has it settled before it logs.
JobAt(t) ==
    /\ job[t].at = "staging" => job[t].i \in DOMAIN Commands[t]
    /\ job[t].at = "calling" =>
          executed[KeyOf(t)] = "in flight" /\ provider.calls[KeyOf(t)] = 0
    /\ job[t].at \in {"called", "settling", "failing"} => executed[KeyOf(t)] = "in flight"
    /\ job[t].at \in {"settling", "logging"} => KeyOf(t) \in provider.applied
    /\ job[t].at = "logging" => executed[KeyOf(t)] = "settled" /\ logged[KeyOf(t)] = 0

JobInv == \A t \in Transcripts : JobAt(t)

IInv == TypeOK /\ KeyInv /\ JobInv /\ ExecutedDidHappen

-----------------------------------------------------------------------------

\* A job at a command has a key; and two jobs within calls have different keys,
\* because they hold different locks.
LEMMA KeysOfJobs ==
  ASSUME TypeOK
  PROVE  /\ \A t \in Transcripts : job[t].i \in DOMAIN Commands[t] => KeyOf(t) \in Keys
         /\ \A t, u \in Transcripts :
               /\ job[t].at \in Within /\ job[u].at \in Within /\ t # u
               => KeyOf(t) # KeyOf(u) /\ LockOf[KeyOf(t)] # LockOf[KeyOf(u)]
<1>1. \A t \in Transcripts : job[t].i \in DOMAIN Commands[t] => KeyOf(t) \in Keys
  BY SkillsAssumption DEF KeyOf
<1>2. ASSUME NEW t \in Transcripts, NEW u \in Transcripts, t # u,
             job[t].at \in Within, job[u].at \in Within
      PROVE  KeyOf(t) # KeyOf(u) /\ LockOf[KeyOf(t)] # LockOf[KeyOf(u)]
  BY <1>2 DEF TypeOK, KeyOf
<1> QED
  BY <1>1, <1>2

\* The invariant holds in the initial state.
LEMMA InitEstablishes == Init => IInv
<1> SUFFICES ASSUME Init PROVE IInv
  OBVIOUS
<1>1. TypeOK
  BY DEF Init, TypeOK, Idle, Within
<1>2. KeyInv
  BY DEF Init, KeyInv
<1>3. JobInv
  BY DEF Init, JobInv, JobAt, Idle
<1>4. ExecutedDidHappen
  BY DEF Init, ExecutedDidHappen
<1> QED
  BY <1>1, <1>2, <1>3, <1>4 DEF IInv

\* A job goes on within its command: its place and its key stay.
LEMMA GoesFacts ==
  ASSUME TypeOK, NEW t \in Transcripts, NEW at \in {"idle", "next", "staging"} \cup Within,
         Goes(t, at)
  PROVE  /\ job'[t].at = at /\ job'[t].i = job[t].i
         /\ \A u \in Transcripts : u # t => job'[u] = job[u]
         /\ \A u \in Transcripts : KeyOf(u)' = KeyOf(u)
         /\ job' \in [Transcripts -> [at : {"idle", "next", "staging"} \cup Within, i : Nat]]
<1>1. job \in [Transcripts -> [at : {"idle", "next", "staging"} \cup Within, i : Nat]]
  BY DEF TypeOK
<1>2. /\ job'[t].at = at /\ job'[t].i = job[t].i
      /\ \A u \in Transcripts : u # t => job'[u] = job[u]
      /\ job' \in [Transcripts -> [at : {"idle", "next", "staging"} \cup Within, i : Nat]]
  BY <1>1 DEF Goes
<1>3. \A u \in Transcripts : KeyOf(u)' = KeyOf(u)
  BY <1>2 DEF KeyOf
<1> QED
  BY <1>2, <1>3

\* A job leaves its command: the others' places stay.
LEMMA LeavesFacts ==
  ASSUME TypeOK, NEW t \in Transcripts,
         \/ GoesOn(t) /\ job[t].i \in DOMAIN Commands[t]
         \/ Stops(t)
         \/ job' = [job EXCEPT ![t] = [at |-> "next", i |-> 1]]
  PROVE  /\ job'[t].at \in {"idle", "next"}
         /\ job'[t].at # "idle" => job'[t].i \in 1..Len(Commands[t]) + 1
         /\ \A u \in Transcripts : u # t => job'[u] = job[u] /\ KeyOf(u)' = KeyOf(u)
         /\ job' \in [Transcripts -> [at : {"idle", "next", "staging"} \cup Within, i : Nat]]
<1>1. job \in [Transcripts -> [at : {"idle", "next", "staging"} \cup Within, i : Nat]]
  BY DEF TypeOK
<1>2. Len(Commands[t]) \in Nat /\ DOMAIN Commands[t] = 1..Len(Commands[t])
  BY SkillsAssumption
<1>3. CASE GoesOn(t) /\ job[t].i \in DOMAIN Commands[t]
  BY <1>1, <1>2, <1>3 DEF GoesOn, KeyOf
<1>4. CASE Stops(t)
  BY <1>1, <1>4 DEF Stops, Idle, KeyOf
<1>5. CASE job' = [job EXCEPT ![t] = [at |-> "next", i |-> 1]]
  BY <1>1, <1>2, <1>5 DEF KeyOf
<1> QED
  BY <1>3, <1>4, <1>5

\* What a job changes of its own key while it is within its command is no other's
\* concern.
LEMMA OthersKeep ==
  ASSUME IInv, NEW t \in Transcripts, job[t].at \in Within,
         \A u \in Transcripts : u # t => job'[u] = job[u] /\ KeyOf(u)' = KeyOf(u),
         \A k \in Keys : k # KeyOf(t) =>
            /\ executed'[k] = executed[k] /\ logged'[k] = logged[k]
            /\ provider'.calls[k] = provider.calls[k]
            /\ k \in provider.applied => k \in provider'.applied
  PROVE  \A u \in Transcripts : u # t => JobAt(u)'
<1> SUFFICES ASSUME NEW u \in Transcripts, u # t PROVE JobAt(u)'
  OBVIOUS
<1>1. JobAt(u) /\ TypeOK
  BY DEF IInv, JobInv
<1>2. CASE job[u].at \in Within
  <2>1. KeyOf(u) # KeyOf(t) /\ job[u].i \in DOMAIN Commands[u] /\ KeyOf(u) \in Keys
    BY <1>1, <1>2, KeysOfJobs DEF TypeOK
  <2> QED
    BY <1>1, <2>1 DEF JobAt
<1>3. CASE job[u].at \notin Within
  BY <1>1, <1>3 DEF JobAt, Within
<1> QED
  BY <1>2, <1>3

\* What is said of a command: the place, and nothing else, is added.
LEMMA NotesFacts ==
  ASSUME TypeOK, NEW t \in Transcripts, job[t].i \in DOMAIN Commands[t],
         NEW what \in {"executed", "ran", "staged"}, Notes(what, t)
  PROVE  /\ said' \in [{"executed", "ran", "staged"} -> SUBSET Places]
         /\ said'[what] = said[what] \cup {<<t, job[t].i>>}
         /\ \A w \in {"executed", "ran", "staged"} : w # what => said'[w] = said[w]
<1>1. <<t, job[t].i>> \in Places
  BY DEF TypeOK, Places
<1>2. said \in [{"executed", "ran", "staged"} -> SUBSET Places]
  BY DEF TypeOK
<1> QED
  BY <1>1, <1>2 DEF Notes

\* It did happen, if the key of the command was applied.
LEMMA NotesHappened ==
  ASSUME TypeOK, ExecutedDidHappen, NEW t \in Transcripts, job[t].i \in DOMAIN Commands[t],
         NEW what \in {"executed", "ran", "staged"}, Notes(what, t),
         what # "staged" => KeyOf(t) \in provider.applied, UNCHANGED provider
  PROVE  ExecutedDidHappen'
<1>1. \A w \in {"executed", "ran"} : \A p \in said'[w] :
         p \in said[w] \/ (p = <<t, job[t].i>> /\ w = what)
  BY NotesFacts
<1>2. \A w \in {"executed", "ran"} : \A p \in said'[w] : Commands[p[1]][p[2]] \in provider.applied
  BY <1>1 DEF ExecutedDidHappen, KeyOf
<1> QED
  BY <1>2 DEF ExecutedDidHappen

\* The lock of a job that leaves its command goes, and no other.
LEMMA ReleaseFacts ==
  ASSUME TypeOK, NEW t \in Transcripts, job[t].at \in Within, Releases(t)
  PROVE  /\ lock' \in [Entities -> Transcripts \cup {Free}]
         /\ \A u \in Transcripts : u # t /\ job[u].at \in Within =>
               lock'[LockOf[KeyOf(u)]] = u
<1>1. lock \in [Entities -> Transcripts \cup {Free}]
  BY DEF TypeOK
<1>2. job[t].i \in DOMAIN Commands[t] /\ KeyOf(t) \in Keys /\ LockOf[KeyOf(t)] \in Entities
  BY KeysOfJobs, SkillsAssumption DEF TypeOK
<1>3. ASSUME NEW u \in Transcripts, u # t, job[u].at \in Within
      PROVE  lock'[LockOf[KeyOf(u)]] = u
  <2>1. LockOf[KeyOf(u)] # LockOf[KeyOf(t)] /\ lock[LockOf[KeyOf(u)]] = u
    BY <1>3, KeysOfJobs DEF TypeOK, KeyOf
  <2>2. LockOf[KeyOf(u)] \in Entities
    BY <1>3, KeysOfJobs, SkillsAssumption DEF TypeOK
  <2> QED
    BY <1>1, <2>1, <2>2 DEF Releases, Target
<1> QED
  BY <1>1, <1>2, <1>3 DEF Releases, Target

\* The parts of the type invariant that speak of where the jobs are.
Placed(t) ==
    /\ job[t].at # "idle" => job[t].i \in 1..Len(Commands[t]) + 1
    /\ job[t].at \in Within =>
          job[t].i \in DOMAIN Commands[t] /\ lock[LockOf[KeyOf(t)]] = t

Values ==
    /\ executed \in [Keys -> {"none", "in flight", "failed", "settled"}]
    /\ provider \in [applied : SUBSET Keys, calls : [Keys -> Nat]]
    /\ logged \in [Keys -> Nat]
    /\ job \in [Transcripts -> [at : {"idle", "next", "staging"} \cup Within, i : Nat]]
    /\ lock \in [Entities -> Transcripts \cup {Free}]
    /\ said \in [{"executed", "ran", "staged"} -> SUBSET Places]
    /\ ingested \subseteq Transcripts

LEMMA PlacedTyped ==
  /\ TypeOK <=> Values /\ \A t \in Transcripts : Placed(t)
  /\ TypeOK' <=> Values' /\ \A t \in Transcripts : Placed(t)'
<1>1. TypeOK <=> Values /\ \A t \in Transcripts : Placed(t)
  BY Zenon DEF TypeOK, Values, Placed, KeyOf
<1>2. TypeOK' <=> Values' /\ \A t \in Transcripts : Placed(t)'
  BY Zenon DEF TypeOK, Values, Placed, KeyOf
<1> QED
  BY <1>1, <1>2

\* The jobs stay where the type invariant says, if each other's lock is kept.
LEMMA PlacedKeeps ==
  ASSUME TypeOK, NEW t \in Transcripts,
         \A u \in Transcripts : u # t => job'[u] = job[u] /\ KeyOf(u)' = KeyOf(u),
         \A u \in Transcripts : u # t /\ job[u].at \in Within => lock'[LockOf[KeyOf(u)]] = u,
         Placed(t)'
  PROVE  \A u \in Transcripts : Placed(u)'
<1> SUFFICES ASSUME NEW u \in Transcripts, u # t PROVE Placed(u)'
  OBVIOUS
<1>1. Placed(u)
  BY PlacedTyped
<1> QED
  BY <1>1 DEF Placed

\* The locks of the others are theirs.
LEMMA LocksHeld ==
  ASSUME TypeOK
  PROVE  \A u \in Transcripts : job[u].at \in Within => lock[LockOf[KeyOf(u)]] = u
  BY PlacedTyped DEF Placed

\* A job that goes on within its call keeps its lock.
LEMMA StaysPlaced ==
  ASSUME TypeOK, NEW t \in Transcripts, job[t].at \in Within, NEW at \in Within,
         Goes(t, at), UNCHANGED lock
  PROVE  /\ job' \in [Transcripts -> [at : {"idle", "next", "staging"} \cup Within, i : Nat]]
         /\ \A u \in Transcripts : Placed(u)'
<1>1. /\ job'[t].at = at /\ job'[t].i = job[t].i
      /\ \A u \in Transcripts : u # t => job'[u] = job[u]
      /\ \A u \in Transcripts : KeyOf(u)' = KeyOf(u)
      /\ job' \in [Transcripts -> [at : {"idle", "next", "staging"} \cup Within, i : Nat]]
  BY GoesFacts
<1>2. Placed(t)
  BY PlacedTyped
<1>3. Placed(t)'
  BY <1>1, <1>2 DEF Placed, Within
<1> QED
  BY <1>1, <1>3, LocksHeld, PlacedKeeps

\* A job that leaves its call, to the next command or to stage this one, gives
\* up its lock and no other.
LEMMA LeavesPlaced ==
  ASSUME TypeOK, NEW t \in Transcripts, job[t].at \in Within, Releases(t),
         GoesOn(t) \/ Goes(t, "staging")
  PROVE  /\ job' \in [Transcripts -> [at : {"idle", "next", "staging"} \cup Within, i : Nat]]
         /\ lock' \in [Entities -> Transcripts \cup {Free}]
         /\ \A u \in Transcripts : Placed(u)'
<1>1. Placed(t)
  BY PlacedTyped
<1>2. job[t].i \in DOMAIN Commands[t]
  BY <1>1 DEF Placed
<1>3. CASE GoesOn(t)
  <2>1. /\ job'[t].at \in {"idle", "next"}
        /\ job'[t].at # "idle" => job'[t].i \in 1..Len(Commands[t]) + 1
        /\ \A u \in Transcripts : u # t => job'[u] = job[u] /\ KeyOf(u)' = KeyOf(u)
        /\ job' \in [Transcripts -> [at : {"idle", "next", "staging"} \cup Within, i : Nat]]
    BY <1>2, <1>3, LeavesFacts
  <2>2. Placed(t)'
    BY <2>1 DEF Placed, Within
  <2> QED
    BY <2>1, <2>2, ReleaseFacts, PlacedKeeps
<1>4. CASE Goes(t, "staging")
  <2>1. /\ job'[t].at = "staging" /\ job'[t].i = job[t].i
        /\ \A u \in Transcripts : u # t => job'[u] = job[u]
        /\ \A u \in Transcripts : KeyOf(u)' = KeyOf(u)
        /\ job' \in [Transcripts -> [at : {"idle", "next", "staging"} \cup Within, i : Nat]]
    BY <1>4, GoesFacts
  <2>2. Placed(t)'
    BY <1>1, <2>1 DEF Placed, Within
  <2> QED
    BY <2>1, <2>2, ReleaseFacts, PlacedKeeps
<1> QED
  BY <1>3, <1>4

\* Either way the jobs and the locks are where the type invariant says.
LEMMA CallPlaces ==
  ASSUME TypeOK, NEW t \in Transcripts, job[t].at \in Within,
         \/ UNCHANGED lock /\ \E at \in Within : Goes(t, at)
         \/ Releases(t) /\ (GoesOn(t) \/ Goes(t, "staging"))
  PROVE  /\ job' \in [Transcripts -> [at : {"idle", "next", "staging"} \cup Within, i : Nat]]
         /\ lock' \in [Entities -> Transcripts \cup {Free}]
         /\ \A u \in Transcripts : Placed(u)'
<1>1. CASE UNCHANGED lock /\ \E at \in Within : Goes(t, at)
  <2>1. PICK at \in Within : Goes(t, at)
    BY <1>1
  <2>2. lock' \in [Entities -> Transcripts \cup {Free}]
    BY <1>1 DEF TypeOK
  <2> QED
    BY <1>1, <2>1, <2>2, StaysPlaced
<1>2. CASE Releases(t) /\ (GoesOn(t) \/ Goes(t, "staging"))
  BY <1>2, LeavesPlaced
<1> QED
  BY <1>1, <1>2

-----------------------------------------------------------------------------
(* Each step of a job keeps the type invariant.                            *)

LEMMA TypeCall ==
  ASSUME TypeOK, NEW t \in Transcripts,
         \/ Asks(t) \/ Claims(t) \/ FailsBefore(t) \/ Calls(t) \/ Returns(t)
         \/ SettlesAsFailed(t) \/ Settles(t) \/ Logs(t)
  PROVE  TypeOK'
<1>1. Values /\ \A u \in Transcripts : Placed(u)
  BY PlacedTyped
<1>2. job[t].at \in Within
  BY DEF Asks, Claims, FailsBefore, Calls, Returns, SettlesAsFailed, Settles, Logs, Within
<1>3. job[t].i \in DOMAIN Commands[t] /\ KeyOf(t) \in Keys
  BY <1>1, <1>2, KeysOfJobs DEF Placed
<1>4. \/ UNCHANGED lock /\ \E at \in Within : Goes(t, at)
      \/ Releases(t) /\ (GoesOn(t) \/ Goes(t, "staging"))
  <2>1. {"claiming", "calling", "called", "settling", "failing", "logging"} \subseteq Within
    BY DEF Within
  <2> QED
    BY <2>1 DEF Asks, Claims, FailsBefore, Calls, Returns, SettlesAsFailed, Settles, Logs
<1>5. executed' \in [Keys -> {"none", "in flight", "failed", "settled"}]
  BY <1>1, <1>3 DEF Values, Asks, Claims, FailsBefore, Calls, Returns, SettlesAsFailed,
                    Settles, Logs
<1>6. provider' \in [applied : SUBSET Keys, calls : [Keys -> Nat]]
  <2>1. CASE Calls(t)
    <3>1. PICK applied \in {{}, {KeyOf(t)}} :
             provider' = [applied |-> provider.applied \cup applied,
                          calls |-> [provider.calls EXCEPT ![KeyOf(t)] = @ + 1]]
      BY <2>1 DEF Calls
    <3>2. provider.applied \in SUBSET Keys /\ provider.calls \in [Keys -> Nat]
      BY <1>1 DEF Values
    <3>3. [provider.calls EXCEPT ![KeyOf(t)] = @ + 1] \in [Keys -> Nat]
      BY <1>3, <3>2
    <3>4. provider.applied \cup applied \in SUBSET Keys
      BY <1>3, <3>2
    <3> QED
      BY <3>1, <3>3, <3>4
  <2>2. CASE ~Calls(t)
    <3>1. UNCHANGED provider
      BY <2>2 DEF Asks, Claims, FailsBefore, Returns, SettlesAsFailed, Settles, Logs
    <3> QED
      BY <1>1, <3>1 DEF Values
  <2> QED
    BY <2>1, <2>2
<1>7. logged' \in [Keys -> Nat]
  <2>1. UNCHANGED logged \/ logged' = [logged EXCEPT ![KeyOf(t)] = @ + 1]
    BY DEF Asks, Claims, FailsBefore, Calls, Returns, SettlesAsFailed, Settles, Logs
  <2>2. logged \in [Keys -> Nat]
    BY <1>1 DEF Values
  <2>3. CASE logged' = [logged EXCEPT ![KeyOf(t)] = @ + 1]
    BY <1>3, <2>2, <2>3
  <2>4. CASE UNCHANGED logged
    BY <2>2, <2>4
  <2> QED
    BY <2>1, <2>3, <2>4
<1>8. said' \in [{"executed", "ran", "staged"} -> SUBSET Places]
  <2>1. UNCHANGED said \/ Notes("executed", t) \/ Notes("ran", t)
    BY DEF Asks, Claims, FailsBefore, Calls, Returns, SettlesAsFailed, Settles, Logs
  <2>2. UNCHANGED said => said' \in [{"executed", "ran", "staged"} -> SUBSET Places]
    BY <1>1 DEF Values
  <2> QED
    BY <1>3, <2>1, <2>2, NotesFacts
<1>9. ingested' \subseteq Transcripts
  BY <1>1 DEF Values, Asks, Claims, FailsBefore, Calls, Returns, SettlesAsFailed, Settles, Logs
<1>10. /\ job' \in [Transcripts -> [at : {"idle", "next", "staging"} \cup Within, i : Nat]]
       /\ lock' \in [Entities -> Transcripts \cup {Free}]
       /\ \A u \in Transcripts : Placed(u)'
  BY <1>2, <1>4, CallPlaces
<1>11. Values'
  BY <1>5, <1>6, <1>7, <1>8, <1>9, <1>10 DEF Values
<1> QED
  BY <1>10, <1>11, PlacedTyped

LEMMA TypeStep ==
  ASSUME TypeOK, JobInv, NEW t \in Transcripts,
         Starts(t) \/ Skips(t) \/ Invokes(t) \/ Stages(t) \/ Finishes(t)
  PROVE  TypeOK'
<1>1. Values /\ \A u \in Transcripts : Placed(u)
  BY PlacedTyped
<1>2. Len(Commands[t]) \in Nat /\ DOMAIN Commands[t] = 1..Len(Commands[t])
  BY SkillsAssumption
<1>3. job[t].i \in DOMAIN Commands[t] => KeyOf(t) \in Keys /\ LockOf[KeyOf(t)] \in Entities
  BY KeysOfJobs, SkillsAssumption
<1>4. \A u \in Transcripts : job[u].at \in Within => lock[LockOf[KeyOf(u)]] = u
  BY LocksHeld
<1>5. job[t].at = "staging" => job[t].i \in DOMAIN Commands[t]
  BY DEF JobInv, JobAt
<1>6. CASE Asks(t) \/ Claims(t) \/ FailsBefore(t) \/ Calls(t) \/ Returns(t)
           \/ SettlesAsFailed(t) \/ Settles(t) \/ Logs(t)
  BY <1>6, TypeCall
<1>7. CASE Starts(t) \/ Skips(t) \/ Locks(t) \/ Stages(t) \/ Finishes(t)
  <2>a. SUFFICES
               /\ Values' /\ Placed(t)'
               /\ \A u \in Transcripts : u # t => job'[u] = job[u] /\ KeyOf(u)' = KeyOf(u)
               /\ \A u \in Transcripts : u # t /\ job[u].at \in Within => lock'[LockOf[KeyOf(u)]] = u
    BY PlacedTyped, PlacedKeeps
  <2>1. CASE Starts(t)
    <3>1. job'[t] = [at |-> "next", i |-> 1]
      BY <1>1, <2>1 DEF Starts, Values
    <3> QED
      BY <1>1, <1>2, <1>4, <2>1, <3>1, LeavesFacts DEF Starts, Values, Placed, Within
  <2>2. CASE Skips(t)
    <3>1. Goes(t, "staging")
      BY <2>2 DEF Skips
    <3>2. /\ job'[t].at = "staging" /\ job'[t].i = job[t].i
          /\ \A u \in Transcripts : u # t => job'[u] = job[u]
          /\ \A u \in Transcripts : KeyOf(u)' = KeyOf(u)
          /\ job' \in [Transcripts -> [at : {"idle", "next", "staging"} \cup Within, i : Nat]]
      BY <3>1, GoesFacts
    <3> QED
      BY <1>1, <1>2, <1>4, <2>2, <3>2 DEF Skips, Values, Placed, Within
  <2>3. CASE Locks(t)
    <3>1. /\ lock' \in [Entities -> Transcripts \cup {Free}] /\ lock'[LockOf[KeyOf(t)]] = t
          /\ \A u \in Transcripts : u # t /\ job[u].at \in Within => lock'[LockOf[KeyOf(u)]] = u
      <4>1. \A u \in Transcripts : job[u].at \in Within => LockOf[KeyOf(u)] # LockOf[KeyOf(t)]
        BY <1>4, <2>3, SkillsAssumption DEF Locks, Target
      <4>2. lock \in [Entities -> Transcripts \cup {Free}] /\ LockOf[KeyOf(t)] \in Entities
        BY <1>1, <1>3, <2>3 DEF Locks, Values
      <4> QED
        BY <1>4, <2>3, <4>1, <4>2 DEF Locks, Target
    <3>2. Goes(t, "asking") /\ "asking" \in Within
      BY <2>3 DEF Locks, Within
    <3>3. /\ job'[t].at = "asking" /\ job'[t].i = job[t].i
          /\ \A u \in Transcripts : u # t => job'[u] = job[u]
          /\ \A u \in Transcripts : KeyOf(u)' = KeyOf(u)
          /\ job' \in [Transcripts -> [at : {"idle", "next", "staging"} \cup Within, i : Nat]]
      BY <3>2, GoesFacts
    <3> QED
      BY <1>1, <1>2, <2>3, <3>1, <3>3 DEF Locks, Values, Placed
  <2>4. CASE Stages(t) \/ Finishes(t)
    <3>1. \/ GoesOn(t) /\ job[t].i \in DOMAIN Commands[t]
          \/ Stops(t)
      BY <1>5, <2>4 DEF Stages, Finishes
    <3>2. said' \in [{"executed", "ran", "staged"} -> SUBSET Places]
      <4>1. UNCHANGED said \/ (Notes("staged", t) /\ job[t].i \in DOMAIN Commands[t])
        BY <1>5, <2>4 DEF Stages, Finishes
      <4>2. UNCHANGED said => said' \in [{"executed", "ran", "staged"} -> SUBSET Places]
        BY <1>1 DEF Values
      <4> QED
        BY <4>1, <4>2, NotesFacts
    <3>3. /\ job'[t].at \in {"idle", "next"}
          /\ job'[t].at # "idle" => job'[t].i \in 1..Len(Commands[t]) + 1
          /\ \A u \in Transcripts : u # t => job'[u] = job[u] /\ KeyOf(u)' = KeyOf(u)
          /\ job' \in [Transcripts -> [at : {"idle", "next", "staging"} \cup Within, i : Nat]]
      BY <3>1, LeavesFacts
    <3>4. UNCHANGED <<executed, provider, logged, lock>> /\ ingested' \subseteq Transcripts
      BY <1>1, <2>4 DEF Stages, Finishes, Values
    <3>5. Values'
      BY <1>1, <3>2, <3>3, <3>4 DEF Values
    <3>6. Placed(t)'
      BY <3>3 DEF Placed, Within
    <3> QED
      BY <1>4, <3>3, <3>4, <3>5, <3>6
  <2> QED
    BY <1>7, <2>1, <2>2, <2>3, <2>4
<1> QED
  BY <1>6, <1>7 DEF Invokes

-----------------------------------------------------------------------------
(* Each step of a job keeps what the ledger says of the keys.               *)

\* What a step within a call does to the key of the call, and only to it.
LEMMA KeyStep ==
  ASSUME IInv, NEW t \in Transcripts,
         Starts(t) \/ Skips(t) \/ Invokes(t) \/ Stages(t) \/ Finishes(t)
  PROVE  KeyInv'
<1>1. Values /\ KeyInv /\ JobAt(t) /\ \A u \in Transcripts : Placed(u)
  BY PlacedTyped DEF IInv, JobInv
<1>2. job[t].at \in Within => KeyOf(t) \in Keys
  BY <1>1, KeysOfJobs DEF IInv, Placed
<1>3. CASE UNCHANGED <<executed, provider, logged>>
  BY <1>1, <1>3 DEF KeyInv
<1>4. CASE job[t].at = "claiming" /\ MayBegin(KeyOf(t)) /\ UNCHANGED <<provider, logged>>
           /\ executed' = [executed EXCEPT ![KeyOf(t)] = "in flight"]
  <2>1. KeyOf(t) \in Keys /\ executed[KeyOf(t)] = "none"
    BY <1>2, <1>4 DEF Within, MayBegin
  <2>2. executed \in [Keys -> {"none", "in flight", "failed", "settled"}]
    BY <1>1 DEF Values
  <2> QED
    BY <1>1, <1>4, <2>1, <2>2 DEF KeyInv
<1>5. CASE Calls(t)
  <2>1. KeyOf(t) \in Keys /\ executed[KeyOf(t)] = "in flight" /\ provider.calls[KeyOf(t)] = 0
    BY <1>1, <1>2, <1>5 DEF Within, Calls, JobAt
  <2>2. PICK applied \in {{}, {KeyOf(t)}} :
           provider' = [applied |-> provider.applied \cup applied,
                        calls |-> [provider.calls EXCEPT ![KeyOf(t)] = @ + 1]]
    BY <1>5 DEF Calls
  <2>3. provider.calls \in [Keys -> Nat]
    BY <1>1 DEF Values
  <2>4. /\ provider'.calls[KeyOf(t)] = 1
        /\ \A k \in Keys : k # KeyOf(t) => provider'.calls[k] = provider.calls[k]
        /\ provider'.applied = provider.applied \cup applied
    <3>1. /\ [provider.calls EXCEPT ![KeyOf(t)] = @ + 1][KeyOf(t)] = provider.calls[KeyOf(t)] + 1
          /\ \A k \in Keys : k # KeyOf(t) =>
                [provider.calls EXCEPT ![KeyOf(t)] = @ + 1][k] = provider.calls[k]
      BY <2>1, <2>3
    <3>2. /\ provider'.calls = [provider.calls EXCEPT ![KeyOf(t)] = @ + 1]
          /\ provider'.applied = provider.applied \cup applied
      BY <2>2
    <3>3. provider'.calls[KeyOf(t)] = 0 + 1
      <4>1. provider'.calls[KeyOf(t)] = provider.calls[KeyOf(t)] + 1
        BY <3>1, <3>2, Zenon
      <4> QED
        BY <2>1, <4>1, Zenon
    <3>4. 0 + 1 = 1
      OBVIOUS
    <3> QED
      BY <3>1, <3>2, <3>3, <3>4, Zenon
  <2>5. UNCHANGED <<executed, logged>>
    BY <1>5 DEF Calls
  <2>6. \A k \in Keys : k # KeyOf(t) => (k \in provider'.applied <=> k \in provider.applied)
    BY <2>4
  <2>7. ASSUME NEW k \in Keys
        PROVE  /\ executed'[k] = "none" => provider'.calls[k] = 0 /\ k \notin provider'.applied
               /\ executed'[k] = "settled" => k \in provider'.applied
               /\ provider'.calls[k] <= 1
    <3>1. CASE k = KeyOf(t)
      <4>1. executed'[k] = "in flight" /\ provider'.calls[k] = 1
        BY <2>1, <2>4, <2>5, <3>1, Zenon
      <4>2. executed'[k] # "none" /\ executed'[k] # "settled"
        BY <4>1, Zenon
      <4>3. 1 <= 1
        OBVIOUS
      <4> QED
        BY <4>1, <4>2, <4>3, Zenon
    <3>2. CASE k # KeyOf(t)
      BY <1>1, <2>4, <2>5, <2>6, <3>2 DEF KeyInv
    <3> QED
      BY <3>1, <3>2
  <2> QED
    BY <1>1, <2>5, <2>7 DEF KeyInv
<1>6. CASE job[t].at = "failing" /\ UNCHANGED <<provider, logged>>
           /\ executed' = [executed EXCEPT ![KeyOf(t)] = "failed"]
  <2>1. KeyOf(t) \in Keys /\ executed[KeyOf(t)] = "in flight"
    BY <1>1, <1>2, <1>6 DEF Within, JobAt
  <2>2. executed \in [Keys -> {"none", "in flight", "failed", "settled"}]
    BY <1>1 DEF Values
  <2> QED
    BY <1>1, <1>6, <2>1, <2>2 DEF KeyInv
<1>7. CASE job[t].at = "settling" /\ UNCHANGED <<provider, logged>>
           /\ executed' = [executed EXCEPT ![KeyOf(t)] = "settled"]
  <2>1. KeyOf(t) \in Keys /\ executed[KeyOf(t)] = "in flight" /\ KeyOf(t) \in provider.applied
    BY <1>1, <1>2, <1>7 DEF Within, JobAt
  <2>2. executed \in [Keys -> {"none", "in flight", "failed", "settled"}]
    BY <1>1 DEF Values
  <2> QED
    BY <1>1, <1>7, <2>1, <2>2 DEF KeyInv
<1>8. CASE job[t].at = "logging" /\ UNCHANGED <<executed, provider>>
           /\ logged' = [logged EXCEPT ![KeyOf(t)] = @ + 1]
  <2>1. KeyOf(t) \in Keys /\ executed[KeyOf(t)] = "settled" /\ logged[KeyOf(t)] = 0
    BY <1>1, <1>2, <1>8 DEF Within, JobAt
  <2>2. logged \in [Keys -> Nat]
    BY <1>1 DEF Values
  <2> QED
    BY <1>1, <1>8, <2>1, <2>2 DEF KeyInv
<1> QED
  BY <1>3, <1>4, <1>5, <1>6, <1>7, <1>8
     DEF Starts, Skips, Invokes, Locks, Asks, Claims, FailsBefore, Returns, SettlesAsFailed,
         Settles, Logs, Stages, Finishes

-----------------------------------------------------------------------------
(* Each step of a job keeps what every job may rely on.                     *)

\* A step within a call changes the ledger at its own key only, and undoes nothing
\* at the provider.
LEMMA OwnKeyOnly ==
  ASSUME IInv, NEW t \in Transcripts,
         \/ Asks(t) \/ Claims(t) \/ FailsBefore(t) \/ Calls(t) \/ Returns(t)
         \/ SettlesAsFailed(t) \/ Settles(t) \/ Logs(t)
  PROVE  /\ \A k \in Keys : k # KeyOf(t) =>
            /\ executed'[k] = executed[k] /\ logged'[k] = logged[k]
            /\ provider'.calls[k] = provider.calls[k]
         /\ provider.applied \subseteq provider'.applied
<1>1. Values
  BY PlacedTyped DEF IInv
<1>2. \A k \in Keys : k # KeyOf(t) => executed'[k] = executed[k]
  <2>1. \/ UNCHANGED executed
        \/ \E to \in {"in flight", "failed", "settled"} :
              executed' = [executed EXCEPT ![KeyOf(t)] = to]
    BY DEF Asks, Claims, FailsBefore, Calls, Returns, SettlesAsFailed, Settles, Logs
  <2>2. executed \in [Keys -> {"none", "in flight", "failed", "settled"}]
    BY <1>1 DEF Values
  <2> QED
    BY <2>1, <2>2
<1>3. \A k \in Keys : k # KeyOf(t) => logged'[k] = logged[k]
  <2>1. UNCHANGED logged \/ logged' = [logged EXCEPT ![KeyOf(t)] = @ + 1]
    BY DEF Asks, Claims, FailsBefore, Calls, Returns, SettlesAsFailed, Settles, Logs
  <2>2. logged \in [Keys -> Nat]
    BY <1>1 DEF Values
  <2> QED
    BY <2>1, <2>2
<1>4. /\ \A k \in Keys : k # KeyOf(t) => provider'.calls[k] = provider.calls[k]
      /\ provider.applied \subseteq provider'.applied
  <2>1. \/ UNCHANGED provider
        \/ \E applied \in {{}, {KeyOf(t)}} :
              provider' = [applied |-> provider.applied \cup applied,
                           calls |-> [provider.calls EXCEPT ![KeyOf(t)] = @ + 1]]
    BY DEF Asks, Claims, FailsBefore, Calls, Returns, SettlesAsFailed, Settles, Logs
  <2>2. provider.calls \in [Keys -> Nat]
    BY <1>1 DEF Values
  <2>3. \A k \in Keys : k # KeyOf(t) =>
           [provider.calls EXCEPT ![KeyOf(t)] = @ + 1][k] = provider.calls[k]
    BY <2>2
  <2>4. CASE UNCHANGED provider
    BY <2>4
  <2>5. ASSUME NEW applied \in {{}, {KeyOf(t)}},
               provider' = [applied |-> provider.applied \cup applied,
                            calls |-> [provider.calls EXCEPT ![KeyOf(t)] = @ + 1]]
        PROVE  /\ \A k \in Keys : k # KeyOf(t) => provider'.calls[k] = provider.calls[k]
               /\ provider.applied \subseteq provider'.applied
    <3>1. /\ provider'.calls = [provider.calls EXCEPT ![KeyOf(t)] = @ + 1]
          /\ provider'.applied = provider.applied \cup applied
      BY <2>5
    <3>2. provider.applied \subseteq provider'.applied
      BY <3>1
    <3> QED
      BY <2>3, <3>1, <3>2, Zenon
  <2> QED
    BY <2>1, <2>4, <2>5
<1> QED
  BY <1>2, <1>3, <1>4

\* Where a step puts the job that takes it.
LEMMA OwnPlace ==
  ASSUME IInv, NEW t \in Transcripts,
         Starts(t) \/ Skips(t) \/ Invokes(t) \/ Stages(t) \/ Finishes(t)
  PROVE  /\ \A u \in Transcripts : u # t => job'[u] = job[u] /\ KeyOf(u)' = KeyOf(u)
         /\ \/ job'[t].at \in {"idle", "next"}
            \/ /\ job[t].i \in DOMAIN Commands[t]
               /\ job'[t].i = job[t].i /\ KeyOf(t)' = KeyOf(t)
               /\ \E at \in {"staging"} \cup Within : Goes(t, at) /\ job'[t].at = at
<1>1. TypeOK /\ Values /\ Placed(t) /\ JobAt(t)
  BY PlacedTyped DEF IInv, JobInv
<1>2. job[t].at \in Within \cup {"staging"} => job[t].i \in DOMAIN Commands[t]
  BY <1>1 DEF Placed, JobAt
<1>3. CASE Starts(t) \/ (GoesOn(t) /\ job[t].at \in Within \cup {"staging"}) \/ Stops(t)
  BY <1>1, <1>2, <1>3, LeavesFacts DEF Starts
<1>4. CASE /\ \E at \in {"staging"} \cup Within : Goes(t, at)
           /\ job[t].i \in DOMAIN Commands[t]
  <2>1. PICK at \in {"staging"} \cup Within : Goes(t, at)
    BY <1>4
  <2>2. /\ job'[t].at = at /\ job'[t].i = job[t].i
        /\ \A u \in Transcripts : u # t => job'[u] = job[u]
        /\ \A u \in Transcripts : KeyOf(u)' = KeyOf(u)
    BY <1>1, <2>1, GoesFacts
  <2> QED
    BY <1>4, <2>1, <2>2
<1>5. \/ Starts(t) \/ (GoesOn(t) /\ job[t].at \in Within \cup {"staging"}) \/ Stops(t)
      \/ /\ \E at \in {"staging"} \cup Within : Goes(t, at)
         /\ job[t].i \in DOMAIN Commands[t]
  <2>1. {"asking", "claiming", "calling", "called", "settling", "failing", "logging"} \subseteq Within
    BY DEF Within
  <2> QED
    BY <1>2, <2>1 DEF Skips, Invokes, Locks, Asks, Claims, FailsBefore, Calls, Returns,
                      SettlesAsFailed, Settles, Logs, Stages, Finishes
<1> QED
  BY <1>3, <1>4, <1>5

\* What the job itself may rely on, where the step has put it.
LEMMA OwnJobAt ==
  ASSUME IInv, NEW t \in Transcripts,
         Starts(t) \/ Skips(t) \/ Invokes(t) \/ Stages(t) \/ Finishes(t)
  PROVE  JobAt(t)'
<1>1. TypeOK /\ Values /\ KeyInv /\ JobAt(t)
  BY PlacedTyped DEF IInv, JobInv
<1>2. CASE job'[t].at \in {"idle", "next"}
  BY <1>2 DEF JobAt
<1>3. CASE /\ job[t].i \in DOMAIN Commands[t]
           /\ job'[t].i = job[t].i /\ KeyOf(t)' = KeyOf(t)
           /\ \E at \in {"staging"} \cup Within : Goes(t, at) /\ job'[t].at = at
  <2>1. KeyOf(t) \in Keys
    BY <1>1, <1>3, KeysOfJobs
  <2>2. ASSUME NEW at \in {"staging"} \cup Within, Goes(t, at)
        PROVE  job'[t].at = at
    BY <1>1, <2>2, GoesFacts
  <2>3. CASE job'[t].at \in {"staging", "asking", "claiming"}
    BY <1>3, <2>3 DEF JobAt
  <2>4. CASE Claims(t) /\ MayBegin(KeyOf(t))
    <3>1. Goes(t, "calling") /\ "calling" \in Within
      BY <2>4 DEF Claims, Within
    <3>2. executed \in [Keys -> {"none", "in flight", "failed", "settled"}]
      BY <1>1 DEF Values
    <3>3. executed'[KeyOf(t)] = "in flight"
      BY <2>1, <2>4, <3>2 DEF Claims, MayBegin
    <3>4. provider'.calls[KeyOf(t)] = 0
      BY <1>1, <2>1, <2>4 DEF Claims, MayBegin, KeyInv
    <3> QED
      BY <1>3, <2>2, <3>1, <3>3, <3>4 DEF JobAt
  <2>5. CASE Calls(t)
    <3>1. Goes(t, "called") /\ "called" \in Within
      BY <2>5 DEF Calls, Within
    <3>2. executed'[KeyOf(t)] = "in flight"
      BY <1>1, <2>5 DEF Calls, JobAt
    <3> QED
      BY <1>3, <2>2, <3>1, <3>2 DEF JobAt
  <2>6. CASE Returns(t)
    <3>1. "settling" \in Within /\ "failing" \in Within
      BY DEF Within
    <3>2. \/ Goes(t, "settling") /\ KeyOf(t) \in provider'.applied
          \/ Goes(t, "failing")
      BY <2>6 DEF Returns
    <3>3. executed'[KeyOf(t)] = "in flight"
      BY <1>1, <2>6 DEF Returns, JobAt
    <3> QED
      BY <1>3, <2>2, <3>1, <3>2, <3>3 DEF JobAt
  <2>7. CASE Settles(t) /\ Goes(t, "logging") /\ UNCHANGED <<provider, logged>>
             /\ executed' = [executed EXCEPT ![KeyOf(t)] = "settled"]
    <3>1. "logging" \in Within
      BY DEF Within
    <3>2. executed \in [Keys -> {"none", "in flight", "failed", "settled"}] /\ logged \in [Keys -> Nat]
      BY <1>1 DEF Values
    <3>3. executed'[KeyOf(t)] = "settled" /\ KeyOf(t) \in provider'.applied
      BY <1>1, <2>1, <2>7, <3>2 DEF Settles, JobAt
    <3>4. logged'[KeyOf(t)] = 0
      <4>1. executed[KeyOf(t)] = "in flight"
        BY <1>1, <2>7 DEF Settles, JobAt
      <4>2. ~(logged[KeyOf(t)] > 0)
        BY <1>1, <2>1, <4>1 DEF KeyInv
      <4>3. logged[KeyOf(t)] \in Nat
        BY <2>1, <3>2
      <4>4. \A n \in Nat : ~(n > 0) => n = 0
        OBVIOUS
      <4> QED
        BY <2>7, <4>2, <4>3, <4>4
    <3> QED
      BY <1>3, <2>2, <2>7, <3>1, <3>3, <3>4 DEF JobAt
  <2>8. CASE Skips(t) \/ Locks(t) \/ Asks(t) \/ (Claims(t) /\ ~MayBegin(KeyOf(t)))
             \/ FailsBefore(t) \/ SettlesAsFailed(t)
    <3>1. job'[t].at \in {"idle", "next"} \/ \E at \in {"staging", "asking", "claiming"} : Goes(t, at)
      BY <1>1, <2>8, LeavesFacts, <1>3
         DEF Skips, Locks, Asks, Claims, FailsBefore, SettlesAsFailed
    <3>2. {"staging", "asking", "claiming"} \subseteq {"staging"} \cup Within
      BY DEF Within
    <3> QED
      BY <1>2, <2>2, <2>3, <3>1, <3>2
  <2>9. CASE \/ Starts(t) \/ Stops(t) \/ GoesOn(t)
    BY <1>1, <1>2, <1>3, <2>9, LeavesFacts DEF Starts
  <2> QED
    BY <2>4, <2>5, <2>6, <2>7, <2>8, <2>9
       DEF Invokes, Claims, Settles, Logs, Stages, Finishes
<1> QED
  BY <1>2, <1>3, OwnPlace

LEMMA JobStep ==
  ASSUME IInv, NEW t \in Transcripts,
         Starts(t) \/ Skips(t) \/ Invokes(t) \/ Stages(t) \/ Finishes(t)
  PROVE  JobInv'
<1>1. /\ JobAt(t)'
      /\ \A u \in Transcripts : u # t => job'[u] = job[u] /\ KeyOf(u)' = KeyOf(u)
  BY OwnJobAt, OwnPlace
<1>2. CASE \/ Asks(t) \/ Claims(t) \/ FailsBefore(t) \/ Calls(t) \/ Returns(t)
           \/ SettlesAsFailed(t) \/ Settles(t) \/ Logs(t)
  <2>1. job[t].at \in Within
    BY <1>2 DEF Asks, Claims, FailsBefore, Calls, Returns, SettlesAsFailed, Settles, Logs, Within
  <2>2. /\ \A k \in Keys : k # KeyOf(t) =>
              /\ executed'[k] = executed[k] /\ logged'[k] = logged[k]
              /\ provider'.calls[k] = provider.calls[k]
        /\ provider.applied \subseteq provider'.applied
    BY <1>2, OwnKeyOnly
  <2>3. \A k \in Keys : k # KeyOf(t) =>
              /\ executed'[k] = executed[k] /\ logged'[k] = logged[k]
              /\ provider'.calls[k] = provider.calls[k]
              /\ k \in provider.applied => k \in provider'.applied
    BY <2>2
  <2>4. \A u \in Transcripts : u # t => JobAt(u)'
    BY <1>1, <2>1, <2>3, OthersKeep
  <2> QED
    BY <1>1, <2>4 DEF JobInv
<1>3. CASE Starts(t) \/ Skips(t) \/ Locks(t) \/ Stages(t) \/ Finishes(t)
  <2>1. UNCHANGED <<executed, provider, logged>>
    BY <1>3 DEF Starts, Skips, Locks, Stages, Finishes
  <2>2. ASSUME NEW u \in Transcripts, u # t PROVE JobAt(u)'
    <3>1. JobAt(u)
      BY DEF IInv, JobInv
    <3> QED
      BY <1>1, <2>1, <2>2, <3>1 DEF JobAt
  <2> QED
    BY <1>1, <2>2 DEF JobInv
<1> QED
  BY <1>2, <1>3 DEF Invokes

-----------------------------------------------------------------------------
(* Each step of a job keeps what was said of the commands.                  *)

LEMMA SaidStep ==
  ASSUME IInv, NEW t \in Transcripts,
         Starts(t) \/ Skips(t) \/ Invokes(t) \/ Stages(t) \/ Finishes(t)
  PROVE  ExecutedDidHappen'
<1>1. TypeOK /\ KeyInv /\ JobAt(t) /\ Placed(t) /\ ExecutedDidHappen
  BY PlacedTyped DEF IInv, JobInv
<1>2. job[t].at \in Within \cup {"staging"} => job[t].i \in DOMAIN Commands[t] /\ KeyOf(t) \in Keys
  BY <1>1, KeysOfJobs DEF Placed, JobAt
<1>3. CASE UNCHANGED said
  <2>1. provider.applied \subseteq provider'.applied
    BY OwnKeyOnly DEF Starts, Skips, Invokes, Locks, Stages, Finishes
  <2> QED
    BY <1>1, <1>3, <2>1 DEF ExecutedDidHappen
<1>4. CASE /\ job[t].i \in DOMAIN Commands[t] /\ UNCHANGED provider
           /\ \E what \in {"executed", "ran", "staged"} :
                 Notes(what, t) /\ (what # "staged" => KeyOf(t) \in provider.applied)
  BY <1>1, <1>4, NotesHappened
<1>5. CASE Asks(t)
  <2>1. WasExecuted(KeyOf(t)) => KeyOf(t) \in provider.applied
    BY <1>1, <1>2, <1>5 DEF Asks, Within, KeyInv, WasExecuted
  <2> QED
    BY <1>2, <1>3, <1>4, <1>5, <2>1 DEF Asks, Within
<1>6. CASE Settles(t) \/ Logs(t)
  <2>1. KeyOf(t) \in provider.applied /\ job[t].at \in Within
    BY <1>1, <1>6 DEF Settles, Logs, JobAt, Within
  <2> QED
    BY <1>2, <1>3, <1>4, <1>6, <2>1 DEF Settles, Logs
<1>7. CASE Stages(t)
  BY <1>2, <1>3, <1>4, <1>7 DEF Stages
<1> QED
  BY <1>3, <1>5, <1>6, <1>7
     DEF Starts, Skips, Invokes, Locks, Claims, FailsBefore, Calls, Returns, SettlesAsFailed,
         Finishes

-----------------------------------------------------------------------------

\* The daemon's death takes the jobs and the locks, and leaves the ledger.
LEMMA DeathKeeps == IInv /\ Dies => IInv'
<1> SUFFICES ASSUME IInv, Dies PROVE IInv'
  OBVIOUS
<1>1. Values /\ KeyInv /\ ExecutedDidHappen
  BY PlacedTyped DEF IInv
<1>2. /\ UNCHANGED <<executed, provider, logged, said, ingested>>
      /\ \A t \in Transcripts : job'[t] = Idle
      /\ job' \in [Transcripts -> [at : {"idle", "next", "staging"} \cup Within, i : Nat]]
      /\ lock' \in [Entities -> Transcripts \cup {Free}]
  BY DEF Dies, Idle
<1>3. \A t \in Transcripts : Placed(t)' /\ JobAt(t)'
  <2>1. \A t \in Transcripts : job'[t].at = "idle"
    BY <1>2 DEF Idle
  <2> QED
    BY <2>1 DEF Placed, JobAt, Within
<1>4. Values'
  BY <1>1, <1>2 DEF Values
<1>5. KeyInv' /\ ExecutedDidHappen'
  BY <1>1, <1>2 DEF KeyInv, ExecutedDidHappen
<1> QED
  BY <1>3, <1>4, <1>5, PlacedTyped DEF IInv, JobInv

\* A step in which nothing changes keeps it.
LEMMA StutterKeeps == IInv /\ UNCHANGED vars => IInv'
<1> SUFFICES ASSUME IInv, UNCHANGED vars PROVE IInv'
  OBVIOUS
<1>1. Values /\ KeyInv /\ JobInv /\ ExecutedDidHappen /\ \A t \in Transcripts : Placed(t)
  BY PlacedTyped DEF IInv
<1>2. UNCHANGED <<executed, provider, logged, job, lock, said, ingested>>
  BY DEF vars
<1>3. Values'
  BY <1>1, <1>2 DEF Values
<1>4. \A t \in Transcripts : KeyOf(t)' = KeyOf(t)
  BY <1>2 DEF KeyOf
<1>5. \A t \in Transcripts : Placed(t)'
  BY <1>1, <1>2, <1>4 DEF Placed
<1>6. KeyInv' /\ ExecutedDidHappen'
  BY <1>1, <1>2 DEF KeyInv, ExecutedDidHappen
<1>7. JobInv'
  BY <1>1, <1>2, <1>4 DEF JobInv, JobAt
<1> QED
  BY <1>3, <1>5, <1>6, <1>7, PlacedTyped DEF IInv

\* Whatever the transcripts say and whenever the daemon dies, the invariant holds.
THEOREM Invariance == Spec => []IInv
<1>1. ASSUME IInv, [Next]_vars PROVE IInv'
  <2>1. CASE \E t \in Transcripts : Starts(t) \/ Skips(t) \/ Invokes(t) \/ Stages(t) \/ Finishes(t)
    <3>1. PICK t \in Transcripts : Starts(t) \/ Skips(t) \/ Invokes(t) \/ Stages(t) \/ Finishes(t)
      BY <2>1
    <3> QED
      BY <1>1, <3>1, TypeStep, KeyStep, JobStep, SaidStep DEF IInv
  <2> QED
    BY <1>1, <2>1, DeathKeeps, StutterKeeps DEF Next
<1> QED
  BY InitEstablishes, <1>1, PTL DEF Spec

\* Every value is of its type: a job within a call is at a command of its
\* transcript and holds the lock of that command's target.
THEOREM TypeCorrect == Spec => []TypeOK
<1>1. IInv => TypeOK
  BY DEF IInv
<1> QED
  BY <1>1, Invariance, PTL

\* A command's provider is called once, in however many transcripts it was said and
\* however often each is ingested.
THEOREM CallsAreSingle == Spec => []CalledOnce
<1>1. IInv => CalledOnce
  BY DEF IInv, KeyInv, CalledOnce
<1> QED
  BY <1>1, Invariance, PTL

\* Two jobs never have a change of one entity out at once.
THEOREM OneCallAnEntity == Spec => []OneAtATime
<1>1. IInv => OneAtATime
  BY KeysOfJobs DEF IInv, OneAtATime, Within
<1> QED
  BY <1>1, Invariance, PTL

\* What pm-ai says it executed was applied at the provider.
THEOREM ExecutedHappened == Spec => []ExecutedDidHappen
<1>1. IInv => ExecutedDidHappen
  BY DEF IInv
<1> QED
  BY <1>1, Invariance, PTL

\* No change is made whose key the ledger does not have, and the event log has one
\* line at most of a key, which the ledger has settled.
THEOREM AppliedHasItsClaim == Spec => []AppliedIsClaimed
<1>1. IInv => AppliedIsClaimed
  <2> SUFFICES ASSUME IInv PROVE AppliedIsClaimed
    OBVIOUS
  <2>1. Values /\ KeyInv
    BY PlacedTyped DEF IInv
  <2>2. \A k \in provider.applied : executed[k] # "none"
    BY <2>1 DEF Values, KeyInv
  <2>3. \A k \in Keys : logged[k] > 0 => executed[k] = "settled" /\ logged[k] = 1
    <3>1. logged \in [Keys -> Nat]
      BY <2>1 DEF Values
    <3> QED
      BY <2>1, <3>1 DEF KeyInv
  <2> QED
    BY <2>2, <2>3 DEF AppliedIsClaimed
<1> QED
  BY <1>1, Invariance, PTL

=============================================================================
