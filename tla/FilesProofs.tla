---------------------------- MODULE FilesProofs ----------------------------
(***************************************************************************)
(* Proofs about Files, for any writers, processes, files and spellings.    *)
(* The inductive invariant says that a rewriter past its claim holds the   *)
(* kernel lock of the one sidecar of its file, so that no two of them are  *)
(* there at once; and that what such a writer has prepared, and what the   *)
(* disk keeps of a file that was synced, holds all that anyone was told is *)
(* written and has not lost to the power.                                  *)
(***************************************************************************)
EXTENDS Files, TLAPS

\* The name of the sidecar of w's file, by whatever spelling it was reached.
Sidecar(w) == <<FileOf[w], CHOOSE c \in Spellings : TRUE>>

Rewrites(w) == ~Creates(w) /\ writer[w].at \in {"held", "staged", "synced", "published", "settled"}

\* Told that its entry is written, which the power has not taken.
Stands(w) == told[w] = "written" /\ w \notin lost

\* Who is past its claim holds the lock of its file's sidecar.
ClaimInv ==
    \A w \in Writers :
        /\ writer[w].at \in {"opened", "held"} => ~Creates(w)
        /\ writer[w].at = "opened" \/ Rewrites(w) =>
              writer[w].inode = sidecar[Sidecar(w)] /\ writer[w].inode # 0
        /\ Rewrites(w) => lock[writer[w].inode] = w

\* What a writer has prepared, and what is on the disk.
DataInv ==
    /\ \A f \in Files : \A K \in kept[f] : Torn \notin K
    /\ \A w \in Writers :
          /\ writer[w].at \in {"staged", "synced"} => w \in writer[w].new
          /\ writer[w].at = "synced" => writer[w].synced
          /\ Stands(w) \/ writer[w].at \in {"published", "settled"} => w \in seen[FileOf[w]]
          /\ (Stands(w) \/ writer[w].at = "settled") /\ w \notin unsynced =>
                \A K \in kept[FileOf[w]] : w \in K
          /\ \A u \in Writers :
                /\ Stands(u) /\ FileOf[u] = FileOf[w]
                /\ writer[w].at \in {"staged", "synced"} /\ ~Creates(w)
                => u \in writer[w].new

IInv == TypeOK /\ ClaimInv /\ DataInv

-----------------------------------------------------------------------------

LEMMA ZeroIsNone == 0 \notin Inodes
  BY DEF Inodes

\* Two rewriters of one file are never both past their claim.
LEMMA OneRewriter ==
  ASSUME IInv, NEW w \in Writers, NEW u \in Writers, FileOf[u] = FileOf[w],
         Rewrites(w), Rewrites(u)
  PROVE  u = w
<1>1. Sidecar(u) = Sidecar(w)
  BY Zenon DEF Sidecar
<1>2. /\ writer[w].inode = sidecar[Sidecar(w)] /\ lock[writer[w].inode] = w
      /\ writer[u].inode = sidecar[Sidecar(u)] /\ lock[writer[u].inode] = u
  BY Zenon DEF IInv, ClaimInv
<1> QED
  BY <1>1, <1>2, Zenon

LEMMA CreatesByFile ==
  \A w, u \in Writers : FileOf[u] = FileOf[w] => (Creates(u) <=> Creates(w))
  BY DEF Creates

\* The invariant holds in the initial state.
LEMMA InitEstablishes == Init => IInv
<1> SUFFICES ASSUME Init PROVE IInv
  OBVIOUS
<1>1. \A w \in Writers : writer[w] = Idle(0) /\ writer[w].at = "idle" /\ told[w] = "nothing"
  BY DEF Init, Idle, At
<1>2. TypeOK
  <2>1. MaxTries \in Nat /\ MaxLosses \in Nat
    BY FilesAssumption
  <2>2. Idle(0) \in Writing
    BY <2>1 DEF Idle, At, Writing
  <2>3. writer \in [Writers -> Writing]
    BY <2>2 DEF Init
  <2>4. \A i \in Inodes, w \in Writers : lock[i] # w
    BY FilesAssumption DEF Init
  <2> QED
    BY <2>1, <2>3, <2>4 DEF Init, TypeOK
<1>3. ClaimInv
  BY <1>1 DEF ClaimInv, Rewrites
<1>4. DataInv
  <2>1. \A f \in Files : \A K \in kept[f] : K = {}
    BY DEF Init
  <2> QED
    BY <1>1, <2>1 DEF DataInv, Stands
<1> QED
  BY <1>2, <1>3, <1>4 DEF IInv

-----------------------------------------------------------------------------
(* A writer's step, as far as it concerns the claims.                       *)

\* What the type invariant says of the locks.
LocksOf == \A i \in Inodes, w \in Writers :
              lock[i] = w => writer[w].at \notin {"idle", "opened"} /\ writer[w].inode = i

LEMMA Typed ==
  ASSUME TypeOK
  PROVE  /\ writer \in [Writers -> Writing] /\ lock \in [Inodes -> Writers \cup {Free}]
         /\ sidecar \in [Files \X Spellings -> Inodes \cup {0}] /\ LocksOf
  BY DEF TypeOK, LocksOf

\* A writer that gives up its claim becomes idle, and gives up no other's lock.
LEMMA LeavesFacts ==
  ASSUME TypeOK, NEW w \in Writers, NEW what, Leaves(w, what)
  PROVE  /\ writer' \in [Writers -> Writing] /\ lock' \in [Inodes -> Writers \cup {Free}]
         /\ writer'[w].at = "idle"
         /\ \A u \in Writers : u # w => writer'[u] = writer[u]
         /\ \A i \in Inodes : lock'[i] # w /\ (lock[i] # w => lock'[i] = lock[i])
<1>1. writer \in [Writers -> Writing] /\ lock \in [Inodes -> Writers \cup {Free}]
  BY Typed
<1>2. writer' = [writer EXCEPT ![w] = Idle(writer[w].tries)]
  BY DEF Leaves
<1>3. Idle(writer[w].tries) \in Writing /\ Idle(writer[w].tries).at = "idle"
  BY <1>1 DEF Idle, At, Writing
<1>4. /\ writer' \in [Writers -> Writing] /\ writer'[w].at = "idle"
      /\ \A u \in Writers : u # w => writer'[u] = writer[u]
  BY <1>1, <1>2, <1>3
<1>5. lock' = [i \in Inodes |-> IF lock[i] = w THEN Free ELSE lock[i]]
  BY DEF Leaves, Unlocks
<1>6. w # Free
  BY FilesAssumption
<1>7. /\ lock' \in [Inodes -> Writers \cup {Free}]
      /\ \A i \in Inodes : lock'[i] # w /\ (lock[i] # w => lock'[i] = lock[i])
  BY <1>1, <1>5, <1>6
<1> QED
  BY <1>4, <1>7

\* What one writer does with the claims leaves the others' to them.
LEMMA ClaimsOfOthers ==
  ASSUME TypeOK, ClaimInv, NEW w \in Writers,
         \A u \in Writers : u # w => writer'[u] = writer[u],
         \A n \in Files \X Spellings : sidecar[n] # 0 => sidecar'[n] = sidecar[n],
         \A i \in Inodes : lock[i] # w /\ lock[i] # Free => lock'[i] = lock[i]
  PROVE  \A u \in Writers : u # w =>
            /\ writer'[u].at \in {"opened", "held"} => ~Creates(u)
            /\ writer'[u].at = "opened" \/ Rewrites(u)' =>
                  writer'[u].inode = sidecar'[Sidecar(u)] /\ writer'[u].inode # 0
            /\ Rewrites(u)' => lock'[writer'[u].inode] = u
<1> SUFFICES ASSUME NEW u \in Writers, u # w
             PROVE  /\ writer'[u].at \in {"opened", "held"} => ~Creates(u)
                    /\ writer'[u].at = "opened" \/ Rewrites(u)' =>
                          writer'[u].inode = sidecar'[Sidecar(u)] /\ writer'[u].inode # 0
                    /\ Rewrites(u)' => lock'[writer'[u].inode] = u
  OBVIOUS
<1>1. writer'[u] = writer[u] /\ (Rewrites(u)' <=> Rewrites(u))
  BY DEF Rewrites, Creates
<1>2. /\ writer[u].at \in {"opened", "held"} => ~Creates(u)
      /\ writer[u].at = "opened" \/ Rewrites(u) =>
            writer[u].inode = sidecar[Sidecar(u)] /\ writer[u].inode # 0
      /\ Rewrites(u) => lock[writer[u].inode] = u
  BY DEF ClaimInv
<1>3. Sidecar(u) \in Files \X Spellings
  <2>1. FileOf[u] \in Files
    BY FilesAssumption
  <2>2. (CHOOSE c \in Spellings : TRUE) \in Spellings
    BY FilesAssumption
  <2> QED
    BY <2>1, <2>2 DEF Sidecar
<1>4. writer[u].inode \in Inodes \cup {0}
  BY Typed DEF Writing
<1>5. u # Free
  BY FilesAssumption
<1>6. writer[u].at = "opened" \/ Rewrites(u) =>
         writer[u].inode = sidecar'[Sidecar(u)] /\ writer[u].inode # 0
  BY <1>2, <1>3
<1>7. Rewrites(u) => lock'[writer[u].inode] = u
  BY <1>2, <1>4, <1>5
<1> QED
  BY <1>1, <1>2, <1>6, <1>7

\* What a step of writer w is to the claims: it changes w's place, the locks w has or
\* takes, and the name of a sidecar that is not there.
OwnStep(w) ==
    /\ writer' \in [Writers -> Writing] /\ lock' \in [Inodes -> Writers \cup {Free}]
    /\ sidecar' \in [Files \X Spellings -> Inodes \cup {0}]
    /\ \A u \in Writers : u # w => writer'[u] = writer[u]
    /\ \A n \in Files \X Spellings : sidecar[n] # 0 => sidecar'[n] = sidecar[n]
    /\ \A i \in Inodes :
          lock'[i] = lock[i] \/ (lock[i] \in {w, Free} /\ lock'[i] \in {w, Free})
    /\ \A i \in Inodes :
          lock'[i] = w => writer'[w].at \notin {"idle", "opened"} /\ writer'[w].inode = i
    /\ writer'[w].at \in {"opened", "held"} => ~Creates(w)
    /\ writer'[w].at = "opened" \/ Rewrites(w)' =>
          writer'[w].inode = sidecar'[Sidecar(w)] /\ writer'[w].inode # 0
    /\ Rewrites(w)' => lock'[writer'[w].inode] = w

LEMMA OwnStepKeeps ==
  ASSUME TypeOK, ClaimInv, NEW w \in Writers, OwnStep(w)
  PROVE  ClaimInv' /\ LocksOf'
<1>1. \A u \in Writers : u # w =>
            /\ writer'[u].at \in {"opened", "held"} => ~Creates(u)
            /\ writer'[u].at = "opened" \/ Rewrites(u)' =>
                  writer'[u].inode = sidecar'[Sidecar(u)] /\ writer'[u].inode # 0
            /\ Rewrites(u)' => lock'[writer'[u].inode] = u
  BY ClaimsOfOthers DEF OwnStep
<1>2. ClaimInv'
  <2>1. \A u \in Writers : Creates(u)' <=> Creates(u)
    BY DEF Creates
  <2>2. \A u \in Writers : Sidecar(u)' = Sidecar(u)
    BY DEF Sidecar
  <2> QED
    BY <1>1, <2>1, <2>2 DEF OwnStep, ClaimInv
<1>3. LocksOf'
  <2>1. \A u \in Writers : u # Free
    BY FilesAssumption
  <2>2. LocksOf
    BY Typed
  <2> QED
    BY <2>1, <2>2 DEF OwnStep, LocksOf
<1> QED
  BY <1>2, <1>3

\* A step that keeps w's claim, where it has one.
LEMMA StaysFacts ==
  ASSUME TypeOK, ClaimInv, NEW w \in Writers, UNCHANGED <<sidecar, lock>>,
         NEW r \in Writing, writer' = [writer EXCEPT ![w] = r],
         r.at \in {"staged", "synced", "published", "settled"},
         \/ writer[w].at \in {"held", "staged", "synced", "published", "settled"}
            /\ r.inode = writer[w].inode
         \/ Creates(w) /\ writer[w].at = "idle"
  PROVE  OwnStep(w)
<1>1. /\ writer \in [Writers -> Writing] /\ lock \in [Inodes -> Writers \cup {Free}]
      /\ sidecar \in [Files \X Spellings -> Inodes \cup {0}] /\ LocksOf
  BY Typed
<1>2. /\ writer' \in [Writers -> Writing] /\ writer'[w] = r
      /\ \A u \in Writers : u # w => writer'[u] = writer[u]
  BY <1>1
<1>3. \A i \in Inodes : lock[i] = w => r.inode = i
  BY <1>1 DEF LocksOf
<1>4. Rewrites(w)' => r.inode = sidecar[Sidecar(w)] /\ r.inode # 0 /\ lock[r.inode] = w
  BY <1>2 DEF Rewrites, ClaimInv, Creates
<1> QED
  BY <1>1, <1>2, <1>3, <1>4 DEF OwnStep

\* A step in which w gives its claim up.
LEMMA LeavesIsOwn ==
  ASSUME TypeOK, NEW w \in Writers, NEW what, Leaves(w, what)
  PROVE  OwnStep(w)
<1>1. sidecar \in [Files \X Spellings -> Inodes \cup {0}] /\ UNCHANGED sidecar
  BY Typed DEF Leaves
<1>2. /\ writer' \in [Writers -> Writing] /\ lock' \in [Inodes -> Writers \cup {Free}]
      /\ writer'[w].at = "idle"
      /\ \A u \in Writers : u # w => writer'[u] = writer[u]
      /\ \A i \in Inodes : lock'[i] # w /\ (lock[i] # w => lock'[i] = lock[i])
  BY LeavesFacts
<1>3. \A i \in Inodes : lock[i] = w => lock'[i] = Free
  BY DEF Leaves, Unlocks
<1>4. ~Rewrites(w)'
  BY <1>2 DEF Rewrites
<1> QED
  BY <1>1, <1>2, <1>3, <1>4 DEF OwnStep

LEMMA OpensIsOwn ==
  ASSUME TypeOK, NEW w \in Writers, Opens(w)
  PROVE  OwnStep(w)
<1>1. /\ writer \in [Writers -> Writing] /\ lock \in [Inodes -> Writers \cup {Free}]
      /\ sidecar \in [Files \X Spellings -> Inodes \cup {0}] /\ LocksOf
  BY Typed
<1>2. PICK i \in Inodes :
         /\ sidecar[Sidecar(w)] # 0 => i = sidecar[Sidecar(w)]
         /\ sidecar' = [sidecar EXCEPT ![Sidecar(w)] = i]
         /\ writer' = [writer EXCEPT ![w] = At("opened", i, {}, writer[w].tries + 1)]
  BY Zenon DEF Opens, Opened, Sidecar, Canonical
<1>3. Sidecar(w) \in Files \X Spellings
  BY FilesAssumption DEF Sidecar
<1>4. i # 0
  BY ZeroIsNone
<1>5. MaxTries \in Nat /\ writer[w].tries \in 0..MaxTries /\ writer[w].tries < MaxTries
  BY <1>1, FilesAssumption DEF Opens, Writing
<1>6. /\ At("opened", i, {}, writer[w].tries + 1) \in Writing
      /\ At("opened", i, {}, writer[w].tries + 1).at = "opened"
      /\ At("opened", i, {}, writer[w].tries + 1).inode = i
  <2>1. writer[w].tries + 1 \in 0..MaxTries
    BY <1>5
  <2> QED
    BY <2>1 DEF At, Writing
<1>7. /\ writer' \in [Writers -> Writing] /\ writer'[w].at = "opened" /\ writer'[w].inode = i
      /\ \A u \in Writers : u # w => writer'[u] = writer[u]
  BY <1>1, <1>2, <1>6
<1>8. /\ sidecar' \in [Files \X Spellings -> Inodes \cup {0}] /\ sidecar'[Sidecar(w)] = i
      /\ \A n \in Files \X Spellings : sidecar[n] # 0 => sidecar'[n] = sidecar[n]
  BY <1>1, <1>2, <1>3
<1>9. UNCHANGED lock /\ ~Creates(w) /\ \A j \in Inodes : lock[j] # w
  BY <1>1 DEF Opens, LocksOf
<1>10. ~Rewrites(w)'
  BY <1>7 DEF Rewrites
<1> QED
  BY <1>1, <1>4, <1>7, <1>8, <1>9, <1>10 DEF OwnStep

LEMMA ClaimsIsOwn ==
  ASSUME TypeOK, ClaimInv, NEW w \in Writers, Claims(w)
  PROVE  OwnStep(w)
<1>1. /\ writer \in [Writers -> Writing] /\ lock \in [Inodes -> Writers \cup {Free}]
      /\ sidecar \in [Files \X Spellings -> Inodes \cup {0}] /\ LocksOf
  BY Typed
<1>2. /\ ~Creates(w) /\ writer[w].inode = sidecar[Sidecar(w)] /\ writer[w].inode # 0
      /\ writer[w].inode \in Inodes /\ UNCHANGED sidecar
      /\ \A i \in Inodes : lock[i] # w
  BY <1>1 DEF Claims, ClaimInv, Writing, LocksOf
<1>3. CASE /\ lock[writer[w].inode] = Free
           /\ lock' = [lock EXCEPT ![writer[w].inode] = w] /\ Goes(w, "held")
  <2>1. /\ writer' \in [Writers -> Writing] /\ writer'[w].at = "held"
        /\ writer'[w].inode = writer[w].inode
        /\ \A u \in Writers : u # w => writer'[u] = writer[u]
    <3>1. writer[w] \in Writing
      BY <1>1
    <3>2. /\ [writer[w] EXCEPT !.at = "held"] \in Writing
          /\ [writer[w] EXCEPT !.at = "held"].at = "held"
          /\ [writer[w] EXCEPT !.at = "held"].inode = writer[w].inode
      BY <3>1 DEF Writing
    <3>3. writer' = [writer EXCEPT ![w] = [writer[w] EXCEPT !.at = "held"]]
      BY <1>3 DEF Goes
    <3> QED
      BY <1>1, <3>2, <3>3
  <2>2. /\ lock' \in [Inodes -> Writers \cup {Free}] /\ lock'[writer[w].inode] = w
        /\ \A i \in Inodes : i # writer[w].inode => lock'[i] = lock[i]
    BY <1>1, <1>2, <1>3
  <2> QED
    BY <1>1, <1>2, <1>3, <2>1, <2>2 DEF OwnStep
<1>4. CASE writer' = [writer EXCEPT ![w] = Idle(writer[w].tries)] /\ UNCHANGED lock
  <2>1. Idle(writer[w].tries) \in Writing /\ Idle(writer[w].tries).at = "idle"
    BY <1>1 DEF Idle, At, Writing
  <2>2. /\ writer' \in [Writers -> Writing] /\ writer'[w].at = "idle"
        /\ \A u \in Writers : u # w => writer'[u] = writer[u]
    BY <1>1, <1>4, <2>1
  <2>3. ~Rewrites(w)'
    BY <2>2 DEF Rewrites
  <2> QED
    BY <1>1, <1>2, <1>4, <2>2, <2>3 DEF OwnStep
<1> QED
  BY <1>3, <1>4 DEF Claims

-----------------------------------------------------------------------------
(* The other steps, and with each the writer's prepared file.               *)

\* A step that stages, syncs or publishes: what becomes of the writer.
Turns(w, r) ==
    /\ r \in Writing /\ writer' = [writer EXCEPT ![w] = r]
    /\ UNCHANGED <<sidecar, lock>> /\ OwnStep(w)

LEMMA StagesFacts ==
  ASSUME TypeOK, ClaimInv, DataInv, NEW w \in Writers, Stages(w)
  PROVE  \E r : /\ Turns(w, r) /\ r.at = "staged" /\ w \in r.new
                /\ ~Creates(w) => r.new = seen[FileOf[w]] \cup {w} /\ UNCHANGED told
                /\ Creates(w) => told' = [told EXCEPT ![w] = "nothing"]
<1>1. writer \in [Writers -> Writing] /\ writer[w] \in Writing
  BY Typed
<1>2. CASE /\ writer[w].at = "held" /\ UNCHANGED told
           /\ writer' = [writer EXCEPT ![w].at = "staged", ![w].new = seen[FileOf[w]] \cup {w}]
  <2> DEFINE r == [writer[w] EXCEPT !.at = "staged", !.new = seen[FileOf[w]] \cup {w}]
  <2>1. seen[FileOf[w]] \subseteq Writers
    <3>1. FileOf[w] \in Files
      BY FilesAssumption
    <3> QED
      BY <3>1 DEF TypeOK, DataInv
  <2>2. /\ r \in Writing /\ r.at = "staged" /\ r.new = seen[FileOf[w]] \cup {w}
        /\ r.inode = writer[w].inode
    BY <1>1, <2>1 DEF Writing
  <2>3. writer' = [writer EXCEPT ![w] = r]
    BY <1>1, <1>2
  <2>4. UNCHANGED <<sidecar, lock>> /\ ~Creates(w)
    BY <1>2 DEF Stages, ClaimInv
  <2> HIDE DEF r
  <2>5. OwnStep(w)
    BY <1>2, <2>2, <2>3, <2>4, StaysFacts
  <2> QED
    BY <1>2, <2>2, <2>3, <2>4, <2>5 DEF Turns
<1>3. CASE /\ writer[w].at = "idle" /\ Creates(w) /\ writer[w].tries < MaxTries
           /\ writer' = [writer EXCEPT ![w] = At("staged", 0, {w}, writer[w].tries + 1)]
           /\ told' = [told EXCEPT ![w] = "nothing"]
  <2> DEFINE r == At("staged", 0, {w}, writer[w].tries + 1)
  <2>1. writer[w].tries + 1 \in 0..MaxTries
    BY <1>1, <1>3, FilesAssumption DEF Writing
  <2>3. r \in Writing /\ r.at = "staged" /\ w \in r.new
    BY <2>1 DEF At, Writing
  <2>4. UNCHANGED <<sidecar, lock>>
    BY DEF Stages
  <2> HIDE DEF r
  <2>5. OwnStep(w)
    BY <1>3, <2>3, <2>4, StaysFacts DEF r
  <2> QED
    BY <1>3, <2>3, <2>4, <2>5 DEF Turns, r
<1> QED
  BY <1>2, <1>3 DEF Stages

LEMMA SyncsFacts ==
  ASSUME TypeOK, ClaimInv, NEW w \in Writers, SyncsStaged(w)
  PROVE  \E r : Turns(w, r) /\ r.at = "synced" /\ r.new = writer[w].new /\ r.synced
<1> DEFINE r == [writer[w] EXCEPT !.at = "synced", !.synced = TRUE]
<1>1. writer \in [Writers -> Writing] /\ writer[w] \in Writing
  BY Typed
<1>2. /\ r \in Writing /\ r.at = "synced" /\ r.new = writer[w].new /\ r.synced
      /\ r.inode = writer[w].inode
  BY <1>1 DEF Writing
<1>3. /\ writer' = [writer EXCEPT ![w] = r] /\ writer[w].at = "staged"
      /\ UNCHANGED <<sidecar, lock>>
  BY <1>1 DEF SyncsStaged, Syncs
<1> HIDE DEF r
<1>4. OwnStep(w)
  BY <1>2, <1>3, StaysFacts
<1> QED
  BY <1>2, <1>3, <1>4 DEF Turns

\* A file is shown, or its directory synced: the writer goes on with what it prepared.
LEMMA GoesFacts ==
  ASSUME TypeOK, ClaimInv, NEW w \in Writers, NEW at \in {"published", "settled"},
         writer[w].at \in {"synced", "published"}, Goes(w, at), UNCHANGED <<sidecar, lock>>
  PROVE  \E r : Turns(w, r) /\ r.at = at
<1> DEFINE r == [writer[w] EXCEPT !.at = at]
<1>1. writer \in [Writers -> Writing] /\ writer[w] \in Writing
  BY Typed
<1>2. r \in Writing /\ r.at = at /\ r.inode = writer[w].inode
  BY <1>1 DEF Writing
<1>3. writer' = [writer EXCEPT ![w] = r]
  BY <1>1 DEF Goes
<1> HIDE DEF r
<1>4. OwnStep(w)
  BY <1>2, <1>3, StaysFacts
<1> QED
  BY <1>2, <1>3, <1>4 DEF Turns

-----------------------------------------------------------------------------
(* What is on the disk, and what the writers were told.                     *)

Disk ==
    /\ seen \in [Files -> SUBSET (Writers \cup {Torn})]
    /\ kept \in [Files -> SUBSET SUBSET (Writers \cup {Torn})]
    /\ \A f \in Files : seen[f] \in kept[f]
    /\ told \in [Writers -> {"nothing", "busy", "taken", "failed", "written"}]
    /\ losses \in 0..MaxLosses /\ unsynced \subseteq Writers /\ lost \subseteq Writers

\* A step that shows nothing new, and tells nobody that its entry is written.
LEMMA NothingShown ==
  ASSUME TypeOK, DataInv, NEW w \in Writers, UNCHANGED <<seen, kept, unsynced, lost>>,
         \A u \in Writers : u # w => writer'[u] = writer[u],
         \A u \in Writers : told'[u] = "written" => told[u] = "written",
         writer'[w].at \in {"staged", "synced"} => w \in writer'[w].new,
         writer'[w].at = "synced" => writer'[w].synced,
         writer'[w].at \notin {"published", "settled"},
         writer'[w].at \in {"staged", "synced"} /\ ~Creates(w) =>
            \A u \in Writers : Stands(u) /\ FileOf[u] = FileOf[w] => u \in writer'[w].new
  PROVE  DataInv'
<1>1. \A u \in Writers : Stands(u)' => Stands(u)
  BY DEF Stands
<1>2. \A f \in Files : \A K \in kept'[f] : Torn \notin K
  BY DEF DataInv
<1>3. ASSUME NEW x \in Writers
      PROVE  /\ writer'[x].at \in {"staged", "synced"} => x \in writer'[x].new
             /\ writer'[x].at = "synced" => writer'[x].synced
             /\ Stands(x)' \/ writer'[x].at \in {"published", "settled"}
                   => x \in seen'[FileOf[x]]
             /\ (Stands(x)' \/ writer'[x].at = "settled") /\ x \notin unsynced' =>
                   \A K \in kept'[FileOf[x]] : x \in K
  <2>1. CASE x = w
    BY <1>1, <2>1 DEF DataInv
  <2>2. CASE x # w
    BY <1>1, <2>2 DEF DataInv
  <2> QED
    BY <2>1, <2>2
<1>4. ASSUME NEW x \in Writers, NEW u \in Writers,
             Stands(u)', FileOf[u] = FileOf[x],
             writer'[x].at \in {"staged", "synced"}, ~Creates(x)
      PROVE  u \in writer'[x].new
  BY <1>1, <1>4 DEF DataInv
<1> QED
  BY <1>2, <1>3, <1>4 DEF DataInv, Creates

LEMMA DiskKeeps ==
  ASSUME TypeOK, UNCHANGED <<seen, kept, losses, unsynced, lost>>,
         told' \in [Writers -> {"nothing", "busy", "taken", "failed", "written"}]
  PROVE  Disk'
  BY DEF TypeOK, Disk

\* Told that it was not written.
LEMMA TellsNot ==
  ASSUME TypeOK, NEW w \in Writers, NEW what \in {"nothing", "busy", "taken", "failed"},
         told' = [told EXCEPT ![w] = what]
  PROVE  /\ told' \in [Writers -> {"nothing", "busy", "taken", "failed", "written"}]
         /\ \A u \in Writers : told'[u] = "written" => told[u] = "written"
  BY DEF TypeOK

\* A writer that opens, claims, fails, or finds its name taken.
LEMMA OpensClaimsFails ==
  ASSUME IInv, NEW w \in Writers,
         \/ Opens(w) \/ Claims(w) \/ Fails(w)
         \/ Leaves(w, "taken") /\ UNCHANGED <<seen, kept, losses, unsynced, lost>>
  PROVE  OwnStep(w) /\ DataInv' /\ Disk'
<1>1. TypeOK /\ ClaimInv /\ DataInv /\ UNCHANGED <<seen, kept, losses, unsynced, lost>>
  BY DEF IInv, Opens, Claims, Fails
<1>2. /\ told' \in [Writers -> {"nothing", "busy", "taken", "failed", "written"}]
      /\ \A u \in Writers : told'[u] = "written" => told[u] = "written"
  <2>1. UNCHANGED told \/ \E what \in {"nothing", "busy", "taken", "failed"} :
                              told' = [told EXCEPT ![w] = what]
    BY DEF Opens, Claims, Fails, Leaves
  <2>2. UNCHANGED told => told' \in [Writers -> {"nothing", "busy", "taken", "failed", "written"}]
    BY <1>1 DEF TypeOK
  <2> QED
    BY <1>1, <2>1, <2>2, TellsNot
<1>3. OwnStep(w)
  BY <1>1, OpensIsOwn, ClaimsIsOwn, LeavesIsOwn DEF Fails
<1>4. writer'[w].at \in {"idle", "opened", "held"}
  <2>1. writer \in [Writers -> Writing] /\ writer[w] \in Writing
    BY <1>1, Typed
  <2>2. CASE Opens(w)
    <3>1. PICK i \in Inodes :
             writer' = [writer EXCEPT ![w] = At("opened", i, {}, writer[w].tries + 1)]
      BY <2>2, Zenon DEF Opens
    <3>2. At("opened", i, {}, writer[w].tries + 1).at = "opened"
      BY DEF At
    <3> QED
      BY <2>1, <3>1, <3>2
  <2>3. CASE Claims(w)
    <3>1. Goes(w, "held") => writer'[w].at = "held"
      BY <2>1 DEF Goes, Writing
    <3>2. writer' = [writer EXCEPT ![w] = Idle(writer[w].tries)] => writer'[w].at = "idle"
      BY <2>1 DEF Idle, At
    <3> QED
      BY <2>3, <3>1, <3>2 DEF Claims
  <2>4. ASSUME NEW what, Leaves(w, what) PROVE writer'[w].at = "idle"
    BY <1>1, <2>4, LeavesFacts
  <2> QED
    BY <2>2, <2>3, <2>4 DEF Fails
<1>5. \A u \in Writers : u # w => writer'[u] = writer[u]
  BY <1>3 DEF OwnStep
<1>6. DataInv'
  BY <1>1, <1>2, <1>4, <1>5, NothingShown
<1> QED
  BY <1>1, <1>2, <1>3, <1>6, DiskKeeps

\* A writer that stages its file, or syncs it.
LEMMA StagesSyncs ==
  ASSUME IInv, NEW w \in Writers, Stages(w) \/ SyncsStaged(w)
  PROVE  OwnStep(w) /\ DataInv' /\ Disk'
<1>1. TypeOK /\ ClaimInv /\ DataInv /\ UNCHANGED <<seen, kept, losses, unsynced, lost>>
  BY DEF IInv, Stages, SyncsStaged
<1>2. writer \in [Writers -> Writing] /\ told \in [Writers -> {"nothing", "busy", "taken", "failed", "written"}]
  BY <1>1, Typed DEF TypeOK
<1>3. CASE Stages(w)
  <2>1. PICK r : /\ Turns(w, r) /\ r.at = "staged" /\ w \in r.new
                 /\ ~Creates(w) => r.new = seen[FileOf[w]] \cup {w} /\ UNCHANGED told
                 /\ Creates(w) => told' = [told EXCEPT ![w] = "nothing"]
    BY <1>1, <1>3, StagesFacts
  <2>2. writer'[w] = r /\ \A u \in Writers : u # w => writer'[u] = writer[u]
    BY <1>2, <2>1 DEF Turns
  <2>3. /\ told' \in [Writers -> {"nothing", "busy", "taken", "failed", "written"}]
        /\ \A u \in Writers : told'[u] = "written" => told[u] = "written"
    BY <1>1, <1>2, <2>1, TellsNot
  <2>4. ~Creates(w) => \A u \in Writers : Stands(u) /\ FileOf[u] = FileOf[w]
                                             => u \in writer'[w].new
    BY <1>1, <2>1, <2>2 DEF DataInv
  <2>5. DataInv'
    BY <1>1, <2>1, <2>2, <2>3, <2>4, NothingShown
  <2> QED
    BY <1>1, <2>1, <2>3, <2>5, DiskKeeps DEF Turns
<1>4. CASE SyncsStaged(w)
  <2>1. PICK r : Turns(w, r) /\ r.at = "synced" /\ r.new = writer[w].new /\ r.synced
    BY <1>1, <1>4, SyncsFacts
  <2>2. writer'[w] = r /\ \A u \in Writers : u # w => writer'[u] = writer[u]
    BY <1>2, <2>1 DEF Turns
  <2>3. UNCHANGED told /\ writer[w].at = "staged"
    BY <1>4 DEF SyncsStaged
  <2>4. DataInv'
    <3>1. /\ w \in writer'[w].new
          /\ ~Creates(w) => \A u \in Writers : Stands(u) /\ FileOf[u] = FileOf[w]
                                             => u \in writer'[w].new
      BY <1>1, <2>1, <2>2, <2>3 DEF DataInv
    <3> QED
      BY <1>1, <2>1, <2>2, <2>3, <3>1, NothingShown
  <2> QED
    BY <1>1, <1>2, <2>1, <2>3, <2>4, DiskKeeps DEF Turns
<1> QED
  BY <1>3, <1>4

\* A file is shown under its name: a rewriter's holds all that was there, under the
\* claim; a creator's only where there was none.
LEMMA Shows ==
  ASSUME IInv, NEW w \in Writers, writer[w].at = "synced", MayShow(w),
         seen' = [seen EXCEPT ![FileOf[w]] = writer[w].new],
         kept' = [kept EXCEPT ![FileOf[w]] = @ \cup {writer[w].new} \cup
                                             (IF writer[w].synced THEN {} ELSE {{Torn}})],
         Goes(w, "published"), UNCHANGED <<told, lock, sidecar, losses, unsynced, lost>>
  PROVE  OwnStep(w) /\ DataInv' /\ Disk'
<1>1. TypeOK /\ ClaimInv /\ DataInv /\ Disk /\ FileOf[w] \in Files
  BY FilesAssumption DEF IInv, TypeOK, Disk
<1>2. writer \in [Writers -> Writing]
  BY <1>1, Typed
<1>3. PICK r : Turns(w, r) /\ r.at = "published"
  BY <1>1, GoesFacts
<1>4. writer'[w] = r /\ \A u \in Writers : u # w => writer'[u] = writer[u]
  BY <1>2, <1>3 DEF Turns
<1>5. /\ writer[w].synced /\ w \in writer[w].new /\ writer[w].new \subseteq Writers
      /\ Torn \notin writer[w].new
  BY <1>1, <1>2, FilesAssumption DEF DataInv, Writing
<1>6. /\ seen'[FileOf[w]] = writer[w].new
      /\ kept'[FileOf[w]] = kept[FileOf[w]] \cup {writer[w].new}
      /\ \A f \in Files : f # FileOf[w] => seen'[f] = seen[f] /\ kept'[f] = kept[f]
      /\ seen' \in [Files -> SUBSET (Writers \cup {Torn})]
      /\ kept' \in [Files -> SUBSET SUBSET (Writers \cup {Torn})]
  BY <1>1, <1>5 DEF Disk
\* Nobody else is about to be told that it is written, nor was, and is left out.
<1>7. ASSUME NEW u \in Writers, u # w, FileOf[u] = FileOf[w]
      PROVE  writer[u].at \notin {"published", "settled"} /\ (Stands(u) => u \in writer[w].new)
  <2>1. CASE Creates(w)
    BY <1>1, <1>7, <2>1 DEF MayShow, DataInv
  <2>2. CASE ~Creates(w)
    <3>1. Rewrites(w) /\ ~Creates(u)
      BY <1>7, <2>2, CreatesByFile DEF Rewrites
    <3>2. writer[u].at \notin {"published", "settled"}
      BY <1>7, <3>1, OneRewriter DEF Rewrites
    <3> QED
      BY <1>1, <1>7, <2>2, <3>2 DEF DataInv
  <2> QED
    BY <2>1, <2>2
<1>8. \A u \in Writers : Stands(u)' <=> Stands(u)
  BY DEF Stands
<1>9. DataInv'
  <2>1. \A f \in Files : \A K \in kept'[f] : Torn \notin K
    BY <1>1, <1>5, <1>6 DEF DataInv
  <2>2. ASSUME NEW x \in Writers
        PROVE  /\ writer'[x].at \in {"staged", "synced"} => x \in writer'[x].new
               /\ writer'[x].at = "synced" => writer'[x].synced
    BY <1>1, <1>3, <1>4 DEF DataInv
  <2>3. ASSUME NEW x \in Writers, Stands(x)' \/ writer'[x].at \in {"published", "settled"}
        PROVE  x \in seen'[FileOf[x]]
    <3>1. CASE FileOf[x] = FileOf[w]
      BY <1>4, <1>5, <1>6, <1>7, <1>8, <2>3, <3>1
    <3>2. CASE FileOf[x] # FileOf[w]
      <4>1. FileOf[x] \in Files /\ x # w /\ writer'[x] = writer[x]
        BY <1>4, <3>2, FilesAssumption
      <4> QED
        BY <1>1, <1>6, <1>8, <2>3, <3>2, <4>1 DEF DataInv
    <3> QED
      BY <3>1, <3>2
  <2>4. ASSUME NEW x \in Writers, Stands(x)' \/ writer'[x].at = "settled", x \notin unsynced'
        PROVE  \A K \in kept'[FileOf[x]] : x \in K
    <3>1. FileOf[x] \in Files /\ (Stands(x) \/ writer[x].at = "settled") /\ x \notin unsynced
      BY <1>3, <1>4, <1>8, <2>4, FilesAssumption
    <3>2. \A K \in kept[FileOf[x]] : x \in K
      BY <1>1, <3>1 DEF DataInv
    <3>3. FileOf[x] = FileOf[w] => x \in writer[w].new
      BY <1>5, <1>7, <3>1
    <3> QED
      BY <1>6, <3>1, <3>2, <3>3
  <2>5. ASSUME NEW x \in Writers, NEW u \in Writers,
               Stands(u)', FileOf[u] = FileOf[x],
               writer'[x].at \in {"staged", "synced"}, ~Creates(x)
        PROVE  u \in writer'[x].new
    BY <1>1, <1>3, <1>4, <1>8, <2>5 DEF DataInv
  <2> QED
    BY <2>1, <2>2, <2>3, <2>4, <2>5 DEF DataInv, Creates
<1>10. Disk'
  <2>1. \A f \in Files : seen'[f] \in kept'[f]
    BY <1>1, <1>6 DEF Disk
  <2> QED
    BY <1>1, <1>6, <2>1 DEF Disk
<1> QED
  BY <1>3, <1>9, <1>10 DEF Turns

\* The directory is synced, and the disk has of the file what is seen, which holds all
\* that stands; or it is not, the disk keeps what it had, and the writer is marked.
LEMMA DirectorySyncs ==
  ASSUME IInv, NEW w \in Writers, SyncsDirectory(w)
  PROVE  OwnStep(w) /\ DataInv' /\ Disk'
<1>1. TypeOK /\ ClaimInv /\ DataInv /\ Disk /\ FileOf[w] \in Files
  BY FilesAssumption DEF IInv, TypeOK, Disk
<1>2. writer \in [Writers -> Writing]
  BY <1>1, Typed
<1>3. PICK r : Turns(w, r) /\ r.at = "settled"
  BY <1>1, GoesFacts DEF SyncsDirectory
<1>4. writer'[w].at = "settled" /\ \A u \in Writers : u # w => writer'[u] = writer[u]
  BY <1>2, <1>3 DEF Turns
<1>5. writer[w].at = "published" /\ UNCHANGED <<seen, told, losses, lost>>
  BY DEF SyncsDirectory
<1>6. \A u \in Writers : Stands(u)' <=> Stands(u)
  BY <1>5 DEF Stands
<1>7. /\ kept' \in [Files -> SUBSET SUBSET (Writers \cup {Torn})]
      /\ unsynced' \subseteq Writers
      /\ \A f \in Files : seen[f] \in kept'[f] /\ kept'[f] \subseteq kept[f]
  BY <1>1 DEF SyncsDirectory, Disk
<1>8. DataInv'
  <2>1. \A f \in Files : \A K \in kept'[f] : Torn \notin K
    BY <1>1, <1>7 DEF DataInv
  <2>2. ASSUME NEW x \in Writers
        PROVE  /\ writer'[x].at \in {"staged", "synced"} => x \in writer'[x].new
               /\ writer'[x].at = "synced" => writer'[x].synced
    BY <1>1, <1>4 DEF DataInv
  <2>3. ASSUME NEW x \in Writers, Stands(x)' \/ writer'[x].at \in {"published", "settled"}
        PROVE  x \in seen'[FileOf[x]]
    <3>1. CASE x = w
      BY <1>1, <1>5, <3>1 DEF DataInv
    <3>2. CASE x # w
      BY <1>1, <1>4, <1>5, <1>6, <2>3, <3>2 DEF DataInv
    <3> QED
      BY <3>1, <3>2
  <2>4. ASSUME NEW x \in Writers, Stands(x)' \/ writer'[x].at = "settled", x \notin unsynced'
        PROVE  \A K \in kept'[FileOf[x]] : x \in K
    <3>1. FileOf[x] \in Files /\ x \in seen[FileOf[x]]
      BY <1>5, <2>3, <2>4, FilesAssumption
    <3>2. CASE /\ kept' = [kept EXCEPT ![FileOf[w]] = {seen[FileOf[w]]}]
               /\ unsynced' = {u \in unsynced : FileOf[u] # FileOf[w]}
      <4>1. CASE FileOf[x] = FileOf[w]
        <5>1. kept'[FileOf[x]] = {seen[FileOf[x]]}
          BY <1>1, <3>2, <4>1 DEF Disk
        <5> QED
          BY <3>1, <5>1
      <4>2. CASE FileOf[x] # FileOf[w]
        <5>1. x # w /\ x \notin unsynced /\ kept'[FileOf[x]] = kept[FileOf[x]]
          BY <1>1, <2>4, <3>1, <3>2, <4>2 DEF Disk
        <5>2. Stands(x) \/ writer[x].at = "settled"
          BY <1>4, <1>6, <2>4, <5>1
        <5> QED
          BY <1>1, <5>1, <5>2 DEF DataInv
      <4> QED
        BY <4>1, <4>2
    <3>3. CASE unsynced' = unsynced \cup {w} /\ UNCHANGED kept
      <4>1. x # w /\ x \notin unsynced
        BY <2>4, <3>3
      <4>2. Stands(x) \/ writer[x].at = "settled"
        BY <1>4, <1>6, <2>4, <4>1
      <4> QED
        BY <1>1, <3>3, <4>1, <4>2 DEF DataInv
    <3> QED
      BY <3>2, <3>3 DEF SyncsDirectory
  <2>5. ASSUME NEW x \in Writers, NEW u \in Writers,
               Stands(u)', FileOf[u] = FileOf[x],
               writer'[x].at \in {"staged", "synced"}, ~Creates(x)
        PROVE  u \in writer'[x].new
    BY <1>1, <1>4, <1>6, <2>5 DEF DataInv
  <2> QED
    BY <2>1, <2>2, <2>3, <2>4, <2>5 DEF DataInv, Creates
<1>9. Disk'
  BY <1>1, <1>5, <1>7 DEF Disk
<1> QED
  BY <1>3, <1>8, <1>9 DEF Turns

\* The writer is told: its entry is in the file, and whoever rewrites the file next
\* has not read it yet.
LEMMA EndsWrites ==
  ASSUME IInv, NEW w \in Writers, Ends(w)
  PROVE  OwnStep(w) /\ DataInv' /\ Disk'
<1>1. TypeOK /\ ClaimInv /\ DataInv /\ Disk
  BY DEF IInv, TypeOK, Disk
<1>2. /\ writer[w].at = "settled" /\ Leaves(w, "written")
      /\ UNCHANGED <<seen, kept, losses, unsynced>> /\ lost' = lost \ {w}
      /\ told' = [told EXCEPT ![w] = "written"]
  BY DEF Ends, Leaves
<1>3. OwnStep(w)
  BY <1>1, <1>2, LeavesIsOwn
<1>4. writer'[w].at = "idle" /\ \A u \in Writers : u # w => writer'[u] = writer[u]
  BY <1>1, <1>2, LeavesFacts
<1>5. /\ \A u \in Writers : u # w => (Stands(u)' <=> Stands(u))
      /\ told' \in [Writers -> {"nothing", "busy", "taken", "failed", "written"}]
  BY <1>1, <1>2 DEF Disk, Stands
<1>6. /\ w \in seen[FileOf[w]]
      /\ w \notin unsynced => \A K \in kept[FileOf[w]] : w \in K
  BY <1>1, <1>2 DEF DataInv
<1>7. DataInv'
  <2>1. \A f \in Files : \A K \in kept'[f] : Torn \notin K
    BY <1>1, <1>2 DEF DataInv
  <2>2. ASSUME NEW x \in Writers
        PROVE  /\ writer'[x].at \in {"staged", "synced"} => x \in writer'[x].new
               /\ writer'[x].at = "synced" => writer'[x].synced
               /\ Stands(x)' \/ writer'[x].at \in {"published", "settled"}
                     => x \in seen'[FileOf[x]]
               /\ (Stands(x)' \/ writer'[x].at = "settled") /\ x \notin unsynced' =>
                     \A K \in kept'[FileOf[x]] : x \in K
    <3>1. CASE x = w
      BY <1>2, <1>4, <1>6, <3>1
    <3>2. CASE x # w
      BY <1>1, <1>2, <1>4, <1>5, <3>2 DEF DataInv
    <3> QED
      BY <3>1, <3>2
  <2>3. ASSUME NEW x \in Writers, NEW u \in Writers,
               Stands(u)', FileOf[u] = FileOf[x],
               writer'[x].at \in {"staged", "synced"}, ~Creates(x)
        PROVE  u \in writer'[x].new
    <3>1. x # w /\ writer[x] = writer'[x] /\ Rewrites(x)
      BY <1>4, <2>3 DEF Rewrites
    <3>2. u # w
      <4>1. u = w => Rewrites(u)
        BY <1>2, <2>3, CreatesByFile DEF Rewrites
      <4> QED
        BY <2>3, <3>1, <4>1, OneRewriter
    <3> QED
      BY <1>1, <1>5, <2>3, <3>1, <3>2 DEF DataInv
  <2> QED
    BY <2>1, <2>2, <2>3 DEF DataInv, Creates
<1>8. Disk'
  BY <1>1, <1>2, <1>5 DEF Disk
<1> QED
  BY <1>3, <1>7, <1>8

\* Each step of a writer keeps the invariant.
LEMMA WriterKeeps ==
  ASSUME IInv, NEW w \in Writers, Works(w)
  PROVE  IInv'
<1>1. SUFFICES OwnStep(w) /\ DataInv' /\ Disk'
  <2>1. ASSUME OwnStep(w), DataInv', Disk' PROVE IInv'
    <3>1. ClaimInv' /\ LocksOf'
      BY <2>1, OwnStepKeeps DEF IInv
    <3>2. TypeOK'
      BY <2>1, <3>1 DEF OwnStep, Disk, LocksOf, TypeOK
    <3> QED
      BY <2>1, <3>1, <3>2 DEF IInv
  <2> QED
    BY <2>1
<1>2. CASE Opens(w) \/ Claims(w) \/ Fails(w)
  BY <1>2, OpensClaimsFails
<1>3. CASE Stages(w) \/ SyncsStaged(w)
  BY <1>3, StagesSyncs
<1>4. CASE Publishes(w)
  <2>1. CASE Leaves(w, "taken") /\ UNCHANGED <<seen, kept>>
    BY <1>4, <2>1, OpensClaimsFails DEF Publishes
  <2>2. CASE ~(Leaves(w, "taken") /\ UNCHANGED <<seen, kept>>)
    BY <1>4, <2>2, Shows DEF Publishes
  <2> QED
    BY <2>1, <2>2
<1>5. CASE SyncsDirectory(w)
  BY <1>5, DirectorySyncs
<1>6. CASE Ends(w)
  BY <1>6, EndsWrites
<1> QED
  BY <1>2, <1>3, <1>4, <1>5, <1>6 DEF Works

-----------------------------------------------------------------------------
(* Kills and power failures.                                                *)

\* The writers of S are gone, and their locks with them; the others' stay.
LEMMA GoneKeeps ==
  ASSUME TypeOK, ClaimInv, NEW S \in SUBSET Writers, Gone(S), UNCHANGED sidecar
  PROVE  /\ ClaimInv' /\ LocksOf' /\ writer' \in [Writers -> Writing]
         /\ lock' \in [Inodes -> Writers \cup {Free}]
         /\ \A w \in Writers : writer'[w] = writer[w] \/ writer'[w].at = "idle"
         /\ \A w \in S : writer'[w].at = "idle"
<1>1. /\ writer \in [Writers -> Writing] /\ lock \in [Inodes -> Writers \cup {Free}]
      /\ LocksOf
  BY Typed
<1>2. \A w \in Writers : Idle(writer[w].tries) \in Writing /\ Idle(writer[w].tries).at = "idle"
  BY <1>1 DEF Idle, At, Writing
<1>3. /\ writer' \in [Writers -> Writing]
      /\ \A w \in Writers : w \notin S => writer'[w] = writer[w]
      /\ \A w \in S : writer'[w].at = "idle"
  BY <1>1, <1>2 DEF Gone
<1>4. /\ lock' \in [Inodes -> Writers \cup {Free}]
      /\ \A i \in Inodes : lock[i] \notin S => lock'[i] = lock[i]
      /\ \A i \in Inodes : lock[i] \in S => lock'[i] = Free
  BY <1>1 DEF Gone
<1>5. \A w \in Writers : w # Free
  BY FilesAssumption
<1>6. LocksOf'
  BY <1>1, <1>3, <1>4, <1>5 DEF LocksOf
<1>7. ClaimInv'
  <2>1. ASSUME NEW w \in Writers
        PROVE  /\ writer'[w].at \in {"opened", "held"} => ~Creates(w)
               /\ writer'[w].at = "opened" \/ Rewrites(w)' =>
                     writer'[w].inode = sidecar[Sidecar(w)] /\ writer'[w].inode # 0
               /\ Rewrites(w)' => lock'[writer'[w].inode] = w
    <3>1. CASE w \in S
      BY <1>3, <3>1 DEF Rewrites
    <3>2. CASE w \notin S
      <4>1. writer'[w] = writer[w] /\ (Rewrites(w)' <=> Rewrites(w))
            /\ writer[w].inode \in Inodes \cup {0}
        BY <1>1, <1>3, <3>2 DEF Rewrites, Creates, Writing
      <4>2. /\ writer[w].at \in {"opened", "held"} => ~Creates(w)
            /\ writer[w].at = "opened" \/ Rewrites(w) =>
                  writer[w].inode = sidecar[Sidecar(w)] /\ writer[w].inode # 0
            /\ Rewrites(w) => lock[writer[w].inode] = w
        BY DEF ClaimInv
      <4>3. Rewrites(w) => lock'[writer[w].inode] = w
        BY <1>4, <3>2, <4>1, <4>2
      <4> QED
        BY <4>1, <4>2, <4>3
    <3> QED
      BY <3>1, <3>2
  <2> QED
    BY <2>1 DEF ClaimInv, Creates, Sidecar
<1> QED
  BY <1>3, <1>4, <1>6, <1>7

\* A process is killed: what was shown stays.
LEMMA DiesKeeps ==
  ASSUME IInv, NEW p \in Processes, Dies(p)
  PROVE  IInv'
<1>1. TypeOK /\ ClaimInv /\ DataInv
  BY DEF IInv
<1>2. UNCHANGED <<seen, kept, sidecar, told, losses, unsynced, lost>>
  BY DEF Dies
<1>3. /\ ClaimInv' /\ LocksOf' /\ writer' \in [Writers -> Writing]
      /\ lock' \in [Inodes -> Writers \cup {Free}]
      /\ \A w \in Writers : writer'[w] = writer[w] \/ writer'[w].at = "idle"
  <2>1. {w \in Writers : ProcessOf[w] = p} \in SUBSET Writers
    OBVIOUS
  <2> QED
    BY <1>1, <1>2, <2>1, GoneKeeps DEF Dies
<1>4. TypeOK'
  BY <1>1, <1>2, <1>3 DEF TypeOK, LocksOf
<1>5. DataInv'
  BY <1>1, <1>2, <1>3 DEF DataInv, Creates, Stands
<1> QED
  BY <1>3, <1>4, <1>5 DEF IInv

\* The power fails: nobody is writing, and the disk has one of what it may have.
LEMMA PowerKeeps ==
  ASSUME IInv, PowerFails
  PROVE  IInv'
<1>1. TypeOK /\ ClaimInv /\ DataInv
  BY DEF IInv
<1>2. /\ UNCHANGED <<sidecar, told>> /\ losses < MaxLosses /\ losses' = losses + 1
      /\ \A f \in Files : seen'[f] \in kept[f]
      /\ kept' = [f \in Files |-> {seen'[f]}]
      /\ seen' \in [Files -> UNION {kept[f] : f \in Files}]
      /\ unsynced' = {} /\ lost' = lost \cup {w \in unsynced : w \notin seen'[FileOf[w]]}
  BY DEF PowerFails
<1>3. /\ ClaimInv' /\ LocksOf' /\ writer' \in [Writers -> Writing]
      /\ lock' \in [Inodes -> Writers \cup {Free}]
      /\ \A w \in Writers : writer'[w].at = "idle"
  <2>1. Writers \in SUBSET Writers
    OBVIOUS
  <2> QED
    BY <1>1, <1>2, <2>1, GoneKeeps DEF PowerFails
<1>4. /\ seen' \in [Files -> SUBSET (Writers \cup {Torn})]
      /\ kept' \in [Files -> SUBSET SUBSET (Writers \cup {Torn})]
      /\ \A f \in Files : seen'[f] \in kept'[f]
  <2>1. \A f \in Files : seen'[f] \in SUBSET (Writers \cup {Torn})
    BY <1>1, <1>2 DEF TypeOK
  <2> QED
    BY <1>2, <2>1
<1>5. losses' \in 0..MaxLosses
  BY <1>1, <1>2, FilesAssumption DEF TypeOK
<1>6. TypeOK'
  BY <1>1, <1>2, <1>3, <1>4, <1>5 DEF TypeOK, LocksOf
<1>7. DataInv'
  <2>1. \A f \in Files : \A K \in kept'[f] : Torn \notin K
    BY <1>1, <1>2 DEF DataInv
  \* What stands was synced, or is in what the disk has.
  <2>2. ASSUME NEW x \in Writers, Stands(x)'
        PROVE  x \in seen'[FileOf[x]] /\ \A K \in kept'[FileOf[x]] : x \in K
    <3>1. FileOf[x] \in Files /\ Stands(x)
      BY <1>2, <2>2, FilesAssumption DEF Stands
    <3>2. x \in seen'[FileOf[x]]
      <4>1. CASE x \in unsynced
        BY <1>2, <2>2, <4>1 DEF Stands
      <4>2. CASE x \notin unsynced
        BY <1>1, <1>2, <3>1, <4>2 DEF DataInv
      <4> QED
        BY <4>1, <4>2
    <3> QED
      BY <1>2, <3>1, <3>2
  <2> QED
    BY <1>3, <2>1, <2>2 DEF DataInv
<1> QED
  BY <1>3, <1>6, <1>7 DEF IInv

LEMMA StutterKeeps == IInv /\ UNCHANGED vars => IInv'
<1> SUFFICES ASSUME IInv, UNCHANGED vars PROVE IInv'
  OBVIOUS
<1>1. UNCHANGED <<seen, kept, sidecar, lock, writer, told, losses, unsynced, lost>>
  BY DEF vars
<1>2. TypeOK'
  BY <1>1 DEF IInv, TypeOK
<1>3. ClaimInv'
  BY <1>1 DEF IInv, ClaimInv, Rewrites, Creates, Sidecar
<1>4. DataInv'
  BY <1>1 DEF IInv, DataInv, Creates, Stands
<1> QED
  BY <1>2, <1>3, <1>4 DEF IInv

\* The invariant holds whatever is opened, killed or lost, in whatever order.
THEOREM Invariance == Spec => []IInv
<1>1. ASSUME IInv, [Next]_vars PROVE IInv'
  BY <1>1, WriterKeeps, DiesKeeps, PowerKeeps, StutterKeeps DEF Next
<1> QED
  BY InitEstablishes, <1>1, PTL DEF Spec

\* Every value is of its type: who has a kernel lock opened that inode.
THEOREM TypeCorrect == Spec => []TypeOK
<1>1. IInv => TypeOK
  BY DEF IInv
<1> QED
  BY <1>1, Invariance, PTL

\* No writer that was told its entry is written loses it, to another process or to a
\* kill; nor to a power failure, unless its directory did not sync and no write of the
\* file synced it since.
THEOREM WrittenStays == Spec => []NothingLost
<1>1. IInv => NothingLost
  BY DEF IInv, DataInv, Stands, NothingLost
<1> QED
  BY <1>1, Invariance, PTL

\* A file is always one that a writer completed.
THEOREM WholeFiles == Spec => []NeverTorn
<1>1. IInv => NeverTorn
  BY DEF IInv, TypeOK, DataInv, NeverTorn
<1> QED
  BY <1>1, Invariance, PTL

=============================================================================
