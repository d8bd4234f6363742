------------------------------- MODULE Files -------------------------------
(***************************************************************************)
(* Whole files written by several threads of several processes: the claim  *)
(* a read-modify-write takes (exclusive in src/pm_ai/platform/claims.py,   *)
(* StorageService.exclusive), and how its result, or a file that must not  *)
(* exist yet, is published (StorageService._publish, _make_visible).       *)
(*                                                                         *)
(* A file is the set of the writers whose entries it holds, {} when there  *)
(* is none.  A rewriter reads it under the claim and adds its entry; a     *)
(* creator writes its own, once, with no claim.  Processes are killed; the *)
(* power fails, and takes what was not synced.  A directory that does not  *)
(* sync is not reported: _fsync_dir is best-effort.                        *)
(***************************************************************************)
EXTENDS Naturals, FiniteSets

CONSTANTS Writers,     \* threads
          Processes, ProcessOf,
          Files,       \* the files
          FileOf,      \* the one each writes
          Created,     \* the files that are created, never rewritten
          Spellings,   \* ways to the directory of a file
          MaxTries,    \* bound: how often a writer begins
          MaxLosses    \* bound: how often the power fails

\* What a read finds of a file that the power took in the middle, and what holds
\* a lock that nobody holds.
Torn == "torn"
Free == "free"

ASSUME FilesAssumption ==
    /\ Torn \notin Writers /\ Free \notin Writers /\ Spellings # {}
    /\ ProcessOf \in [Writers -> Processes] /\ FileOf \in [Writers -> Files]
    /\ Created \subseteq Files /\ MaxTries \in Nat /\ MaxLosses \in Nat

VARIABLES
    seen,       \* what a read of each file finds
    kept,       \* what it may hold after the power failed
    sidecar,    \* the lock file of each file by its name: an inode, 0 if there is none
    lock,       \* who holds each inode's kernel lock
    writer,     \* where each writer is, and what it holds
    told,       \* what each writer was told of its last try
    losses,     \* how often the power failed
    \* These only observe the others.
    unsynced,   \* whose directory did not sync, and no write of the file synced it since
    lost        \* those of them whose entries the power took

vars == <<seen, kept, sidecar, lock, writer, told, losses, unsynced, lost>>

Inodes == 1..Cardinality(Writers) * MaxTries

At(place, i, new, n) ==
    [at |-> place, inode |-> i, new |-> new, synced |-> FALSE, tries |-> n]

Idle(n) == At("idle", 0, {}, n)

\* A writer: its place, the inode it opened, and the file it prepares.
Writing == [at : {"idle", "opened", "held", "staged", "synced", "published", "settled"},
            inode : Inodes \cup {0}, new : SUBSET Writers, synced : BOOLEAN,
            tries : 0..MaxTries]

TypeOK ==
    /\ seen \in [Files -> SUBSET (Writers \cup {Torn})]
    /\ kept \in [Files -> SUBSET SUBSET (Writers \cup {Torn})]
    /\ \A f \in Files : seen[f] \in kept[f]
    /\ sidecar \in [Files \X Spellings -> Inodes \cup {0}]
    /\ lock \in [Inodes -> Writers \cup {Free}]
    /\ \A i \in Inodes, w \in Writers :
          lock[i] = w => writer[w].at \notin {"idle", "opened"} /\ writer[w].inode = i
    /\ writer \in [Writers -> Writing]
    /\ told \in [Writers -> {"nothing", "busy", "taken", "failed", "written"}]
    /\ losses \in 0..MaxLosses /\ unsynced \subseteq Writers /\ lost \subseteq Writers

Init ==
    /\ seen = [f \in Files |-> {}] /\ kept = [f \in Files |-> {{}}]
    /\ sidecar = [n \in Files \X Spellings |-> 0]
    /\ lock = [i \in Inodes |-> Free]
    /\ writer = [w \in Writers |-> Idle(0)]
    /\ told = [w \in Writers |-> "nothing"] /\ losses = 0
    /\ unsynced = {} /\ lost = {}

Creates(w) == FileOf[w] \in Created

\* The directory is resolved, so that two spellings name one sidecar.
AsSpelled(s) == s       \* a mutant
Canonical(s) == CHOOSE c \in Spellings : TRUE

Used == {sidecar[n] : n \in DOMAIN sidecar} \cup {writer[w].inode : w \in Writers}

\* The inode of that name, or the next new one.
Opened(n, i) == \/ sidecar[n] # 0 /\ i = sidecar[n]
                \/ sidecar[n] = 0 /\ i \notin Used /\ \A j \in Inodes \ Used : i <= j

Goes(w, at) == writer' = [writer EXCEPT ![w].at = at]

KeepsLock(w) == UNCHANGED lock      \* a mutant: a body that raises keeps the claim

\* The body ends: the kernel lock goes, the sidecar stays.
Unlocks(w)  == lock' = [i \in Inodes |-> IF lock[i] = w THEN Free ELSE lock[i]]

Leaves(w, what) ==
    /\ writer' = [writer EXCEPT ![w] = Idle(@.tries)] /\ told' = [told EXCEPT ![w] = what]
    /\ Unlocks(w) /\ UNCHANGED sidecar

-----------------------------------------------------------------------------
(* The claim.                                                              *)

\* _open_lock_file: created, or the one that is there.
Opens(w) ==
    /\ writer[w].at = "idle" /\ ~Creates(w) /\ writer[w].tries < MaxTries
    /\ \E s \in Spellings, i \in Inodes :
          /\ Opened(<<FileOf[w], Canonical(s)>>, i)
          /\ sidecar' = [sidecar EXCEPT ![<<FileOf[w], Canonical(s)>>] = i]
          /\ writer' = [writer EXCEPT ![w] = At("opened", i, {}, @.tries + 1)]
    /\ told' = [told EXCEPT ![w] = "nothing"]
    /\ UNCHANGED <<seen, kept, lock, losses, unsynced, lost>>

\* flock, never waiting.
Claims(w) ==
    /\ writer[w].at = "opened"
    /\ \/ /\ lock[writer[w].inode] = Free
          /\ lock' = [lock EXCEPT ![writer[w].inode] = w]
          /\ Goes(w, "held") /\ UNCHANGED <<told, sidecar>>
       \/ lock[writer[w].inode] # Free /\ writer' = [writer EXCEPT ![w] = Idle(@.tries)]
          /\ told' = [told EXCEPT ![w] = "busy"] /\ UNCHANGED <<lock, sidecar>>
    /\ UNCHANGED <<seen, kept, losses, unsynced, lost>>

-----------------------------------------------------------------------------
(* The file.                                                               *)

Stages(w) ==
    /\ \/ /\ writer[w].at = "held"
          /\ writer' = [writer EXCEPT ![w].at = "staged", ![w].new = seen[FileOf[w]] \cup {w}]
          /\ UNCHANGED told
       \/ /\ writer[w].at = "idle" /\ Creates(w) /\ writer[w].tries < MaxTries
          /\ writer' = [writer EXCEPT ![w] = At("staged", 0, {w}, @.tries + 1)]
          /\ told' = [told EXCEPT ![w] = "nothing"]
    /\ UNCHANGED <<seen, kept, sidecar, lock, losses, unsynced, lost>>

\* fsync of the staged file.
Closes(w) == Goes(w, "synced")      \* a mutant: it is only closed
Syncs(w) == writer' = [writer EXCEPT ![w].at = "synced", ![w].synced = TRUE]

SyncsStaged(w) ==
    /\ writer[w].at = "staged" /\ Syncs(w)
    /\ UNCHANGED <<seen, kept, sidecar, lock, told, losses, unsynced, lost>>

\* os.link refuses a name that is taken; os.replace does not.
MayShow(w) == Creates(w) => seen[FileOf[w]] = {}

\* What reaches the disk of a file that is not synced is any part of it.
Publishes(w) ==
    /\ writer[w].at = "synced"
    /\ LET f == FileOf[w] IN
       \/ /\ MayShow(w) /\ seen' = [seen EXCEPT ![f] = writer[w].new]
          /\ kept' = [kept EXCEPT ![f] = @ \cup {writer[w].new} \cup
                                         (IF writer[w].synced THEN {} ELSE {{Torn}})]
          /\ Goes(w, "published") /\ UNCHANGED <<told, lock, sidecar>>
       \/ ~MayShow(w) /\ Leaves(w, "taken") /\ UNCHANGED <<seen, kept>>
    /\ UNCHANGED <<losses, unsynced, lost>>

\* fsync of the directory.  Of one that cannot be opened or synced nothing is said.
SyncsDirectory(w) ==
    /\ writer[w].at = "published" /\ Goes(w, "settled")
    /\ \/ /\ kept' = [kept EXCEPT ![FileOf[w]] = {seen[FileOf[w]]}]
          /\ unsynced' = {u \in unsynced : FileOf[u] # FileOf[w]}
       \/ unsynced' = unsynced \cup {w} /\ UNCHANGED kept
    /\ UNCHANGED <<seen, sidecar, lock, told, losses, lost>>

\* The writer is told, and gives up the claim if it had one.
Ends(w) ==
    /\ writer[w].at = "settled" /\ Leaves(w, "written")
    /\ lost' = lost \ {w}
    /\ UNCHANGED <<seen, kept, losses, unsynced>>

\* What may raise: any step up to the publication (a full disk); after it, for a
\* creator, the unlink of the staged name, and for a rewriter the rest of the body
\* that holds the claim.
MayRaise(w) == {"held", "staged", "synced"} \cup {IF Creates(w) THEN "published" ELSE "settled"}

Fails(w) ==
    /\ writer[w].at \in MayRaise(w)
    /\ Leaves(w, "failed")
    /\ UNCHANGED <<seen, kept, losses, unsynced, lost>>

-----------------------------------------------------------------------------
Gone(S) ==
    /\ writer' = [w \in Writers |-> IF w \in S THEN Idle(writer[w].tries) ELSE writer[w]]
    /\ lock' = [i \in Inodes |-> IF lock[i] \in S THEN Free ELSE lock[i]]

\* A process is killed: the kernel gives up its locks.
Dies(p) ==
    /\ Gone({w \in Writers : ProcessOf[w] = p}) /\ writer' # writer
    /\ UNCHANGED <<seen, kept, sidecar, told, losses, unsynced, lost>>

PowerFails ==
    /\ losses < MaxLosses /\ losses' = losses + 1
    /\ Gone(Writers)
    /\ seen' \in [Files -> UNION {kept[f] : f \in Files}] /\ \A f \in Files : seen'[f] \in kept[f]
    /\ kept' = [f \in Files |-> {seen'[f]}]
    /\ lost' = lost \cup {w \in unsynced : w \notin seen'[FileOf[w]]} /\ unsynced' = {}
    /\ UNCHANGED <<sidecar, told>>

Works(w) == \/ Opens(w) \/ Claims(w) \/ Stages(w) \/ SyncsStaged(w) \/ Publishes(w)
            \/ SyncsDirectory(w) \/ Ends(w) \/ Fails(w)

Next == (\E w \in Writers : Works(w)) \/ (\E p \in Processes : Dies(p)) \/ PowerFails

Spec == Init /\ [][Next]_vars

-----------------------------------------------------------------------------
(* Properties.                                                             *)

\* A writer that was told its entry is written finds it there: no concurrent rewriter,
\* reached through whatever spelling, drops it, and no kill.  Nor does a power failure,
\* but for one case: the writer's directory did not sync, of which it was told nothing,
\* and no write of the file synced it before the power failed.
NothingLost ==
    \A w \in Writers : told[w] = "written" => w \in seen[FileOf[w]] \/ w \in lost

\* A file is one that some writer completed, the old or the new, after whatever failure.
NeverTorn == \A f \in Files : Torn \notin seen[f]

=============================================================================
