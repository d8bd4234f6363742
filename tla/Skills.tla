------------------------------- MODULE Skills -------------------------------
(***************************************************************************)
(* What is said in a meeting and done at once: the ingestion of a          *)
(* transcript (run_transcript_ingestion, _execute, _ingest_capture in      *)
(* src/pm_ai/app/pipelines.py), which executes each spoken command by a    *)
(* skill, or stages it for the PM; SkillRegistry.invoke                    *)
(* (src/pm_ai/skills/registry.py); and the ledger of executed keys         *)
(* (StorageService).                                                       *)
(*                                                                         *)
(* A command's idempotency key is made of its verb, its target and its     *)
(* words in its meeting: said in two transcripts of a meeting it has one   *)
(* key.  Each storage call is a step of the writer thread and may fail;    *)
(* the provider may apply a change and not answer; the daemon may be       *)
(* killed anywhere, and ingests again what it had not marked ingested.     *)
(***************************************************************************)
EXTENDS Naturals, Sequences, FiniteSets

CONSTANTS Transcripts,  \* the transcripts to ingest, each by one job at a time
          Keys,         \* the idempotency keys of the commands
          Entities,     \* what they change at a provider
          LockOf,       \* the lock key of each key's target
          Enrolled,     \* the keys whose skill is registered
          Commands      \* what each transcript says, in its order

\* What holds a lock that nobody holds.
Free == "free"

ASSUME SkillsAssumption ==
    /\ Free \notin Transcripts
    /\ LockOf \in [Keys -> Entities] /\ Enrolled \subseteq Keys
    /\ Commands \in [Transcripts -> Seq(Keys)]

VARIABLES
    executed,   \* the executed table
    provider,   \* ghost: the changes applied there, and how often each was called
    logged,     \* the lines of event_log.md for each key
    job,        \* where each transcript's ingestion is
    lock,       \* the registry's locks
    said,       \* what became of each command: executed, ran, staged
    ingested    \* the transcripts marked so

vars == <<executed, provider, logged, job, lock, said, ingested>>

\* The places at which something is said.
Places == {p \in Transcripts \X Nat : p[2] \in DOMAIN Commands[p[1]]}

Idle == [at |-> "idle", i |-> 0]

Within == {"asking", "claiming", "calling", "called", "settling", "failing", "logging"}

TypeOK ==
    /\ executed \in [Keys -> {"none", "in flight", "failed", "settled"}]
    /\ provider \in [applied : SUBSET Keys, calls : [Keys -> Nat]]
    /\ logged \in [Keys -> Nat]
    /\ job \in [Transcripts -> [at : {"idle", "next", "staging"} \cup Within, i : Nat]]
    /\ \A t \in Transcripts : job[t].at # "idle" => job[t].i \in 1..Len(Commands[t]) + 1
    /\ lock \in [Entities -> Transcripts \cup {Free}]
    /\ \A t \in Transcripts : job[t].at \in Within =>
          /\ job[t].i \in DOMAIN Commands[t]
          /\ lock[LockOf[Commands[t][job[t].i]]] = t
    /\ said \in [{"executed", "ran", "staged"} -> SUBSET Places]
    /\ ingested \subseteq Transcripts

Init ==
    /\ executed = [k \in Keys |-> "none"]
    /\ provider = [applied |-> {}, calls |-> [k \in Keys |-> 0]]
    /\ logged = [k \in Keys |-> 0]
    /\ job = [t \in Transcripts |-> Idle]
    /\ lock = [e \in Entities |-> Free]
    /\ said = [w \in {"executed", "ran", "staged"} |-> {}]
    /\ ingested = {}

KeyOf(t) == Commands[t][job[t].i]

\* `target.lock_key`.
Target(k) == LockOf[k]

-----------------------------------------------------------------------------
(* The ingestion, command by command.                                      *)

Goes(t, at)   == job' = [job EXCEPT ![t].at = at]
GoesOn(t)     == job' = [job EXCEPT ![t] = [at |-> "next", i |-> @.i + 1]]
Stops(t)      == job' = [job EXCEPT ![t] = Idle]
Notes(what, t) == said' = [said EXCEPT ![what] = @ \cup {<<t, job[t].i>>}]
Releases(t)   == lock' = [lock EXCEPT ![Target(KeyOf(t))] = Free]

\* A capture that awaits ingestion, or a part that was not marked.
Starts(t) ==
    /\ job[t].at = "idle" /\ t \notin ingested
    /\ job' = [job EXCEPT ![t] = [at |-> "next", i |-> 1]]
    /\ UNCHANGED <<executed, provider, logged, lock, said, ingested>>

\* No skill is enrolled for it.
Skips(t) ==
    /\ job[t].at = "next" /\ job[t].i \in DOMAIN Commands[t] /\ KeyOf(t) \notin Enrolled
    /\ Goes(t, "staging")
    /\ UNCHANGED <<executed, provider, logged, lock, said, ingested>>

\* `with self._locks[target.lock_key]`.
Locks(t) ==
    /\ job[t].at = "next" /\ job[t].i \in DOMAIN Commands[t] /\ KeyOf(t) \in Enrolled
    /\ lock[Target(KeyOf(t))] = Free
    /\ lock' = [lock EXCEPT ![Target(KeyOf(t))] = t]
    /\ Goes(t, "asking")
    /\ UNCHANGED <<executed, provider, logged, said, ingested>>

\* was_executed: a key that is settled is a replay, whatever it is now about.
WasClaimed(k)  == executed[k] # "none"      \* a mutant: an attempt counts as done

WasExecuted(k) == executed[k] = "settled"

\* A mutant: only the question is under the lock.
AsksAndReleases(t) ==
    /\ job[t].at = "asking" /\ Releases(t)
    /\ \/ WasExecuted(KeyOf(t)) /\ GoesOn(t) /\ Notes("executed", t)
       \/ ~WasExecuted(KeyOf(t)) /\ Goes(t, "claiming") /\ UNCHANGED said
    /\ UNCHANGED <<executed, provider, logged, ingested>>

Asks(t) ==
    /\ job[t].at = "asking"
    /\ \/ WasExecuted(KeyOf(t)) /\ GoesOn(t) /\ Notes("executed", t) /\ Releases(t)
       \/ ~WasExecuted(KeyOf(t)) /\ Goes(t, "claiming") /\ UNCHANGED <<said, lock>>
    /\ UNCHANGED <<executed, provider, logged, ingested>>

\* begin_execution: a key claimed before, and never settled, is for the PM.
IsNotInFlight(k) == executed[k] # "in flight"   \* a mutant: a failed key is called again

MayBegin(k) == executed[k] = "none"

\* A mutant: the key is recorded only once the provider has answered.
ClaimsLater(t) ==
    /\ job[t].at = "claiming" /\ MayBegin(KeyOf(t)) /\ Goes(t, "calling")
    /\ UNCHANGED <<executed, lock, provider, logged, said, ingested>>

Claims(t) ==
    /\ job[t].at = "claiming"
    /\ \/ /\ MayBegin(KeyOf(t))
          /\ executed' = [executed EXCEPT ![KeyOf(t)] = "in flight"]
          /\ Goes(t, "calling") /\ UNCHANGED lock
       \/ /\ ~MayBegin(KeyOf(t))
          /\ Goes(t, "staging") /\ Releases(t) /\ UNCHANGED executed
    /\ UNCHANGED <<provider, logged, said, ingested>>

\* The store is busy before the call: a failure, and staged.
FailsBefore(t) ==
    /\ job[t].at \in {"asking", "claiming"}
    /\ Goes(t, "staging") /\ Releases(t)
    /\ UNCHANGED <<executed, provider, logged, said, ingested>>

\* skill.execute, and its answer or its exception; either way it may have applied.
Calls(t) ==
    /\ job[t].at = "calling" /\ Goes(t, "called")
    /\ \E applied \in {{}, {KeyOf(t)}} :
          provider' = [applied |-> provider.applied \cup applied,
                       calls |-> [provider.calls EXCEPT ![KeyOf(t)] = @ + 1]]
    /\ UNCHANGED <<executed, logged, lock, said, ingested>>

Returns(t) ==
    /\ job[t].at = "called"
    /\ \/ KeyOf(t) \in provider.applied /\ Goes(t, "settling")
       \/ Goes(t, "failing")
    /\ UNCHANGED <<executed, provider, logged, lock, said, ingested>>

\* fail_execution; when it fails too the key stays in flight.
SettlesAsFailed(t) ==
    /\ job[t].at = "failing" /\ Goes(t, "staging") /\ Releases(t)
    /\ \/ executed' = [executed EXCEPT ![KeyOf(t)] = "failed"]
       \/ UNCHANGED executed
    /\ UNCHANGED <<provider, logged, said, ingested>>

\* settle_execution, then the line of AD-1; ExecutedButUnrecorded if either fails.
Settles(t) ==
    /\ job[t].at = "settling"
    /\ \/ /\ executed' = [executed EXCEPT ![KeyOf(t)] = "settled"]
          /\ Goes(t, "logging") /\ UNCHANGED <<said, lock>>
       \/ GoesOn(t) /\ Notes("ran", t) /\ Releases(t) /\ UNCHANGED executed
    /\ UNCHANGED <<provider, logged, ingested>>

Logs(t) ==
    /\ job[t].at = "logging" /\ GoesOn(t) /\ Releases(t)
    /\ \/ logged' = [logged EXCEPT ![KeyOf(t)] = @ + 1] /\ Notes("executed", t)
       \/ Notes("ran", t) /\ UNCHANGED logged
    /\ UNCHANGED <<executed, provider, ingested>>

\* stage_unless_acted; a write that fails ends the ingestion.
Stages(t) ==
    /\ job[t].at = "staging"
    /\ \/ GoesOn(t) /\ Notes("staged", t)
       \/ Stops(t) /\ UNCHANGED said
    /\ UNCHANGED <<executed, provider, logged, lock, ingested>>

\* mark_part_ingested; if it fails all is ingested again.
Finishes(t) ==
    /\ job[t].at = "next" /\ job[t].i \notin DOMAIN Commands[t] /\ Stops(t)
    /\ \/ ingested' = ingested \cup {t}
       \/ UNCHANGED ingested
    /\ UNCHANGED <<executed, provider, logged, lock, said>>

\* The daemon is killed.
Dies ==
    /\ \E t \in Transcripts : job[t] # Idle
    /\ job' = [t \in Transcripts |-> Idle]
    /\ lock' = [e \in Entities |-> Free]
    /\ UNCHANGED <<executed, provider, logged, said, ingested>>

Invokes(t) == \/ Locks(t) \/ Asks(t) \/ Claims(t) \/ FailsBefore(t) \/ Calls(t) \/ Returns(t)
              \/ SettlesAsFailed(t) \/ Settles(t) \/ Logs(t)

Next == \/ \E t \in Transcripts : Starts(t) \/ Skips(t) \/ Invokes(t) \/ Stages(t) \/ Finishes(t)
        \/ Dies

Spec == Init /\ [][Next]_vars

-----------------------------------------------------------------------------
(* Properties.                                                             *)

\* However often a command is ingested, after whatever crash, and in however many
\* transcripts of the meeting it was said: its provider is called once.
CalledOnce == \A k \in Keys : provider.calls[k] <= 1

\* Two changes of one entity are never out at once.
OneAtATime ==
    \A t, u \in Transcripts :
        (job[t].at = "called" /\ job[u].at = "called" /\ t # u)
          => LockOf[KeyOf(t)] # LockOf[KeyOf(u)]

\* What pm-ai says it executed did happen: also a replay, also of an attempt whose
\* outcome nobody recorded.
ExecutedDidHappen ==
    \A w \in {"executed", "ran"} : \A p \in said[w] : Commands[p[1]][p[2]] \in provider.applied

\* Whatever a skill changed has its key in the ledger before it is changed, so that a
\* harvest does not take it for someone else's; and the event log has at most one line
\* of it, never before the ledger settled it.
AppliedIsClaimed ==
    /\ \A k \in provider.applied : executed[k] # "none"
    /\ \A k \in Keys : logged[k] > 0 => executed[k] = "settled" /\ logged[k] = 1

\* ExecutedButUnrecorded is "never to be retried or staged".
RanIsNotStaged == said["ran"] \cap said["staged"] = {}

=============================================================================
