---------------------------- MODULE ClaimedSteps ----------------------------
(***************************************************************************)
(* What the daemon's writer promises whoever hands it a step, with no      *)
(* queue, thread, transaction or stop in it: each step meets one fate,     *)
(* once and for good; its writes are kept only if that fate is to be       *)
(* applied; and its caller is told nothing that disagrees with it.         *)
(***************************************************************************)
CONSTANT Steps

VARIABLES fate,   \* what became of each step
          told,   \* what its caller was told
          kept    \* the steps whose writes are in the store

vars == <<fate, told, kept>>

Decided == {"applied", "undone", "refused", "withdrawn"}

\* What a caller may be told of a step that met this fate.  A caller that
\* stopped waiting is told nothing about the step.
Words(f) ==
    CASE f = "applied"   -> {"value", "cancelled"}
      [] f = "undone"    -> {"error", "cancelled"}
      [] f = "refused"   -> {"stopped", "busy", "cancelled"}
      [] f = "withdrawn" -> {"busy", "cancelled"}
      [] OTHER           -> {"cancelled"}

Init ==
    /\ fate = [s \in Steps |-> "none"]
    /\ told = [s \in Steps |-> "nothing"]
    /\ kept = {}

\* fate and told of one step move together or apart; neither moves back.
Moves(s, f, w) ==
    /\ fate' = [fate EXCEPT ![s] = f]
    /\ told' = [told EXCEPT ![s] = w]
    /\ w = told[s] \/ (told[s] = "nothing" /\ w \in Words(f))

HandOver(s) ==
    /\ fate[s] = "none"
    /\ \E f \in {"pending", "refused"}, w \in {"nothing", "stopped"} : Moves(s, f, w)
    /\ UNCHANGED kept

Apply(s) ==
    /\ fate[s] = "pending"
    /\ Moves(s, "applied", told[s])
    /\ kept' \in {kept, kept \cup {s}}

GiveUp(s) ==
    /\ fate[s] = "pending"
    /\ \E f \in Decided \ {"applied"}, w \in {told[s], "busy", "cancelled"} :
           Moves(s, f, w)
    /\ UNCHANGED kept

\* Closing the writer refuses every step still pending that nothing started.
RefuseAll ==
    /\ \E S \in SUBSET {s \in Steps : fate[s] = "pending"} :
           fate' = [s \in Steps |-> IF s \in S THEN "refused" ELSE fate[s]]
    /\ UNCHANGED <<told, kept>>

Tell(s) ==
    /\ fate[s] # "none" /\ told[s] = "nothing"
    /\ \E w \in Words(fate[s]) : Moves(s, fate[s], w)
    /\ UNCHANGED kept

Next ==
    \/ \E s \in Steps : HandOver(s) \/ Apply(s) \/ GiveUp(s) \/ Tell(s)
    \/ RefuseAll

Spec == Init /\ [][Next]_vars
=============================================================================
