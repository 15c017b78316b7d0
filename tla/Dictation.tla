----------------------------- MODULE Dictation -----------------------------
(***************************************************************************)
(* What the daemon promises about a dictation, whatever its queue, timers, *)
(* recovery scan, crashes and restarts do: it is open until it has been    *)
(* settled; its text is typed at most once, and once more for every Retry; *)
(* history says "delivered" only of a text that was typed; and what is     *)
(* delivered or cancelled stays so until the user asks again.  What the    *)
(* user has deleted is gone for good.                                      *)
(*                                                                         *)
(* A failed dictation may become pending without a Retry: an id of it that *)
(* is still in the queue makes process() take it up once more, but never   *)
(* to type a text a second time.                                           *)
(***************************************************************************)
EXTENDS Naturals

CONSTANT Ids

VARIABLES
  outcome,    \* what history says of each dictation
  typed,      \* how often its text was typed
  requests    \* how often the user asked for it again

dictationVars == <<outcome, typed, requests>>

Outcomes == {"absent", "pending", "failed", "delivered", "cancelled",
             "deleted"}

Becomes(j, o) == outcome' = [outcome EXCEPT ![j] = o]

(* Failed at once when nothing can be recorded. *)
Begin(j) == /\ outcome[j] = "absent"
            /\ Becomes(j, "pending") \/ Becomes(j, "failed")
            /\ UNCHANGED <<typed, requests>>

Resume(j) == /\ outcome[j] = "failed" /\ typed[j] <= requests[j]
             /\ Becomes(j, "pending")
             /\ UNCHANGED <<typed, requests>>

Type(j) == /\ outcome[j] = "pending" /\ typed[j] <= requests[j]
           /\ typed' = [typed EXCEPT ![j] = @ + 1]
           /\ UNCHANGED <<outcome, requests>>

Deliver(j) == /\ outcome[j] = "pending" /\ typed[j] > 0
              /\ Becomes(j, "delivered")
              /\ UNCHANGED <<typed, requests>>

(* Also what a SIGTERM does to a failed dictation that was taken up again. *)
GiveUp(j) == /\ outcome[j] \in {"pending", "failed"}
             /\ Becomes(j, "failed") \/ Becomes(j, "cancelled")
             /\ UNCHANGED <<typed, requests>>

Ask(j) == /\ outcome[j] \notin {"absent", "deleted"} /\ Becomes(j, "pending")
          /\ requests' = [requests EXCEPT ![j] = @ + 1]
          /\ UNCHANGED typed

Drop(j) == /\ outcome[j] \notin {"absent", "deleted"} /\ Becomes(j, "deleted")
           /\ UNCHANGED <<typed, requests>>

DictationInit == /\ outcome = [j \in Ids |-> "absent"]
                 /\ typed = [j \in Ids |-> 0] /\ requests = [j \in Ids |-> 0]

Advance(j) ==
  Begin(j) \/ Resume(j) \/ Type(j) \/ Deliver(j) \/ GiveUp(j) \/ Ask(j)

DictationNext == \E j \in Ids : Advance(j) \/ Drop(j)

DictationSpec == DictationInit /\ [][DictationNext]_dictationVars
=============================================================================
