-------------------------- MODULE DepositLifecycle --------------------------
(***************************************************************************)
(* What a depositor may rely on, without daemons, rows and directories: a  *)
(* file goes from registered to replicated or to an error, step by step    *)
(* and never back; it counts as stored only once its content is kept; a    *)
(* deposit is finished when none of its files waits any more, and its      *)
(* depositor hears of that once, and not before.                           *)
(*                                                                         *)
(* DepositPipeline implements this (Implements there).                     *)
(***************************************************************************)
EXTENDS Naturals

CONSTANTS Files, Deposits, DepositOf, Contents, ContentOf

VARIABLES
    status,   \* of each file, by the names of DepositFile.State
    kept,     \* contents that are in the archive
    stage,    \* of each deposit: "none", "open", "done" or "copied"
    mails     \* sent for each deposit

vars == <<status, kept, stage, mails>>

Init ==
    /\ status = [f \in Files |-> "absent"]
    /\ kept = {}
    /\ stage = [d \in Deposits |-> "none"]
    /\ mails = [d \in Deposits |-> 0]

NoneIn(d, states) == \A f \in Files : DepositOf[f] = d => status[f] \notin states

(* A deposit is made, with its files, or without any if one is not valid.   *)
Register(d) ==
    /\ stage[d] = "none"
    /\ stage' = [stage EXCEPT ![d] = "open"]
    /\ \/ UNCHANGED status
       \/ \E s \in {"REGISTERED", "UPLOADED"} :
             status' = [f \in Files |-> IF DepositOf[f] = d THEN s ELSE status[f]]
    /\ UNCHANGED <<kept, mails>>

Advance(f, from, to) ==
    /\ status[f] = from
    /\ status' = [status EXCEPT ![f] = to]
    /\ UNCHANGED <<kept, stage, mails>>

Upload(f) == Advance(f, "REGISTERED", "UPLOADED")
Keep(f) ==
    /\ status[f] = "UPLOADED"
    /\ kept' = kept \cup {ContentOf[f]}
    /\ UNCHANGED <<status, stage, mails>>
Store(f) == ContentOf[f] \in kept /\ Advance(f, "UPLOADED", "HASHED")
GiveUp(f) == Advance(f, "UPLOADED", "ERROR")
Replicate(f) == Advance(f, "HASHED", "REPLICATED")

(* The mark "copied" may be lost to a later "done", but is never early.     *)
Finish(d) ==
    /\ stage[d] # "none"
    /\ NoneIn(d, {"REGISTERED", "UPLOADED"})
    /\ stage' = [stage EXCEPT ![d] = "done"]
    /\ UNCHANGED <<status, kept, mails>>
Copied(d) ==
    /\ stage[d] # "none"
    /\ NoneIn(d, {"REGISTERED", "UPLOADED", "HASHED"})
    /\ stage' = [stage EXCEPT ![d] = "copied"]
    /\ UNCHANGED <<status, kept, mails>>

Tell(d) ==
    /\ stage[d] \in {"done", "copied"}
    /\ mails[d] = 0
    /\ mails' = [mails EXCEPT ![d] = 1]
    /\ UNCHANGED <<status, kept, stage>>

Next ==
    \/ \E d \in Deposits : Register(d) \/ Finish(d) \/ Copied(d) \/ Tell(d)
    \/ \E f \in Files : Upload(f) \/ Keep(f) \/ Store(f) \/ GiveUp(f) \/ Replicate(f)

Spec == Init /\ [][Next]_vars

=============================================================================
