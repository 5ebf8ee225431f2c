----------------------------- MODULE PromptOnce -----------------------------
(***************************************************************************)
(* What an attachment prompt action promises the user: its bytes enter the *)
(* terminal at most once and only after the user confirmed the preview;    *)
(* "committed" is reported only for bytes that were written, "cancelled"   *)
(* only for bytes that never will be.                                      *)
(***************************************************************************)
CONSTANT ActionId

VARIABLES
  fate,       \* "open", "written" or "void": the bytes can no longer be written
  confirmed,  \* the actions whose preview the user has confirmed
  told        \* what the user was told: "nothing", "committed", "cancelled", "failed"

vars == <<fate, confirmed, told>>

Init ==
  /\ fate = [a \in ActionId |-> "open"]
  /\ confirmed = {}
  /\ told = [a \in ActionId |-> "nothing"]

Confirm(a) ==
  /\ told[a] = "nothing"
  /\ confirmed' = confirmed \cup {a}
  /\ UNCHANGED <<fate, told>>

Write(a) ==
  /\ fate[a] = "open"
  /\ a \in confirmed
  /\ fate' = [fate EXCEPT ![a] = "written"]
  /\ UNCHANGED <<confirmed, told>>

\* Cancelled, failed half way, or the session is over: any set of actions at once.
Void(A) ==
  /\ \A a \in A : fate[a] = "open"
  /\ fate' = [a \in ActionId |-> IF a \in A THEN "void" ELSE fate[a]]
  /\ UNCHANGED <<confirmed, told>>

Tell(a, outcome) ==
  /\ told[a] = "nothing"
  /\ outcome = "committed" => fate[a] = "written"
  /\ outcome = "cancelled" => fate[a] = "void"
  /\ told' = [told EXCEPT ![a] = outcome]
  /\ UNCHANGED <<fate, confirmed>>

Next ==
  \/ \E a \in ActionId : Confirm(a) \/ Write(a)
  \/ \E A \in SUBSET ActionId : Void(A)
  \/ \E a \in ActionId, outcome \in {"committed", "cancelled", "failed"} : Tell(a, outcome)

Spec == Init /\ [][Next]_vars
=============================================================================
