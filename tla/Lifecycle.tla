----------------------------- MODULE Lifecycle ------------------------------
(***************************************************************************)
(* What a registration promises to the rest of the system however its      *)
(* requests interleave: it starts by waiting for a payment; from its first *)
(* stored proof on it is in one of the statuses that say a proof exists,   *)
(* and it never returns to waiting for a payment or becomes CANCELLED;     *)
(* proofs are only ever added.  The documented order of the statuses       *)
(* after the first proof is NOT promised: overlapping saves undo it.       *)
(***************************************************************************)
EXTENDS Naturals

VARIABLES
  status,    \* RegistrationStatus
  evidence   \* stored proofs of payment

\* The statuses of a registration that has a proof.
WithProof == {"PENDING_VERIFICATION", "VERIFIED", "REJECTED"}

Init == status = "PENDING_PAYMENT" /\ evidence = 0

\* A proof is stored and asks for a verification; a later one may leave the
\* status as it is.
Submit ==
  /\ evidence' = evidence + 1
  /\ \/ status' = "PENDING_VERIFICATION"
     \/ evidence > 0 /\ status' = status

\* A treasurer decides, or a save() writes an older status back.
Settle ==
  /\ evidence > 0
  /\ status' \in WithProof
  /\ UNCHANGED evidence

Next == Submit \/ Settle

Spec == Init /\ [][Next]_<<status, evidence>>
=============================================================================
