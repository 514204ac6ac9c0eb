------------------------------ MODULE Account -------------------------------
(***************************************************************************)
(* What one account promises to the rest of the system, however the        *)
(* requests on it interleave: it is created once; a participant's account  *)
(* waits for the code mailed to it before it is usable, staff accounts are *)
(* usable at once; and a usable account stays usable.  For a moment, or    *)
(* forever if registering breaks off, a new account is open before it      *)
(* waits: tokens may already be issued then.                               *)
(***************************************************************************)

VARIABLES
  phase,  \* "absent", "open", "waiting" or "usable"
  token   \* somebody holds an access token of the account

Init == phase = "absent" /\ token = FALSE

Create == phase = "absent" /\ phase' \in {"open", "usable"} /\ UNCHANGED token

AskForCode == phase = "open" /\ phase' = "waiting" /\ UNCHANGED token

\* The code is redeemed, which also signs the person in.
Activate == phase = "waiting" /\ phase' = "usable" /\ token' = TRUE

\* Signing in on an account that was open or usable when it was looked up.
SignIn == phase # "absent" /\ token' = TRUE /\ UNCHANGED phase

ExpireToken == token' = FALSE /\ UNCHANGED phase

Next == Create \/ AskForCode \/ Activate \/ SignIn \/ ExpireToken

Spec == Init /\ [][Next]_<<phase, token>>
=============================================================================
