-------------------------------- MODULE RNF ---------------------------------
(***************************************************************************)
(* The contract of the request/notify/fetch ("RNF") methods of             *)
(* de.tahifi.Lists.Navigation, as a well-behaved D-Bus client sees it.     *)
(*                                                                         *)
(* Each call goes through phases.  It is either answered with its result   *)
(* at once, or answered with a cookie; in the latter case exactly one      *)
(* signal for the cookie follows, never before the cookie, and only after  *)
(* DataAvailable the result is fetched, once, without fail.  The broker    *)
(* serves one call at a time and leaves no caller without an answer.  A    *)
(* D-Bus error is an answer as well, but for the calls of Refusable only,  *)
(* and never once a cookie has been handed out.                            *)
(***************************************************************************)
CONSTANTS Calls, Refusable

VARIABLE phase

Phases == {"new", "pending", "answered", "refused", "cookie", "available",
           "failed", "fetched"}

Init == phase = [c \in Calls |-> "new"]

Go(c, from, to) == /\ phase[c] = from
                   /\ phase' = [phase EXCEPT ![c] = to]

Call(c)   == (\A d \in Calls : phase[d] # "pending") /\ Go(c, "new", "pending")
Answer(c) == \/ Go(c, "pending", "answered")
             \/ Go(c, "pending", "cookie")
             \/ c \in Refusable /\ Go(c, "pending", "refused")
Notify(c) == Go(c, "cookie", "available") \/ Go(c, "cookie", "failed")
Fetch(c)  == Go(c, "available", "fetched")

Next == \E c \in Calls : Call(c) \/ Answer(c) \/ Notify(c) \/ Fetch(c)

Safety == Init /\ [][Next]_phase

Fairness == \A c \in Calls : WF_phase(Answer(c)) /\ WF_phase(Notify(c))

Spec == Safety /\ Fairness
=============================================================================
