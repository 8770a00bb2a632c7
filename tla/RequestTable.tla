---------------------------- MODULE RequestTable ----------------------------
(***************************************************************************)
(* What a client with request sessions promises to its application: a      *)
(* request it has taken on is called back exactly once, with the answer or *)
(* with a timeout, and one it has given up with an error is never called   *)
(* back.  The shadow client and the CoAP client implement it.              *)
(***************************************************************************)

CONSTANT Requests

VARIABLES
  fate,  \* what has become of each request
  open   \* the requests whose API call has not returned

vars == <<fate, open>>

Fates == {"unused", "pending", "answered", "expired", "withdrawn"}

TypeOK ==
  /\ fate \in [Requests -> Fates]
  /\ open \subseteq Requests

Init ==
  /\ fate = [r \in Requests |-> "unused"]
  /\ open = {}

Becomes(r, from, to) ==
  /\ fate[r] = from
  /\ fate' = [fate EXCEPT ![r] = to]

\* The call that makes the request; it may return at once.
Begin(r) ==
  /\ Becomes(r, "unused", "pending")
  /\ open' \in {open, open \cup {r}}

Answer(r) == Becomes(r, "pending", "answered") /\ UNCHANGED open
Expire(r) == Becomes(r, "pending", "expired") /\ UNCHANGED open

\* Only the call itself can take the request back.
Withdraw(r) ==
  /\ r \in open
  /\ Becomes(r, "pending", "withdrawn")
  /\ open' = open \ {r}

Return(r) ==
  /\ r \in open
  /\ open' = open \ {r}
  /\ UNCHANGED fate

Next == \E r \in Requests : Begin(r) \/ Answer(r) \/ Expire(r) \/ Withdraw(r) \/ Return(r)

Spec == Init /\ [][Next]_vars

\* Every pending request ends.
FairSpec == Spec /\ \A r \in Requests : WF_vars(Answer(r) \/ Expire(r))
=============================================================================
