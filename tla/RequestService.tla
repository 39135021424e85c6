--------------------------- MODULE RequestService ---------------------------
(***************************************************************************)
(* What the serial master promises to the callers of send(): a request is  *)
(* open until it is either resolved with the target's answer to this very  *)
(* request or rejected, the verdict is final, and it does come.  How many  *)
(* requests are open, in which order they are served and what happens on   *)
(* the line is left to the implementation.                                 *)
(***************************************************************************)
CONSTANT Requests   \* request objects in use

VARIABLES
  state,   \* what became of the promise of each request
  answer   \* whose answer the request was given, if any

vars == <<state, answer>>

TypeOK ==
  /\ state \in [Requests -> {"fresh", "open", "resolved", "rejected"}]
  /\ answer \in [Requests -> {"none", "own"}]

Init ==
  /\ state = [r \in Requests |-> "fresh"]
  /\ answer = [r \in Requests |-> "none"]

\* A caller submits a new request; a settled object's name may be used again.
Submit(r) ==
  /\ state[r] # "open"
  /\ state' = [state EXCEPT ![r] = "open"]
  /\ answer' = [answer EXCEPT ![r] = "none"]

Resolve(r) ==
  /\ state[r] = "open"
  /\ state' = [state EXCEPT ![r] = "resolved"]
  /\ answer' = [answer EXCEPT ![r] = "own"]

Reject(r) ==
  /\ state[r] = "open"
  /\ state' = [state EXCEPT ![r] = "rejected"]
  /\ UNCHANGED answer

Next == \E r \in Requests : Submit(r) \/ Resolve(r) \/ Reject(r)

Spec == Init /\ [][Next]_vars

FairSpec == Spec /\ \A r \in Requests : WF_vars(Resolve(r) \/ Reject(r))

=============================================================================
