--------------------------- MODULE RequestDelivery ---------------------------
(***************************************************************************)
(* What the socket scheduler promises about one request name, whatever its *)
(* transport, lane, deadline or readiness: a request is executed only      *)
(* after it was accepted, one at a time, and once it is answered it is not *)
(* accepted again until its answer has been forgotten.                     *)
(***************************************************************************)
CONSTANT Requests   \* the names a client may use

VARIABLE status     \* name -> what the server remembers of it

Statuses == {"unknown", "accepted", "refused", "executed"}

Answered == {r \in Requests : status[r] \in {"refused", "executed"}}

Init == status = [r \in Requests |-> "unknown"]

\* The names in changed get a new status; any answer may be forgotten with it.
Update(changed) ==
  \E forgotten \in SUBSET (Answered \cup DOMAIN changed) :
    status' = [r \in Requests |->
      IF r \in forgotten THEN "unknown"
      ELSE IF r \in DOMAIN changed THEN changed[r] ELSE status[r]]

Accept(r) ==
  status[r] = "unknown" /\ status' = [status EXCEPT ![r] = "accepted"]

Execute(r) ==
  status[r] = "accepted" /\ Update([x \in {r} |-> "executed"])

\* Refusals at the door, expiries, and the whole queue when the pump fails.
Refuse(S) ==
  /\ \A r \in S : status[r] \in {"unknown", "accepted"}
  /\ Update([x \in S |-> "refused"])

Next ==
  \/ \E r \in Requests : Accept(r) \/ Execute(r)
  \/ \E S \in SUBSET Requests : Refuse(S)

Spec == Init /\ [][Next]_status
=============================================================================
