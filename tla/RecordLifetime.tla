--------------------------- MODULE RecordLifetime ---------------------------
(***************************************************************************)
(* What workers sharing records in a memory pool owe each other, whatever  *)
(* the mechanism (counters, grace periods, locks): a record is allocated   *)
(* by one user, passed on only by a user that has it, and freed only when  *)
(* nobody has it any more; a freed record is gone for good.                *)
(***************************************************************************)
CONSTANTS
  Records,   \* the records: each is allocated at most once
  Users      \* those that can point to a record

VARIABLES
  status,    \* status[r]: "unused", "live" or "freed"
  users      \* users[r]: who points to the record r

vars == <<status, users>>

Init ==
  /\ status = [r \in Records |-> "unused"]
  /\ users = [r \in Records |-> {}]

Allocate(r, u) ==
  /\ status[r] = "unused"
  /\ status' = [status EXCEPT ![r] = "live"]
  /\ users' = [users EXCEPT ![r] = {u}]

Pass(r, u, v) ==
  /\ status[r] = "live"
  /\ u \in users[r]
  /\ users' = [users EXCEPT ![r] = @ \cup {v}]
  /\ UNCHANGED status

Drop(r, u) ==
  /\ u \in users[r]
  /\ users' = [users EXCEPT ![r] = @ \ {u}]
  /\ UNCHANGED status

Free(r) ==
  /\ status[r] = "live"
  /\ users[r] = {}
  /\ status' = [status EXCEPT ![r] = "freed"]
  /\ UNCHANGED users

Next ==
  \E r \in Records :
    \/ Free(r)
    \/ \E u \in Users : Allocate(r, u) \/ Drop(r, u) \/ \E v \in Users : Pass(r, u, v)

Spec == Init /\ [][Next]_vars
============================================================================
