----------------------------- MODULE LoginSessions -----------------------------
(***************************************************************************)
(* What refresh tokens promise: a login is open while one token of it can  *)
(* be exchanged; each exchange takes a token that was never issued before; *)
(* once closed a login stays closed, whatever token of it is presented.    *)
(* A login is named by its first token.                                    *)
(***************************************************************************)
CONSTANT Tokens

VARIABLES
  issued,  \* tokens that were ever good for an exchange
  current  \* of each login, the tokens that still are

vars == <<issued, current>>

Init ==
  /\ issued = {}
  /\ current = [l \in Tokens |-> {}]

Open(l) ==
  /\ l \notin issued
  /\ issued' = issued \cup {l}
  /\ current' = [current EXCEPT ![l] = {l}]

Exchange(l, old, new) ==
  /\ current[l] = {old} /\ new \notin issued
  /\ issued' = issued \cup {new}
  /\ current' = [current EXCEPT ![l] = {new}]

Close(l) ==
  /\ current[l] # {}
  /\ current' = [current EXCEPT ![l] = {}]
  /\ UNCHANGED issued

Next ==
  \E l \in Tokens :
    \/ Open(l) \/ Close(l)
    \/ \E old, new \in Tokens : Exchange(l, old, new)

Spec == Init /\ [][Next]_vars

================================================================================
