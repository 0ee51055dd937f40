------------------------------ MODULE AuthTokens ------------------------------
(***************************************************************************)
(* The refresh tokens of one account.  A token is a signed JWT with an id  *)
(* of its own; it can be exchanged for the next one as long as Redis has   *)
(* the key refresh:<user>:<id>.  Logins and refreshes read the account and *)
(* its tenant, and only then store a key or rotate one; whoever changes    *)
(* the password or deactivates the account does that first and then scans  *)
(* the account's keys and deletes them one by one.  All of it interleaves. *)
(*                                                                         *)
(* Requests know the right password: a wrong one ends them, as any error   *)
(* does.  A logout has no effect here: its route sets no user id.          *)
(***************************************************************************)
CONSTANTS
  Tokens,   \* the refresh tokens that may be issued
  Requests  \* the requests that may be in progress at one time

VARIABLES
  account,  \* users.is_active, and whether the tenant is 'suspended'
  issued,   \* the tokens that were stored
  login,    \* of each token, the first token of its login
  live,     \* the tokens whose key is in Redis
  expired,  \* the tokens whose JWT is no longer valid
  request   \* requests about this account

vars == <<account, issued, login, live, expired, request>>

Idle == [pc |-> "idle", token |-> {}, owed |-> {}, must |-> {}]
Answered == [Idle EXCEPT !.pc = "done"]

Init ==
  /\ account = [active |-> TRUE, suspended |-> FALSE]
  /\ issued = {} /\ live = {} /\ expired = {}
  /\ login = [t \in Tokens |-> t]
  /\ request = [q \in Requests |-> Idle]

At(q, pc) == request[q].pc = pc
Answer(q) == request' = [request EXCEPT ![q] = Answered]
Goto(q, pc) == request' = [request EXCEPT ![q].pc = pc]

\* The request stops at pc with every live token revoked in its name.
RevokesAll(q, pc) == request' = [request EXCEPT ![q] = [@ EXCEPT !.pc = pc, !.owed = live]]

tokens == <<issued, login, live, expired>>

\* An error, a cancelled request or a crash: nothing else happens.
RequestEnds(q) ==
  /\ request[q].pc \notin {"idle", "done"}
  /\ Answer(q)
  /\ UNCHANGED <<account, tokens>>

\* Another request arrives in the place of one that was answered.
RequestArrives(q) ==
  /\ At(q, "done")
  /\ request' = [request EXCEPT ![q] = Idle]
  /\ UNCHANGED <<account, tokens>>

-------------------------------------------------------------------------------
(* PostLogin.                                                                 *)

LoginRead(q) ==
  /\ At(q, "idle")
  /\ IF account.active THEN Goto(q, "logintenant") ELSE Answer(q)
  /\ UNCHANGED <<account, tokens>>

LoginTenant(q) ==
  /\ At(q, "logintenant")
  /\ IF account.suspended THEN Answer(q) ELSE Goto(q, "store")
  /\ UNCHANGED <<account, tokens>>

\* Mutant: the key is stored before the token is signed, which then fails.
LoginStoreUnsigned(q) ==
  /\ At(q, "store")
  /\ \E t \in Tokens \ issued : live' = live \cup {t}
  /\ Answer(q)
  /\ UNCHANGED <<account, issued, login, expired>>

\* Issue and storeRefresh.
LoginStore(q) ==
  /\ At(q, "store")
  /\ \E t \in Tokens \ issued :
       /\ issued' = issued \cup {t}
       /\ live' = live \cup {t}
  /\ Answer(q)
  /\ UNCHANGED <<account, login, expired>>

-------------------------------------------------------------------------------
(* PostRefresh, with any token that was handed out before.                    *)

\* VerifyRefresh, then the account.
RefreshRead(q, t) ==
  /\ At(q, "idle") /\ t \in issued \ expired
  /\ IF account.active
     THEN request' = [request EXCEPT ![q] = [@ EXCEPT !.pc = "refreshtenant", !.token = {t}]]
     ELSE Answer(q)
  /\ UNCHANGED <<account, tokens>>

\* When the tenant cannot be read it is taken not to be suspended.
RefreshTenant(q) ==
  /\ At(q, "refreshtenant")
  /\ \/ Goto(q, "rotate")
     \/ account.suspended /\ Answer(q)
  /\ UNCHANGED <<account, tokens>>

\* Mutant: the script does not look whether the old key is there.
RotateAnyway(q, t, new) ==
  /\ At(q, "rotate") /\ request[q].token = {t}
  /\ issued' = issued \cup {new}
  /\ login' = [login EXCEPT ![new] = login[t]]
  /\ live' = (live \ {t}) \cup {new}
  /\ Answer(q)
  /\ UNCHANGED <<account, expired>>

\* Mutant: the script does not delete the old key.
RotateKeeping(q, t, new) ==
  /\ At(q, "rotate") /\ request[q].token = {t} /\ t \in live
  /\ issued' = issued \cup {new}
  /\ login' = [login EXCEPT ![new] = login[t]]
  /\ live' = live \cup {new}
  /\ Answer(q)
  /\ UNCHANGED <<account, expired>>

\* rotateLua: one script, so nothing comes between its commands.
Rotate(q, t, new) ==
  /\ At(q, "rotate") /\ request[q].token = {t} /\ t \in live
  /\ issued' = issued \cup {new}
  /\ login' = [login EXCEPT ![new] = login[t]]
  /\ live' = (live \ {t}) \cup {new}
  /\ Answer(q)
  /\ UNCHANGED <<account, expired>>

\* The token was used before, revoked, or has just expired.
RotateRefused(q) ==
  /\ At(q, "rotate") /\ request[q].token \cap live = {}
  /\ RevokesAll(q, "revoke")
  /\ UNCHANGED <<account, tokens>>

-------------------------------------------------------------------------------
(* Password changes and staff's changes of the account.                       *)

\* AuthDB lets the user in; PostChangePassword checks the current password.
ChangePasswordRead(q) ==
  /\ At(q, "idle")
  /\ IF account.active /\ ~account.suspended THEN Goto(q, "set") ELSE Answer(q)
  /\ UNCHANGED <<account, tokens>>

\* PostResetPassword, by an admin: the account need not be active.
ResetPasswordRead(q) ==
  /\ At(q, "idle")
  /\ Goto(q, "set")
  /\ UNCHANGED <<account, tokens>>

SetPassword(q) ==
  /\ At(q, "set")
  /\ RevokesAll(q, "revoke")
  /\ UNCHANGED <<account, tokens>>

\* PatchUser: UpdateUser, and the tokens are revoked when it deactivates.
Deactivate(q) ==
  /\ At(q, "idle")
  /\ account' = [account EXCEPT !.active = FALSE]
  /\ RevokesAll(q, "revoke")
  /\ UNCHANGED tokens

Activate ==
  /\ account' = [account EXCEPT !.active = TRUE]
  /\ UNCHANGED <<tokens, request>>

\* 'closed' is to a login what 'active' is.
PatchTenantStatus ==
  /\ \E s \in BOOLEAN : account' = [account EXCEPT !.suspended = s]
  /\ UNCHANGED <<tokens, request>>

-------------------------------------------------------------------------------
(* revokeUserRefreshTokens: SCAN returns every key that is there from its     *)
(* beginning to its end; of those that come or go meanwhile it may.           *)

ScanBegins(q) ==
  /\ At(q, "revoke")
  /\ request' = [request EXCEPT ![q] = [@ EXCEPT !.pc = "scan", !.must = live]]
  /\ UNCHANGED <<account, tokens>>

ScanDeletes(q, t) ==
  /\ At(q, "scan") /\ t \in live
  /\ live' = live \ {t}
  /\ UNCHANGED <<account, issued, login, expired, request>>

\* DEL fails; the error is ignored, and this token is no longer promised.
ScanSkips(q, t) ==
  /\ At(q, "scan") /\ t \in live \cap request[q].must
  /\ request' = [request EXCEPT ![q].owed = @ \ {t}, ![q].must = @ \ {t}]
  /\ UNCHANGED <<account, tokens>>

\* Mutant: the cursor of the first SCAN is not followed.
ScanEndsEarly(q) ==
  /\ At(q, "scan")
  /\ Goto(q, "done")
  /\ UNCHANGED <<account, tokens>>

ScanEnds(q) ==
  /\ At(q, "scan") /\ request[q].must \cap live = {}
  /\ Goto(q, "done")
  /\ UNCHANGED <<account, tokens>>

-------------------------------------------------------------------------------
(* Time.  The key is stored after the token is signed, for as long.           *)

TokenExpires(t) ==
  /\ t \in issued \ expired
  /\ expired' = expired \cup {t}
  /\ UNCHANGED <<account, issued, login, live, request>>

KeyExpires(t) ==
  /\ t \in live \cap expired
  /\ live' = live \ {t}
  /\ UNCHANGED <<account, issued, login, expired, request>>

-------------------------------------------------------------------------------
LoginNext(q) == LoginRead(q) \/ LoginTenant(q) \/ LoginStore(q)

RefreshNext(q) ==
  \/ \E t \in Tokens : RefreshRead(q, t)
  \/ RefreshTenant(q)
  \/ \E t \in Tokens, new \in Tokens \ issued : Rotate(q, t, new)
  \/ RotateRefused(q)

ChangeNext(q) ==
  \/ ChangePasswordRead(q) \/ ResetPasswordRead(q) \/ SetPassword(q) \/ Deactivate(q)

ScanNext(q) ==
  \/ ScanBegins(q) \/ ScanEnds(q)
  \/ \E t \in Tokens : ScanDeletes(q, t) \/ ScanSkips(q, t)

StaffNext == Activate \/ PatchTenantStatus

TimeNext == \E t \in Tokens : TokenExpires(t) \/ KeyExpires(t)

Next ==
  \/ \E q \in Requests :
       \/ RequestArrives(q) \/ RequestEnds(q)
       \/ LoginNext(q) \/ RefreshNext(q) \/ ChangeNext(q) \/ ScanNext(q)
  \/ StaffNext \/ TimeNext

Spec == Init /\ [][Next]_vars

-------------------------------------------------------------------------------
(* Properties.                                                                *)

RequestStates ==
  [pc : {"idle", "logintenant", "store", "refreshtenant", "rotate", "set", "revoke", "scan",
         "done"},
   token : SUBSET Tokens, owed : SUBSET issued, must : SUBSET issued]

\* Types: what a request has seen are tokens that were issued before.
TypeOK ==
  /\ account \in [active : BOOLEAN, suspended : BOOLEAN]
  /\ issued \subseteq Tokens /\ live \subseteq issued /\ expired \subseteq issued
  /\ login \in [Tokens -> Tokens]
  /\ request \in [Requests -> RequestStates]

\* However many refreshes of however many tabs race, retried or reused: of each
\* login at most one token can be exchanged.
OneLivePerLogin == \A s, t \in live : login[s] = login[t] => s = t

\* Once a password change, a deactivation or the answer to a reused token has
\* gone through, no token that was live when it took effect ever works again,
\* though keys were stored, rotated and deleted while the scan went on.
RevokedForGood == \A q \in Requests : At(q, "done") => request[q].owed \cap live = {}

\* Every step opens a login, exchanges its token, closes it for good, or is
\* none of the login's business.
Sessions == INSTANCE LoginSessions
  WITH current <- [l \in Tokens |-> {t \in live : login[t] = l}]

ImplementsLoginSessions == Sessions!Spec

================================================================================
