---------------------------- MODULE AuthTokensProofs ----------------------------
(***************************************************************************)
(* What AuthTokens guarantees for any number of tokens and requests: one   *)
(* live token per login, revocations that last, and that it implements     *)
(* LoginSessions.                                                          *)
(***************************************************************************)
EXTENDS AuthTokens, TLAPS

\* A login is named by a token that was issued; one not yet issued names itself.
LoginsNamed ==
  /\ \A t \in issued : login[t] \in issued
  /\ \A t \in Tokens \ issued : login[t] = t

\* What a scan still has to delete is on its list.
OwedAreListed == \A q \in Requests : At(q, "scan") => request[q].owed \cap live \subseteq request[q].must

Inv == TypeOK /\ LoginsNamed /\ OneLivePerLogin /\ OwedAreListed /\ RevokedForGood

-------------------------------------------------------------------------------
(* Three ways a step can go.  It may leave the tokens alone and move one      *)
(* request, ...                                                               *)
Moved(q, new) ==
  /\ request' = [request EXCEPT ![q] = new]
  /\ UNCHANGED tokens

\* ... it may issue a token, in place of those in gone, for a request that ends ...
Issued(q, new, first, gone) ==
  /\ new \in Tokens \ issued /\ first \in issued \cup {new}
  /\ issued' = issued \cup {new}
  /\ login' = [login EXCEPT ![new] = first]
  /\ live' = (live \ gone) \cup {new}
  /\ \A t \in live : login[t] = first => t \in gone
  /\ request' = [request EXCEPT ![q] = Answered]
  /\ UNCHANGED <<account, expired>>

\* ... or a key may go.
Gone ==
  /\ live' = live \/ \E t \in live : live' = live \ {t}
  /\ expired \subseteq expired' /\ expired' \subseteq issued
  /\ UNCHANGED <<account, issued, login, request>>

\* The states a request can be in that owe nothing they have not listed.
Kept(r) ==
  /\ r \in RequestStates
  /\ r.pc = "scan" => r.owed \cap live \subseteq r.must
  /\ r.pc = "done" => r.owed \cap live = {}

LEMMA AnsweredKept == Kept(Answered) /\ Kept(Idle)
  BY DEF Kept, Answered, Idle, RequestStates

LEMMA InvIsKept ==
  ASSUME Inv, NEW q \in Requests
  PROVE  Kept(request[q])
  BY DEF Inv, TypeOK, OwedAreListed, RevokedForGood, Kept, At

LEMMA MovedKeeps ==
  ASSUME Inv, NEW q \in Requests, NEW new, Kept(new), Moved(q, new),
         account' \in [active : BOOLEAN, suspended : BOOLEAN]
  PROVE  Inv'
<1> USE DEF Moved, tokens
<1>1. TypeOK'
  BY DEF Inv, TypeOK, Kept, RequestStates
<1>2. \A p \in Requests : request'[p] = IF p = q THEN new ELSE request[p]
  BY DEF Inv, TypeOK
<1>3. OwedAreListed' /\ RevokedForGood'
  BY <1>2 DEF Inv, Kept, OwedAreListed, RevokedForGood, At
<1>4. LoginsNamed' /\ OneLivePerLogin'
  BY DEF Inv, LoginsNamed, OneLivePerLogin
<1> QED  BY <1>1, <1>3, <1>4 DEF Inv

LEMMA IssuedKeeps ==
  ASSUME Inv, NEW q \in Requests, NEW new, NEW first, NEW gone, Issued(q, new, first, gone)
  PROVE  Inv'
<1> USE DEF Issued
<1>1. TypeOK'
  <2>1. \A p \in Requests : request'[p] \in [pc : {"idle", "logintenant", "store",
          "refreshtenant", "rotate", "set", "revoke", "scan", "done"},
          token : SUBSET Tokens, owed : SUBSET issued', must : SUBSET issued']
    <3>1. TAKE p \in Requests
    <3>2. request[p] \in RequestStates /\ Answered \in RequestStates
      BY AnsweredKept DEF Inv, TypeOK, Kept
    <3>3. request'[p] = IF p = q THEN Answered ELSE request[p]
      BY DEF Inv, TypeOK
    <3> QED  BY <3>2, <3>3 DEF RequestStates
  <2>2. request' \in [Requests -> RequestStates']
    BY <2>1 DEF Inv, TypeOK, RequestStates
  <2>3. login' \in [Tokens -> Tokens] /\ issued' \subseteq Tokens /\ live' \subseteq issued'
        /\ expired' \subseteq issued'
    BY DEF Inv, TypeOK
  <2> QED  BY <2>2, <2>3 DEF Inv, TypeOK
<1>2. \A t \in Tokens : login'[t] = IF t = new THEN first ELSE login[t]
  BY DEF Inv, TypeOK
<1>3. LoginsNamed'
  BY <1>2 DEF Inv, TypeOK, LoginsNamed
<1>4. OneLivePerLogin'
  BY <1>2 DEF Inv, TypeOK, LoginsNamed, OneLivePerLogin
<1>5. \A p \in Requests : request'[p] = IF p = q THEN Answered ELSE request[p]
  BY DEF Inv, TypeOK
<1>6. \A p \in Requests : Kept(request[p])
  BY InvIsKept
<1>7. OwedAreListed' /\ RevokedForGood'
  BY <1>5, <1>6 DEF Kept, RequestStates, Answered, Idle, OwedAreListed, RevokedForGood, At
<1> QED  BY <1>1, <1>3, <1>4, <1>7 DEF Inv

LEMMA GoneKeeps == Inv /\ Gone => Inv'
<1> SUFFICES ASSUME Inv, Gone PROVE Inv'  OBVIOUS
<1>1. TypeOK'
  BY DEF Inv, TypeOK, Gone, RequestStates
<1>2. LoginsNamed' /\ OneLivePerLogin' /\ OwedAreListed' /\ RevokedForGood'
  BY DEF Inv, Gone, LoginsNamed, OneLivePerLogin, OwedAreListed, RevokedForGood, At
<1> QED  BY <1>1, <1>2 DEF Inv

-------------------------------------------------------------------------------
(* Every step goes one of these ways.                                         *)

Way ==
  \/ \E q \in Requests : \E new :
       /\ Kept(new) /\ Moved(q, new)
       /\ account' \in [active : BOOLEAN, suspended : BOOLEAN]
  \/ \E q \in Requests, new \in Tokens : Issued(q, new, new, {})
  \/ \E q \in Requests, t \in live, new \in Tokens : Issued(q, new, login[t], {t})
  \/ Gone
  \/ /\ UNCHANGED <<tokens, request>>
     /\ account' \in [active : BOOLEAN, suspended : BOOLEAN]

\* Staff's changes, or a stutter.
LEMMA AccountKeeps ==
  ASSUME Inv, UNCHANGED <<tokens, request>>,
         account' \in [active : BOOLEAN, suspended : BOOLEAN]
  PROVE  Inv'
<1>1. TypeOK'
  BY DEF Inv, TypeOK, tokens, RequestStates
<1>2. LoginsNamed' /\ OneLivePerLogin' /\ OwedAreListed' /\ RevokedForGood'
  BY DEF Inv, tokens, LoginsNamed, OneLivePerLogin, OwedAreListed, RevokedForGood, At
<1> QED  BY <1>1, <1>2 DEF Inv

LEMMA WayKeeps == Inv /\ Way => Inv'
  BY MovedKeeps, IssuedKeeps, GoneKeeps, AccountKeeps DEF Way

LEMMA AnswerGoes ==
  ASSUME NEW q \in Requests, Inv, Answer(q), UNCHANGED <<account, tokens>>
  PROVE  Way
  BY AnsweredKept DEF Answer, Way, Moved, Inv, TypeOK

LEMMA GotoGoes ==
  ASSUME NEW q \in Requests, Inv, NEW pc, Goto(q, pc), UNCHANGED <<account, tokens>>,
         pc \in {"logintenant", "store", "rotate", "set"}
  PROVE  Way
<1> DEFINE new == [request[q] EXCEPT !.pc = pc]
<1>1. Kept(new)
  BY InvIsKept DEF Kept, RequestStates
<1>2. Moved(q, new)
  BY DEF Goto, Moved
<1> QED  BY <1>1, <1>2 DEF Way, Inv, TypeOK

LEMMA RevokesAllGoes ==
  ASSUME NEW q \in Requests, Inv, RevokesAll(q, "revoke"), UNCHANGED tokens,
         account' \in [active : BOOLEAN, suspended : BOOLEAN]
  PROVE  Way
<1> DEFINE new == [request[q] EXCEPT !.pc = "revoke", !.owed = live]
<1>1. Kept(new)
  BY InvIsKept DEF Kept, RequestStates, Inv, TypeOK
<1>2. Moved(q, new)
  BY DEF RevokesAll, Moved
<1> QED  BY <1>1, <1>2 DEF Way

LEMMA LoginGoes ==
  ASSUME Inv, NEW q \in Requests, LoginNext(q)
  PROVE  Way
<1>1. CASE LoginRead(q)
  BY <1>1, AnswerGoes, GotoGoes DEF LoginRead
<1>2. CASE LoginTenant(q)
  BY <1>2, AnswerGoes, GotoGoes DEF LoginTenant
<1>3. CASE LoginStore(q)
  <2>1. PICK t \in Tokens \ issued : issued' = issued \cup {t} /\ live' = live \cup {t}
    BY <1>3 DEF LoginStore
  <2>2. login' = [login EXCEPT ![t] = t]
    BY <1>3, <2>1 DEF LoginStore, Inv, TypeOK, LoginsNamed
  <2>3. \A s \in live : login[s] # t
    BY <2>1 DEF Inv, TypeOK, LoginsNamed
  <2>4. Issued(q, t, t, {})
    BY <1>3, <2>1, <2>2, <2>3 DEF LoginStore, Answer, Issued
  <2> QED  BY <2>4 DEF Way
<1> QED  BY <1>1, <1>2, <1>3 DEF LoginNext

LEMMA RefreshGoes ==
  ASSUME Inv, NEW q \in Requests, RefreshNext(q)
  PROVE  Way
<1>1. CASE \E t \in Tokens : RefreshRead(q, t)
  <2>1. PICK t \in Tokens : RefreshRead(q, t)
    BY <1>1
  <2>2. CASE account.active
    <3> DEFINE new == [request[q] EXCEPT !.pc = "refreshtenant", !.token = {t}]
    <3>1. Kept(new)
      BY InvIsKept DEF Kept, RequestStates
    <3>2. Moved(q, new) /\ UNCHANGED account
      BY <2>1, <2>2 DEF RefreshRead, Moved
    <3> QED  BY <3>1, <3>2 DEF Way, Inv, TypeOK
  <2>3. CASE ~account.active
    BY <2>1, <2>3, AnswerGoes DEF RefreshRead
  <2> QED  BY <2>2, <2>3
<1>2. CASE RefreshTenant(q)
  BY <1>2, AnswerGoes, GotoGoes DEF RefreshTenant
<1>3. CASE \E t \in Tokens, new \in Tokens \ issued : Rotate(q, t, new)
  <2>1. PICK t \in Tokens, new \in Tokens \ issued : Rotate(q, t, new)
    BY <1>3
  <2>2. t \in live /\ login[t] \in issued
    BY <2>1 DEF Rotate, Inv, TypeOK, LoginsNamed
  <2>3. \A s \in live : login[s] = login[t] => s \in {t}
    BY <2>2 DEF Inv, OneLivePerLogin
  <2>4. Issued(q, new, login[t], {t})
    BY <2>1, <2>2, <2>3 DEF Rotate, Answer, Issued
  <2> QED  BY <2>2, <2>4 DEF Way
<1>4. CASE RotateRefused(q)
  BY <1>4, RevokesAllGoes DEF RotateRefused, Inv, TypeOK
<1> QED  BY <1>1, <1>2, <1>3, <1>4 DEF RefreshNext

LEMMA ChangeGoes ==
  ASSUME Inv, NEW q \in Requests, ChangeNext(q)
  PROVE  Way
<1>1. CASE ChangePasswordRead(q)
  BY <1>1, AnswerGoes, GotoGoes DEF ChangePasswordRead
<1>2. CASE ResetPasswordRead(q)
  BY <1>2, GotoGoes DEF ResetPasswordRead
<1>3. CASE SetPassword(q)
  BY <1>3, RevokesAllGoes DEF SetPassword, Inv, TypeOK
<1>4. CASE Deactivate(q)
  BY <1>4, RevokesAllGoes DEF Deactivate, Inv, TypeOK
<1> QED  BY <1>1, <1>2, <1>3, <1>4 DEF ChangeNext

LEMMA ScanGoes ==
  ASSUME Inv, NEW q \in Requests, ScanNext(q)
  PROVE  Way
<1>0. Kept(request[q]) /\ account \in [active : BOOLEAN, suspended : BOOLEAN]
  BY InvIsKept DEF Inv, TypeOK
<1>1. CASE ScanBegins(q)
  <2> DEFINE new == [request[q] EXCEPT !.pc = "scan", !.must = live]
  <2>1. Kept(new)
    BY <1>0 DEF Kept, RequestStates, Inv, TypeOK
  <2>2. Moved(q, new) /\ UNCHANGED account
    BY <1>1 DEF ScanBegins, Moved
  <2> QED  BY <1>0, <2>1, <2>2 DEF Way
<1>2. CASE ScanEnds(q)
  <2> DEFINE new == [request[q] EXCEPT !.pc = "done"]
  <2>1. Kept(new)
    BY <1>0, <1>2 DEF ScanEnds, At, Kept, RequestStates
  <2>2. Moved(q, new) /\ UNCHANGED account
    BY <1>2 DEF ScanEnds, Goto, Moved
  <2> QED  BY <1>0, <2>1, <2>2 DEF Way
<1>3. CASE \E t \in Tokens : ScanDeletes(q, t)
  BY <1>3 DEF ScanDeletes, Gone, Way, Inv, TypeOK
<1>4. CASE \E t \in Tokens : ScanSkips(q, t)
  <2>1. PICK t \in Tokens : ScanSkips(q, t)
    BY <1>4
  <2> DEFINE new == [request[q] EXCEPT !.owed = @ \ {t}, !.must = @ \ {t}]
  <2>2. Kept(new)
    BY <1>0, <2>1 DEF ScanSkips, At, Kept, RequestStates
  <2>3. Moved(q, new) /\ UNCHANGED account
    BY <1>0, <2>1 DEF ScanSkips, Moved, Kept, RequestStates
  <2> QED  BY <1>0, <2>2, <2>3 DEF Way
<1> QED  BY <1>1, <1>2, <1>3, <1>4 DEF ScanNext

LEMMA StepGoes ==
  ASSUME Inv, [Next]_vars
  PROVE  Way
<1>1. CASE \E q \in Requests : RequestArrives(q) \/ RequestEnds(q)
  <2>1. PICK q \in Requests : RequestArrives(q) \/ RequestEnds(q)
    BY <1>1
  <2>2. CASE RequestArrives(q)
    <3>1. Moved(q, Idle) /\ UNCHANGED account
      BY <2>2 DEF RequestArrives, Moved
    <3> QED  BY <3>1, AnsweredKept DEF Way, Inv, TypeOK
  <2>3. CASE RequestEnds(q)
    BY <2>3, AnswerGoes DEF RequestEnds
  <2> QED  BY <2>1, <2>2, <2>3
<1>2. CASE \E q \in Requests : LoginNext(q) \/ RefreshNext(q) \/ ChangeNext(q) \/ ScanNext(q)
  BY <1>2, LoginGoes, RefreshGoes, ChangeGoes, ScanGoes
<1>3. CASE StaffNext
  BY <1>3 DEF StaffNext, Activate, PatchTenantStatus, Way, Inv, TypeOK
<1>4. CASE TimeNext
  BY <1>4 DEF TimeNext, TokenExpires, KeyExpires, Gone, Way, Inv, TypeOK
<1>5. CASE UNCHANGED vars
  BY <1>5 DEF vars, tokens, Way, Inv, TypeOK
<1> QED  BY <1>1, <1>2, <1>3, <1>4, <1>5 DEF Next

LEMMA InvInit == Init => Inv
<1> SUFFICES ASSUME Init PROVE Inv  OBVIOUS
<1>1. TypeOK
  BY DEF Init, TypeOK, RequestStates, Idle
<1>2. LoginsNamed /\ OneLivePerLogin /\ OwedAreListed /\ RevokedForGood
  BY DEF Init, Idle, LoginsNamed, OneLivePerLogin, OwedAreListed, RevokedForGood, At
<1> QED  BY <1>1, <1>2 DEF Inv

LEMMA Invariant == Spec => []Inv
<1>1. Inv /\ [Next]_vars => Inv'
  BY StepGoes, WayKeeps
<1> QED  BY InvInit, <1>1, PTL DEF Spec

\* Types, and that requests work on tokens that were issued before.
THEOREM TypeCorrect == Spec => []TypeOK
<1>1. Inv => TypeOK
  BY DEF Inv
<1> QED  BY Invariant, <1>1, PTL

\* Whatever races, a login has at most one token that can be exchanged.
THEOREM LoginHasOneToken == Spec => []OneLivePerLogin
<1>1. Inv => OneLivePerLogin
  BY DEF Inv
<1> QED  BY Invariant, <1>1, PTL

\* A token that a finished revocation was to end never works again.
THEOREM RevocationLasts == Spec => []RevokedForGood
<1>1. Inv => RevokedForGood
  BY DEF Inv
<1> QED  BY Invariant, <1>1, PTL

-------------------------------------------------------------------------------
(* The refinement.                                                            *)

LiveOf(l) == {t \in live : login[t] = l}

LEMMA SessionsInit == Init => Sessions!Init
  BY DEF Init, Sessions!Init

\* A token issued for a login takes the place of what was live of it.
LEMMA IssuedLive ==
  ASSUME Inv, NEW q \in Requests, NEW new \in Tokens, NEW first, NEW gone,
         gone \subseteq LiveOf(first), Issued(q, new, first, gone)
  PROVE  [l \in Tokens |-> LiveOf(l)]' = [[l \in Tokens |-> LiveOf(l)] EXCEPT ![first] = {new}]
<1> USE DEF Issued
<1>1. first \in Tokens
  BY DEF Inv, TypeOK
<1>2. \A t \in Tokens : login'[t] = IF t = new THEN first ELSE login[t]
  BY <1>1 DEF Inv, TypeOK
<1>3. live \subseteq Tokens /\ new \notin live
  BY DEF Inv, TypeOK
<1>4. LiveOf(first)' = {new}
  BY <1>2, <1>3 DEF LiveOf
<1>5. ASSUME NEW l \in Tokens, l # first PROVE LiveOf(l)' = LiveOf(l)
  BY <1>2, <1>3, <1>5 DEF LiveOf
<1> QED  BY <1>1, <1>4, <1>5

LEMMA SessionsStep ==
  ASSUME Inv, Way
  PROVE  [Sessions!Next]_(Sessions!vars)
<1> DEFINE current == [l \in Tokens |-> LiveOf(l)]
<1>0. live \subseteq issued /\ issued \subseteq Tokens /\ login \in [Tokens -> Tokens]
  BY DEF Inv, TypeOK
<1>1. CASE UNCHANGED <<issued, login, live>>
  BY <1>1 DEF Sessions!vars
<1>2. ASSUME NEW q \in Requests, NEW new \in Tokens, Issued(q, new, new, {})
      PROVE  Sessions!Next
  <2>1. current' = [current EXCEPT ![new] = {new}]
    BY <1>2, IssuedLive
  <2>2. new \notin issued /\ issued' = issued \cup {new}
    BY <1>2 DEF Issued
  <2>3. Sessions!Open(new)
    BY <2>1, <2>2 DEF Sessions!Open, LiveOf
  <2> QED  BY <2>3 DEF Sessions!Next
<1>3. ASSUME NEW q \in Requests, NEW t \in live, NEW new \in Tokens, Issued(q, new, login[t], {t})
      PROVE  Sessions!Next
  <2>1. LiveOf(login[t]) = {t} /\ login[t] \in Tokens /\ t \in Tokens
    BY <1>0 DEF LiveOf, Inv, OneLivePerLogin
  <2>2. current' = [current EXCEPT ![login[t]] = {new}]
    BY <1>3, <2>1, IssuedLive
  <2>3. new \notin issued /\ issued' = issued \cup {new}
    BY <1>3 DEF Issued
  <2>4. Sessions!Exchange(login[t], t, new)
    BY <2>1, <2>2, <2>3 DEF Sessions!Exchange, LiveOf
  <2> QED  BY <2>1, <2>4 DEF Sessions!Next
<1>4. ASSUME NEW t \in live, live' = live \ {t}, UNCHANGED <<issued, login>>
      PROVE  Sessions!Next
  <2>1. PICK l \in Tokens : l = login[t]
    BY <1>0
  <2>2. LiveOf(l) = {t}
    BY <1>0, <2>1 DEF LiveOf, Inv, OneLivePerLogin
  <2>3. LiveOf(l)' = {}
    BY <1>4, <2>2 DEF LiveOf
  <2>4. ASSUME NEW k \in Tokens, k # l PROVE LiveOf(k)' = LiveOf(k)
    BY <1>4, <2>1, <2>4 DEF LiveOf
  <2>5. [k \in Tokens |-> LiveOf(k)]' = [[k \in Tokens |-> LiveOf(k)] EXCEPT ![l] = {}]
    BY <2>3, <2>4
  <2>6. Sessions!Close(l)
    BY <1>4, <2>2, <2>5 DEF Sessions!Close, LiveOf
  <2> QED  BY <2>6 DEF Sessions!Next
<1> QED  BY <1>1, <1>2, <1>3, <1>4 DEF Way, Moved, Gone, tokens

\* A login is opened once, has one token that can be exchanged, and stays closed
\* once it is closed.
THEOREM TokensKeepPromise == Spec => ImplementsLoginSessions
<1>1. Inv /\ [Next]_vars => [Sessions!Next]_(Sessions!vars)
  BY StepGoes, SessionsStep
<1> QED  BY SessionsInit, <1>1, Invariant, PTL DEF Spec, ImplementsLoginSessions, Sessions!Spec

================================================================================
