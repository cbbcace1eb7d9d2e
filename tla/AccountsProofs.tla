---------------------------- MODULE AccountsProofs ----------------------------
(***************************************************************************)
(* Proofs about Accounts, for every set of accounts, browsers and          *)
(* operations: as long as no change of password has overtaken another      *)
(* change of an account, security_version counts its changes, and what     *)
(* was accepted at an earlier count is refused; and a log-in or a change   *)
(* of password that nothing overtook ends with a session that works.       *)
(***************************************************************************)
EXTENDS Accounts, TLAPS

\* A version never runs ahead of the changes; it keeps up unless overtaken.
AccountOK(a) ==
  /\ a.version <= a.changes + 1
  /\ (a.exists /\ ~a.overtaken) => a.version = a.changes + 1
  /\ ~a.exists => a.changes = 0

\* A version that was read together with these changes, of this account.
Seen(u, version, changes) ==
  /\ u \in User /\ user[u].exists
  /\ version <= changes + 1 /\ changes <= user[u].changes

\* What a request in progress holds.
RequestOK(b) ==
  LET r == req[b] IN
  /\ r.phase = "auth" => /\ r.user \in User /\ user[r.user].exists
                         /\ r.op \in AdminOps => r.target \in User
  /\ r.phase = "start" => Seen(r.user, r.version, r.changes)
  /\ r.phase = "target" => r.target \in User /\ r.op \in {"status", "role"}
  /\ r.phase = "count" => r.target \in User /\ r.op \in {"status", "role"} /\ user[r.target].exists
  /\ r.phase = "write" =>
       \/ r.op = "create" /\ r.target \in User
       \/ r.op \in {"status", "role"} /\ r.target \in User /\ user[r.target].exists
       \/ r.op = "password" /\ Seen(r.user, r.version, r.changes)

SessionOK(b) ==
  session[b] # NoSession => Seen(session[b].user, session[b].version, session[b].changes)

IInv ==
  /\ TypeOK
  /\ \A u \in User : AccountOK(user[u])
  /\ \A b \in Browser : RequestOK(b) /\ SessionOK(b)

\* What any step may do to an account: nothing, create it, or change and count it.
Onward(a, next) ==
  \/ next = a
  \/ ~a.exists /\ next.exists /\ next.changes = a.changes
  \/ a.exists /\ next.exists /\ next.changes = a.changes + 1

UsersMove ==
  /\ user' \in [User -> Account]
  /\ \A u \in User : AccountOK(user'[u]) /\ Onward(user[u], user'[u])

-----------------------------------------------------------------------------
LEMMA AccountTypes ==
  /\ Absent \in Account /\ AccountOK(Absent)
  /\ \A role \in PersonnelRole :
       NewAccount(role) \in Account /\ AccountOK(NewAccount(role))
  BY DEF Absent, NewAccount, Account, PersonnelRole, AccountOK

LEMMA InitOK == Init => IInv
<1> SUFFICES ASSUME Init PROVE IInv
  OBVIOUS
<1>1. user \in [User -> Account] /\ \A u \in User : AccountOK(user[u])
  BY AccountTypes, AccountsAssumption DEF Init
<1>2. session \in [Browser -> Session]
  BY DEF Init, NoSession, Session
<1>3. req \in [Browser -> Request]
  BY DEF Init, Idle, Request, Phase, PersonnelRole
<1> QED
  BY <1>1, <1>2, <1>3 DEF Init, IInv, TypeOK, RequestOK, SessionOK, Idle

\* What was seen of an account stays seen.
LEMMA SeenKept ==
  ASSUME IInv, UsersMove, NEW u, NEW version \in Nat, NEW changes \in Nat,
         Seen(u, version, changes)
  PROVE  Seen(u, version, changes)'
<1>1. u \in User /\ user[u] \in Account /\ user'[u] \in Account
  BY DEF Seen, UsersMove, IInv, TypeOK
<1>2. user'[u].exists /\ user[u].changes <= user'[u].changes
  BY <1>1 DEF Seen, UsersMove, Onward, Account
<1> QED
  BY <1>1, <1>2 DEF Seen, Account

\* What the sessions and the requests that do not move hold still holds.
LEMMA HeldKept ==
  ASSUME IInv, UsersMove, NEW b \in Browser
  PROVE  /\ session'[b] = session[b] \/ session'[b] = NoSession => SessionOK(b)'
         /\ req'[b] = req[b] => RequestOK(b)'
<1>1. ASSUME session'[b] = session[b] PROVE SessionOK(b)'
  BY <1>1, SeenKept DEF IInv, TypeOK, SessionOK, Session
<1>2. ASSUME session'[b] = NoSession PROVE SessionOK(b)'
  BY <1>2 DEF SessionOK
<1>3. ASSUME req'[b] = req[b] PROVE RequestOK(b)'
  <2>1. RequestOK(b) /\ req[b] \in Request
    BY DEF IInv, TypeOK
  <2>2. \A u \in User : user[u].exists => user'[u].exists
    BY DEF UsersMove, Onward
  <2>3. ASSUME NEW r \in Request
        PROVE  Seen(r.user, r.version, r.changes) => Seen(r.user, r.version, r.changes)'
    BY SeenKept DEF Request
  <2>4. PICK r \in Request : r = req[b] /\ r = req'[b]
    BY <1>3, <2>1
  <2> QED
    BY <2>1, <2>2, <2>3, <2>4 DEF RequestOK
<1> QED
  BY <1>1, <1>2, <1>3

\* A step in which one request moves, and sessions at most end, unless it is this
\* browser's.
LEMMA MoveOK ==
  ASSUME IInv, UsersMove, NEW b \in Browser, NEW r \in Request,
         req' = [req EXCEPT ![b] = r], RequestOK(b)',
         session' \in [Browser -> Session], SessionOK(b)',
         \A d \in Browser : d # b => session'[d] = session[d] \/ session'[d] = NoSession
  PROVE  IInv'
<1>1. req' \in [Browser -> Request] /\ \A d \in Browser : d # b => req'[d] = req[d]
  BY DEF IInv, TypeOK
<1>2. \A d \in Browser : RequestOK(d)' /\ SessionOK(d)'
  BY <1>1, HeldKept
<1> QED
  BY <1>1, <1>2 DEF IInv, TypeOK, UsersMove

LEMMA UsersStay ==
  ASSUME IInv, UNCHANGED user
  PROVE  UsersMove
  BY DEF IInv, TypeOK, UsersMove, Onward

LEMMA IdleRequest ==
  /\ Idle \in Request
  /\ \A b \in Browser : req'[b] = Idle => RequestOK(b)'
  BY DEF Idle, Request, Phase, PersonnelRole, RequestOK

\* The request ends; sessions end at most.
LEMMA EndOK ==
  ASSUME IInv, UsersMove, NEW b \in Browser, End(b),
         session' \in [Browser -> Session],
         \A d \in Browser : session'[d] = session[d] \/ session'[d] = NoSession
  PROVE  IInv'
<1>1. req' = [req EXCEPT ![b] = Idle] /\ req'[b] = Idle
  BY DEF End, IInv, TypeOK
<1>2. RequestOK(b)' /\ SessionOK(b)'
  BY <1>1, IdleRequest, HeldKept
<1> QED
  BY <1>1, <1>2, IdleRequest, MoveOK

LEMMA SessionEnds ==
  ASSUME IInv
  PROVE  /\ NoSession \in Session
         /\ session \in [Browser -> Session]
         /\ \A b \in Browser : [session EXCEPT ![b] = NoSession] \in [Browser -> Session]
         /\ \A u : /\ SessionsWithout(u) \in [Browser -> Session]
                   /\ \A d \in Browser : SessionsWithout(u)[d] \in {session[d], NoSession}
  BY DEF NoSession, Session, IInv, TypeOK, SessionsWithout

\* The request goes to another phase with what it holds.
LEMMA GotoOK ==
  ASSUME IInv, NEW b \in Browser, NEW ph \in {"target", "count", "write"}, Goto(b, ph),
         UNCHANGED <<user, session>>,
         req[b].target \in User, req[b].op \in AdminOps,
         (ph = "write" /\ req[b].op # "create") \/ ph = "count" =>
           user[req[b].target].exists /\ req[b].op # "create",
         ph = "target" => req[b].op # "create"
  PROVE  IInv'
<1> DEFINE r == [req[b] EXCEPT !.phase = ph]
<1>1. r \in Request /\ r.phase = ph /\ r.op = req[b].op /\ r.target = req[b].target
  BY DEF IInv, TypeOK, Request, Phase
<1>2. req' = [req EXCEPT ![b] = r]
  BY DEF Goto
<1> HIDE DEF r
<1>3. req'[b] = r
  BY <1>2 DEF IInv, TypeOK
<1>4. RequestOK(b)'
  BY <1>1, <1>3 DEF RequestOK, AdminOps
<1>5. UsersMove /\ SessionOK(b)'
  BY UsersStay, HeldKept
<1> QED
  BY <1>1, <1>2, <1>4, <1>5, MoveOK DEF IInv, TypeOK

-----------------------------------------------------------------------------
LEMMA LoginOK ==
  ASSUME IInv, NEW b \in Browser, NEW u \in User, Login(b, u)
  PROVE  UsersMove /\ IInv'
<1> DEFINE r == [Idle EXCEPT !.phase = "start", !.user = u, !.version = user[u].version,
                             !.changes = user[u].changes]
<1>1. UsersMove /\ \A d \in Browser : SessionOK(d)'
  BY UsersStay, HeldKept DEF Login
<1>2. CASE UNCHANGED req
  BY <1>1, <1>2, HeldKept DEF Login, IInv, TypeOK
<1>3. CASE user[u].exists /\ req' = [req EXCEPT ![b] = r]
  <2>1. user[u].version \in Nat /\ user[u].changes \in Nat /\ user[u].version <= user[u].changes + 1
    BY DEF IInv, TypeOK, Account, AccountOK
  <2>2. /\ r \in Request /\ r.phase = "start" /\ r.user = u /\ r.version = user[u].version
        /\ r.changes = user[u].changes
    BY <2>1, IdleRequest DEF Request, Phase, Idle
  <2> HIDE DEF r
  <2>3. req'[b] = r
    BY <1>3 DEF IInv, TypeOK
  <2>4. RequestOK(b)'
    BY <1>3, <2>1, <2>2, <2>3 DEF RequestOK, Seen, Login
  <2> QED
    BY <1>1, <1>3, <2>2, <2>4, MoveOK DEF Login, IInv, TypeOK
<1> QED
  BY <1>2, <1>3 DEF Login

LEMMA StartSessionOK ==
  ASSUME IInv, NEW b \in Browser, StartSession(b)
  PROVE  UsersMove /\ IInv'
<1> DEFINE s == [user |-> req[b].user, version |-> req[b].version, changes |-> req[b].changes]
<1>1. s \in Session /\ Seen(s.user, s.version, s.changes)
  BY DEF IInv, TypeOK, Request, Session, RequestOK, StartSession
<1>2. /\ session' = [session EXCEPT ![b] = s] /\ End(b) /\ UNCHANGED user
  BY DEF StartSession
<1> HIDE DEF s
<1>3. /\ session' \in [Browser -> Session] /\ session'[b] = s
      /\ \A d \in Browser : d # b => session'[d] = session[d]
  BY <1>1, <1>2 DEF IInv, TypeOK
<1>4. req' = [req EXCEPT ![b] = Idle] /\ req'[b] = Idle /\ RequestOK(b)'
  BY <1>2, IdleRequest DEF End, IInv, TypeOK
<1>5. SessionOK(b)'
  BY <1>1, <1>2, <1>3 DEF SessionOK, Seen
<1>6. UsersMove
  BY <1>2, UsersStay
<1> QED
  BY <1>3, <1>4, <1>5, <1>6, IdleRequest, MoveOK

\* The calls and the slots they make are typed.
LEMMA CallTypes ==
  ASSUME NEW call \in Calls
  PROVE  /\ call.op \in Ops /\ call.target \in User \cup {NoUser}
         /\ call.role \in PersonnelRole /\ call.active \in BOOLEAN
         /\ call.op \in AdminOps => call.target \in User
  BY DEF Calls, Ops, AdminOps, PersonnelRole

LEMMA ReadSessionOK ==
  ASSUME IInv, NEW b \in Browser, NEW call \in Calls, ReadSession(b, call)
  PROVE  UsersMove /\ IInv'
<1> DEFINE r == [Idle EXCEPT !.phase = "auth", !.user = session[b].user,
                             !.version = session[b].version, !.op = call.op,
                             !.target = call.target, !.role = call.role,
                             !.active = call.active]
<1>1. /\ session[b].user \in User /\ user[session[b].user].exists
      /\ session[b].version \in Nat
  BY DEF ReadSession, IInv, TypeOK, SessionOK, Seen, Session
<1>2. /\ r \in Request /\ r.phase = "auth" /\ r.user = session[b].user
      /\ r.op = call.op /\ r.target = call.target
  BY <1>1, IdleRequest, CallTypes DEF Request, Phase, Idle
<1>3. req' = [req EXCEPT ![b] = r] /\ UNCHANGED <<user, session>>
  BY DEF ReadSession
<1> HIDE DEF r
<1>4. req'[b] = r
  BY <1>3 DEF IInv, TypeOK
<1>5. RequestOK(b)'
  BY <1>1, <1>2, <1>3, <1>4, CallTypes DEF RequestOK
<1>6. UsersMove /\ SessionOK(b)'
  BY <1>3, UsersStay, HeldKept
<1> QED
  BY <1>2, <1>3, <1>5, <1>6, MoveOK DEF IInv, TypeOK

LEMMA AuthenticateOK ==
  ASSUME IInv, NEW b \in Browser, Authenticate(b)
  PROVE  UsersMove /\ IInv'
<1> DEFINE u == req[b].user
<1>0. /\ u \in User /\ user[u].exists /\ UNCHANGED user /\ UsersMove
      /\ req[b].op \in AdminOps => req[b].target \in User
  BY UsersStay DEF Authenticate, IInv, RequestOK
<1>1. CASE session' = [session EXCEPT ![b] = NoSession] /\ End(b)
  <2>1. session' \in [Browser -> Session]
    BY <1>1, SessionEnds
  <2>2. \A d \in Browser : session'[d] = session[d] \/ session'[d] = NoSession
    BY <1>1 DEF IInv, TypeOK
  <2> QED
    BY <1>0, <1>1, <2>1, <2>2, EndOK
<1>2. CASE UNCHANGED session /\ End(b)
  BY <1>0, <1>2, EndOK, SessionEnds
<1>3. CASE /\ UNCHANGED session /\ req[b].op \in AdminOps
           /\ Goto(b, IF req[b].op = "create" THEN "write" ELSE "target")
  BY <1>0, <1>3, GotoOK
<1>4. CASE /\ UNCHANGED session /\ req[b].op = "password" /\ Authentic(b)
           /\ req' = [req EXCEPT ![b].phase = "write", ![b].changes = user[u].changes]
  <2> DEFINE r == [req[b] EXCEPT !.phase = "write", !.changes = user[u].changes]
  <2>1. user[u].version = req[b].version /\ user[u].changes \in Nat
        /\ user[u].version <= user[u].changes + 1
    BY <1>0, <1>4 DEF Authentic, IInv, TypeOK, Account, AccountOK
  <2>2. /\ r \in Request /\ r.phase = "write" /\ r.op = "password" /\ r.user = u
        /\ r.version = user[u].version /\ r.changes = user[u].changes
    BY <1>4, <2>1 DEF IInv, TypeOK, Request, Phase
  <2>3. req' = [req EXCEPT ![b] = r]
    BY <1>4
  <2> HIDE DEF r
  <2>4. req'[b] = r
    BY <2>3 DEF IInv, TypeOK
  <2>5. RequestOK(b)'
    BY <1>0, <2>1, <2>2, <2>4 DEF RequestOK, Seen
  <2>6. SessionOK(b)'
    BY <1>0, <1>4, HeldKept
  <2> QED
    BY <1>0, <1>4, <2>2, <2>3, <2>5, <2>6, MoveOK DEF IInv, TypeOK
<1> QED
  BY <1>0, <1>1, <1>2, <1>3, <1>4 DEF Authenticate

LEMMA ReadTargetOK ==
  ASSUME IInv, NEW b \in Browser, ReadTarget(b) \/ CountAdmins(b)
  PROVE  UsersMove /\ IInv'
<1>0. UsersMove
  BY UsersStay DEF ReadTarget, CountAdmins
<1>1. CASE End(b)
  BY <1>0, <1>1, EndOK, SessionEnds DEF ReadTarget, CountAdmins
<1>2. ASSUME ~End(b) PROVE IInv'
  <2>1. /\ UNCHANGED <<user, session>> /\ req[b].target \in User
        /\ req[b].op \in {"status", "role"} /\ user[req[b].target].exists
        /\ Goto(b, "write") \/ Goto(b, "count")
    BY <1>2 DEF ReadTarget, CountAdmins, IInv, RequestOK
  <2> QED
    BY <2>1, GotoOK DEF AdminOps
<1> QED
  BY <1>0, <1>1, <1>2

-----------------------------------------------------------------------------
LEMMA CreateUserOK ==
  ASSUME IInv, NEW b \in Browser, CreateUser(b)
  PROVE  UsersMove /\ IInv'
<1> DEFINE t == req[b].target
<1>1. t \in User /\ req[b].role \in PersonnelRole /\ End(b) /\ UNCHANGED session
  BY DEF CreateUser, IInv, TypeOK, Request, RequestOK
<1>2. UsersMove
  <2>1. CASE user[t].exists
    BY <2>1, UsersStay DEF CreateUser
  <2>2. CASE ~user[t].exists
    <3>1. user' = [user EXCEPT ![t] = NewAccount(req[b].role)]
      BY <2>2 DEF CreateUser
    <3>2. /\ NewAccount(req[b].role) \in Account /\ AccountOK(NewAccount(req[b].role))
          /\ Onward(user[t], NewAccount(req[b].role))
      BY <1>1, <2>2, AccountTypes DEF Onward, NewAccount, IInv, AccountOK
    <3> QED
      BY <1>1, <3>1, <3>2 DEF UsersMove, IInv, TypeOK, Onward
  <2> QED
    BY <2>1, <2>2
<1> QED
  BY <1>1, <1>2, EndOK, SessionEnds

\* A change of an account that counts, on the row as it is or overtaking others.
LEMMA Changed ==
  ASSUME IInv, NEW t \in User, user[t].exists, NEW next \in Account,
         next.exists, next.changes = user[t].changes + 1,
         next.version <= user[t].changes + 2,
         ~next.overtaken => next.version = user[t].version + 1 /\ ~user[t].overtaken,
         user' = [user EXCEPT ![t] = next]
  PROVE  UsersMove
<1>1. user[t] \in Account /\ user[t].changes \in Nat
  BY DEF IInv, TypeOK, Account
<1>2. AccountOK(next) /\ Onward(user[t], next)
  BY <1>1 DEF AccountOK, Onward, IInv, Account
<1> QED
  BY <1>2 DEF UsersMove, IInv, TypeOK, Onward

LEMMA ChangeUserStatusOK ==
  ASSUME IInv, NEW b \in Browser, ChangeUserStatus(b)
  PROVE  UsersMove /\ IInv'
<1> DEFINE t == req[b].target
           next == [user[t] EXCEPT !.active = req[b].active, !.version = @ + 1, !.changes = @ + 1]
<1>1. /\ t \in User /\ user[t].exists /\ user[t] \in Account /\ AccountOK(user[t])
      /\ req[b].active \in BOOLEAN
  BY DEF ChangeUserStatus, IInv, TypeOK, Request, RequestOK
<1>2. user[t].version + 1 \in Nat /\ user[t].changes + 1 \in Nat
  BY <1>1 DEF Account
<1>3. /\ next \in Account /\ next.exists /\ next.version = user[t].version + 1
      /\ next.changes = user[t].changes + 1 /\ next.overtaken = user[t].overtaken
  BY <1>1, <1>2 DEF Account
<1>4. user' = [user EXCEPT ![t] = next]
  BY DEF ChangeUserStatus
<1> HIDE DEF next
<1>5. next.version <= user[t].changes + 2
  BY <1>1, <1>3 DEF AccountOK, Account
<1>6. UsersMove
  BY <1>1, <1>3, <1>4, <1>5, Changed
<1>7. session' \in [Browser -> Session] /\ \A d \in Browser : session'[d] = session[d] \/ session'[d] = NoSession
  BY SessionEnds DEF ChangeUserStatus
<1> QED
  BY <1>6, <1>7, EndOK DEF ChangeUserStatus

LEMMA ChangeUserRoleOK ==
  ASSUME IInv, NEW b \in Browser, ChangeUserRole(b)
  PROVE  UsersMove /\ IInv'
<1> DEFINE t == req[b].target
           next == [user[t] EXCEPT !.role = req[b].role, !.version = @ + 1, !.changes = @ + 1]
<1>1. /\ t \in User /\ user[t].exists /\ user[t] \in Account /\ AccountOK(user[t])
      /\ req[b].role \in PersonnelRole
  BY DEF ChangeUserRole, IInv, TypeOK, Request, RequestOK
<1>2. user[t].version + 1 \in Nat /\ user[t].changes + 1 \in Nat
  BY <1>1 DEF Account
<1>3. /\ next \in Account /\ next.exists /\ next.version = user[t].version + 1
      /\ next.changes = user[t].changes + 1 /\ next.overtaken = user[t].overtaken
  BY <1>1, <1>2 DEF Account
<1>4. user' = [user EXCEPT ![t] = next]
  BY DEF ChangeUserRole
<1> HIDE DEF next
<1>5. next.version <= user[t].changes + 2
  BY <1>1, <1>3 DEF AccountOK, Account
<1>6. UsersMove
  BY <1>1, <1>3, <1>4, <1>5, Changed
<1>7. session' \in [Browser -> Session] /\ \A d \in Browser : session'[d] = session[d] \/ session'[d] = NoSession
  BY SessionEnds DEF ChangeUserRole
<1> QED
  BY <1>6, <1>7, EndOK DEF ChangeUserRole

\* A change of password writes the version it read plus one: at most one more
\* than the changes it knew of, and so no more than those there are by now.
LEMMA ChangePasswordOK ==
  ASSUME IInv, NEW b \in Browser, ChangePassword(b)
  PROVE  UsersMove /\ IInv'
<1> DEFINE u == req[b].user
           version == req[b].version + 1
           next == [user[u] EXCEPT !.version = version, !.changes = @ + 1,
                                   !.overtaken = @ \/ user[u].version # req[b].version]
           r == [req[b] EXCEPT !.phase = "start", !.version = version,
                               !.changes = user[u].changes + 1]
<1>1. /\ Seen(u, req[b].version, req[b].changes) /\ req[b] \in Request
      /\ u \in User /\ user[u].exists /\ user[u] \in Account /\ AccountOK(user[u])
  BY DEF ChangePassword, IInv, TypeOK, RequestOK, Seen
<1>2. /\ version \in Nat /\ user[u].changes \in Nat /\ user[u].changes + 1 \in Nat
      /\ version <= user[u].changes + 2
  BY <1>1 DEF Seen, Request, Account
<1>3. /\ next \in Account /\ next.exists /\ next.version = version
      /\ next.changes = user[u].changes + 1
      /\ ~next.overtaken => version = user[u].version + 1 /\ ~user[u].overtaken
  BY <1>1, <1>2 DEF Account
<1>4. /\ r \in Request /\ r.phase = "start" /\ r.user = u /\ r.version = version
      /\ r.changes = user[u].changes + 1
  BY <1>1, <1>2 DEF Request, Phase
<1>5. /\ user' = [user EXCEPT ![u] = next] /\ req' = [req EXCEPT ![b] = r]
      /\ session' = SessionsWithout(u)
  BY DEF ChangePassword, NewPassword
<1> HIDE DEF next, r, version
<1>6. UsersMove
  BY <1>1, <1>2, <1>3, <1>5, Changed
<1>7. req'[b] = r /\ user'[u] = next
  BY <1>1, <1>5 DEF IInv, TypeOK
<1>8. RequestOK(b)'
  BY <1>1, <1>2, <1>3, <1>4, <1>7 DEF RequestOK, Seen
<1>9. /\ session' \in [Browser -> Session]
      /\ \A d \in Browser : session'[d] = session[d] \/ session'[d] = NoSession
  BY <1>5, SessionEnds
<1>10. SessionOK(b)'
  BY <1>6, <1>9, HeldKept
<1> QED
  BY <1>4, <1>5, <1>6, <1>8, <1>9, <1>10, MoveOK

LEMMA LapseOK ==
  ASSUME IInv, NEW b \in Browser, Expire(b) \/ Fail(b)
  PROVE  UsersMove /\ IInv'
<1>1. /\ UsersMove /\ session' \in [Browser -> Session]
      /\ \A d \in Browser : session'[d] = session[d] \/ session'[d] = NoSession
  BY UsersStay, SessionEnds DEF Expire, Fail, IInv, TypeOK
<1>2. CASE Fail(b)
  BY <1>1, <1>2, EndOK DEF Fail
<1>3. CASE Expire(b)
  BY <1>1, <1>3, HeldKept DEF Expire, IInv, TypeOK, UsersMove
<1> QED
  BY <1>1, <1>2, <1>3

LEMMA InvStep ==
  ASSUME IInv, [Next]_vars
  PROVE  UsersMove /\ IInv'
<1>1. CASE UNCHANGED vars
  BY <1>1, UsersStay, HeldKept DEF vars, IInv, TypeOK
<1>2. ASSUME NEW b \in Browser,
             \/ \E u \in User : Login(b, u)
             \/ \E call \in Calls : ReadSession(b, call)
             \/ StartSession(b) \/ Authenticate(b) \/ ReadTarget(b) \/ CountAdmins(b)
             \/ CreateUser(b) \/ ChangeUserStatus(b) \/ ChangeUserRole(b)
             \/ ChangePassword(b) \/ Expire(b) \/ Fail(b)
      PROVE  UsersMove /\ IInv'
  BY <1>2, LoginOK, ReadSessionOK, StartSessionOK, AuthenticateOK, ReadTargetOK, CreateUserOK,
     ChangeUserStatusOK, ChangeUserRoleOK, ChangePasswordOK, LapseOK
<1> QED
  BY <1>1, <1>2 DEF Next

LEMMA Inductive == Spec => []IInv
<1>1. IInv /\ [Next]_vars => IInv'
  BY InvStep
<1> QED
  BY <1>1, InitOK, PTL DEF Spec

\* Accounts, sessions and requests have their types.
THEOREM AccountsTyped == Spec => []TypeOK
<1>1. IInv => TypeOK
  BY DEF IInv
<1> QED
  BY <1>1, Inductive, PTL

\* Disabling an account, changing its role or its password ends all its sessions,
\* those whose log-in is under way included, until a change of password overtakes
\* another change.
THEOREM SessionsCorrect == Spec => []SessionsInvalidated
<1>1. ASSUME IInv PROVE SessionsInvalidated
  <2> SUFFICES ASSUME NEW b \in Browser, Usable(b), ~user[session[b].user].overtaken
               PROVE  session[b].changes = user[session[b].user].changes
    BY DEF SessionsInvalidated
  <2> DEFINE a == user[session[b].user]
  <2>1. /\ Seen(session[b].user, session[b].version, session[b].changes)
        /\ a.version = session[b].version
    BY <1>1 DEF Usable, IInv, SessionOK
  <2>2. /\ a.version = a.changes + 1 /\ a.changes \in Nat
        /\ session[b].changes \in Nat /\ session[b].version \in Nat
    BY <1>1, <2>1 DEF IInv, TypeOK, AccountOK, Seen, Account, Session
  <2> QED
    BY <2>1, <2>2 DEF Seen
<1> QED
  BY <1>1, Inductive, PTL

\* Whether RequireAuth accepts a session that stays depends on its account alone,
\* and of the steps that change an account only its enabling leaves its sessions.
LEMMA OnlyEnabledComesBack ==
  ASSUME IInv, [Next]_vars, NEW b \in Browser,
         session[b] # NoSession, ~Usable(b), session'[b] = session[b], Usable(b)'
  PROVE  \E c \in Browser : /\ ChangeUserStatus(c)
                            /\ req[c].target = session[b].user /\ req[c].active
<1> DEFINE u == session[b].user
<1>1. u \in User /\ user[u].exists
  BY DEF IInv, SessionOK, Seen
<1>2. user'[u] # user[u]
  BY DEF Usable
<1>3. session' # SessionsWithout(u)
  BY DEF SessionsWithout
<1>4. ASSUME NEW c \in Browser,
             \/ \E x \in User : Login(c, x)
             \/ \E call \in Calls : ReadSession(c, call)
             \/ StartSession(c) \/ Authenticate(c) \/ ReadTarget(c) \/ CountAdmins(c)
             \/ Expire(c) \/ Fail(c)
      PROVE  FALSE
  BY <1>2, <1>4 DEF Login, ReadSession, StartSession, Authenticate, ReadTarget, CountAdmins,
                    Expire, Fail
<1>5. ASSUME NEW c \in Browser, CreateUser(c) PROVE FALSE
  BY <1>1, <1>2, <1>5 DEF CreateUser, IInv, TypeOK
<1>6. ASSUME NEW c \in Browser, ChangeUserRole(c) \/ ChangePassword(c) PROVE FALSE
  BY <1>1, <1>2, <1>3, <1>6 DEF ChangeUserRole, ChangePassword, NewPassword, IInv, TypeOK
<1>7. ASSUME NEW c \in Browser, ChangeUserStatus(c) PROVE req[c].target = u /\ req[c].active
  BY <1>1, <1>2, <1>3, <1>7 DEF ChangeUserStatus, IInv, TypeOK
<1>8. ~UNCHANGED vars
  BY <1>2 DEF vars
<1> QED
  BY <1>4, <1>5, <1>6, <1>7, <1>8 DEF Next

\* ... and a session that RequireAuth refuses works again only by the enabling of
\* an account that a change of password has overtaken before.
THEOREM ComebacksExplained == Spec => OnlyOvertakenComeBack
<1> DEFINE Explained == \A b \in Browser :
      (session[b] # NoSession /\ ~Usable(b) /\ session'[b] = session[b] /\ Usable(b)')
      => /\ user[session[b].user].overtaken
         /\ \E c \in Browser : /\ ChangeUserStatus(c)
                              /\ req[c].target = session[b].user /\ req[c].active
<1>1. ASSUME IInv, [Next]_vars PROVE Explained
  <2> SUFFICES ASSUME NEW b \in Browser, session[b] # NoSession, ~Usable(b),
                      session'[b] = session[b], Usable(b)'
               PROVE  /\ user[session[b].user].overtaken
                      /\ \E c \in Browser : /\ ChangeUserStatus(c)
                                           /\ req[c].target = session[b].user /\ req[c].active
    OBVIOUS
  <2> DEFINE u == session[b].user
  <2>1. PICK c \in Browser : ChangeUserStatus(c) /\ req[c].target = u /\ req[c].active
    BY <1>1, OnlyEnabledComesBack
  <2>2. Seen(u, session[b].version, session[b].changes)
    BY <1>1 DEF IInv, SessionOK
  <2>3. u \in User /\ user[u].exists /\ user[u] \in Account /\ session[b] \in Session
    BY <1>1, <2>2 DEF Seen, IInv, TypeOK
  <2>4. /\ user'[u].overtaken = user[u].overtaken /\ user'[u].changes = user[u].changes + 1
        /\ user'[u].version = session[b].version
    BY <1>1, <2>1, <2>3 DEF ChangeUserStatus, Usable, IInv, TypeOK, Account
  <2>5. ~user'[u].overtaken => user'[u].version = user'[u].changes + 1
    BY <1>1, <2>3, InvStep DEF UsersMove, Onward, IInv, AccountOK
  <2>6. session[b].changes <= user[u].changes /\ session[b].version <= session[b].changes + 1
    BY <2>2 DEF Seen
  <2>7. user[u].overtaken
    BY <2>3, <2>4, <2>5, <2>6 DEF Account, Session
  <2> QED
    BY <2>1, <2>7
<1>2. IInv /\ [Next]_vars => [Explained]_vars
  BY <1>1
<1> QED
  BY <1>2, Inductive, PTL DEF Spec, OnlyOvertakenComeBack

-----------------------------------------------------------------------------
(***************************************************************************)
(* The session that a log-in or a change of password is about to start:    *)
(* its version is the account's, for as long as the account has not been   *)
(* changed since.                                                          *)
(***************************************************************************)
StartOK(b) ==
  req[b].phase = "start" =>
    LET a == user[req[b].user] IN a.changes = req[b].changes => a.version = req[b].version

\* Only a log-in or a change of password makes a request start a session, from
\* the account as it then is; only that request stores one.
LEMMA StartsFrom ==
  ASSUME IInv, [Next]_vars, NEW b \in Browser
  PROVE  /\ req'[b].phase = "start" =>
              \/ req'[b] = req[b]
              \/ /\ user'[req'[b].user].changes = req'[b].changes
                 /\ user'[req'[b].user].version = req'[b].version
         /\ session'[b] \in {session[b], NoSession} \/ StartSession(b)
<1>0. \A d \in Browser : req[d] \in Request /\ session[d] \in Session
  BY DEF IInv, TypeOK
<1>1. ASSUME NEW d \in Browser, End(d)
      PROVE  req'[b].phase = "start" => req'[b] = req[b]
  BY <1>1 DEF End, Idle, IInv, TypeOK
<1>2. ASSUME NEW d \in Browser, NEW ph \in {"target", "count", "write"}, Goto(d, ph)
      PROVE  req'[b].phase = "start" => req'[b] = req[b]
  <2>1. CASE d = b
    <3>1. req'[b].phase = ph
      BY <1>0, <1>2, <2>1 DEF Goto, IInv, TypeOK, Request
    <3> QED
      BY <3>1
  <2>2. CASE d # b
    BY <1>2, <2>2 DEF Goto, IInv, TypeOK
  <2> QED
    BY <2>1, <2>2
<1>3. ASSUME NEW d \in Browser, NEW r, req' = [req EXCEPT ![d] = r]
      PROVE  (req'[b] = r /\ d = b) \/ req'[b] = req[b]
  BY <1>3 DEF IInv, TypeOK
<1>4. ASSUME NEW d \in Browser, NEW u \in User, Login(d, u)
      PROVE  /\ req'[b].phase = "start" =>
                  \/ req'[b] = req[b]
                  \/ /\ user'[req'[b].user].changes = req'[b].changes
                     /\ user'[req'[b].user].version = req'[b].version
             /\ session' = session
  <2> DEFINE r == [Idle EXCEPT !.phase = "start", !.user = u, !.version = user[u].version,
                               !.changes = user[u].changes]
  <2>1. r.user = u /\ r.version = user[u].version /\ r.changes = user[u].changes
    BY DEF Idle
  <2>2. UNCHANGED <<user, session>> /\ (req' = req \/ req' = [req EXCEPT ![d] = r])
    BY <1>4 DEF Login
  <2> HIDE DEF r
  <2> QED
    BY <1>3, <2>1, <2>2
<1>5. ASSUME NEW d \in Browser, NEW call \in Calls, ReadSession(d, call)
      PROVE  (req'[b].phase = "start" => req'[b] = req[b]) /\ session' = session
  <2> DEFINE r == [Idle EXCEPT !.phase = "auth", !.user = session[d].user,
                               !.version = session[d].version, !.op = call.op,
                               !.target = call.target, !.role = call.role,
                               !.active = call.active]
  <2>1. r.phase = "auth"
    BY DEF Idle
  <2>2. session' = session /\ req' = [req EXCEPT ![d] = r]
    BY <1>5 DEF ReadSession
  <2> HIDE DEF r
  <2> QED
    BY <1>3, <2>1, <2>2
<1>6. ASSUME NEW d \in Browser, Authenticate(d)
      PROVE  /\ req'[b].phase = "start" => req'[b] = req[b]
             /\ session'[b] \in {session[b], NoSession}
  <2>1. session'[b] \in {session[b], NoSession}
    BY <1>6 DEF Authenticate, IInv, TypeOK
  <2>2. CASE req' = [req EXCEPT ![d].phase = "write", ![d].changes = user[req[d].user].changes]
    <3>1. d = b => req'[b].phase = "write"
      BY <1>0, <2>2 DEF IInv, TypeOK, Request
    <3>2. d # b => req'[b] = req[b]
      BY <2>2 DEF IInv, TypeOK
    <3> QED
      BY <2>1, <3>1, <3>2
  <2>3. \/ End(d) \/ Goto(d, "write") \/ Goto(d, "target")
        \/ req' = [req EXCEPT ![d].phase = "write", ![d].changes = user[req[d].user].changes]
    BY <1>6 DEF Authenticate
  <2> QED
    BY <1>1, <1>2, <2>1, <2>2, <2>3
<1>7. ASSUME NEW d \in Browser, NewPassword(d, req[d].version + 1, req[d].version + 1),
             req[d].phase = "write", req[d].op = "password"
      PROVE  /\ req'[b].phase = "start" =>
                  \/ req'[b] = req[b]
                  \/ /\ user'[req'[b].user].changes = req'[b].changes
                     /\ user'[req'[b].user].version = req'[b].version
             /\ session'[b] \in {session[b], NoSession}
  <2> DEFINE u == req[d].user
             r == [req[d] EXCEPT !.phase = "start", !.version = req[d].version + 1,
                                 !.changes = user[u].changes + 1]
  <2>1. u \in User /\ user[u] \in Account
    BY <1>7 DEF IInv, TypeOK, RequestOK, Seen
  <2>2. r.user = u /\ r.version = req[d].version + 1 /\ r.changes = user[u].changes + 1
    BY <1>0 DEF Request
  <2>3. user'[u].version = req[d].version + 1 /\ user'[u].changes = user[u].changes + 1
    BY <1>7, <2>1 DEF NewPassword, IInv, TypeOK, Account
  <2>4. req' = [req EXCEPT ![d] = r] /\ session' = SessionsWithout(u)
    BY <1>7 DEF NewPassword
  <2>5. session'[b] \in {session[b], NoSession}
    BY <2>4, SessionEnds
  <2> HIDE DEF r
  <2> QED
    BY <1>3, <2>2, <2>3, <2>4, <2>5
<1>8. ASSUME NEW d \in Browser,
             \/ ReadTarget(d) \/ CountAdmins(d) \/ CreateUser(d) \/ ChangeUserStatus(d)
             \/ ChangeUserRole(d) \/ Fail(d)
      PROVE  /\ req'[b].phase = "start" => req'[b] = req[b]
             /\ session'[b] \in {session[b], NoSession}
  <2>1. End(d) \/ Goto(d, "count") \/ Goto(d, "write")
    BY <1>8 DEF ReadTarget, CountAdmins, CreateUser, ChangeUserStatus, ChangeUserRole, Fail
  <2>2. session'[b] \in {session[b], NoSession}
    BY <1>8, SessionEnds
    DEF ReadTarget, CountAdmins, CreateUser, ChangeUserStatus, ChangeUserRole, Fail, IInv, TypeOK
  <2> QED
    BY <1>1, <1>2, <2>1, <2>2
<1>9. ASSUME NEW d \in Browser, StartSession(d)
      PROVE  /\ req'[b].phase = "start" => req'[b] = req[b]
             /\ session'[b] = session[b] \/ d = b
  BY <1>1, <1>9 DEF StartSession, IInv, TypeOK
<1>10. ASSUME NEW d \in Browser, Expire(d)
       PROVE  req' = req /\ session'[b] \in {session[b], NoSession}
  BY <1>10 DEF Expire, IInv, TypeOK
<1> QED
  BY <1>4, <1>5, <1>6, <1>7, <1>8, <1>9, <1>10 DEF Next, vars, ChangePassword

LEMMA StartStep ==
  ASSUME IInv, \A b \in Browser : StartOK(b), [Next]_vars
  PROVE  \A b \in Browser : StartOK(b)'
<1> SUFFICES ASSUME NEW b \in Browser, req'[b].phase = "start"
             PROVE  StartOK(b)'
  BY DEF StartOK
<1>1. CASE /\ user'[req'[b].user].changes = req'[b].changes
           /\ user'[req'[b].user].version = req'[b].version
  BY <1>1 DEF StartOK
<1>2. CASE req'[b] = req[b]
  <2> DEFINE u == req[b].user
  <2>1. Seen(u, req[b].version, req[b].changes) /\ req[b] \in Request /\ u \in User
    BY <1>2 DEF IInv, TypeOK, RequestOK, Seen
  <2>2. user[u].exists /\ req[b].changes <= user[u].changes
        /\ user[u].changes \in Nat /\ req[b].changes \in Nat
    BY <2>1 DEF Seen, IInv, TypeOK, Account, Request
  <2>3. user'[u] = user[u] \/ user'[u].changes = user[u].changes + 1
    BY <2>1, <2>2, InvStep DEF UsersMove, Onward
  <2>4. user'[u].changes = req[b].changes => user'[u] = user[u]
    BY <2>2, <2>3
  <2> QED
    BY <1>2, <2>4 DEF StartOK
<1> QED
  BY <1>1, <1>2, StartsFrom

\* A log-in or a change of password ends with a session that works, unless the
\* account was changed in between.
THEOREM StartsCorrect == Spec => NewSessionWorks
<1> DEFINE StartInv == \A b \in Browser : StartOK(b)
           Works == \A b \in Browser :
             LET a == user[req[b].user] IN
             (/\ req[b].phase = "start" /\ session'[b] # session[b] /\ session'[b] # NoSession
              /\ a.active /\ a.changes = req[b].changes)
             => Usable(b)'
<1>1. Init => StartInv
  BY DEF Init, StartOK, Idle
<1>2. IInv /\ StartInv /\ [Next]_vars => StartInv'
  BY StartStep
<1>3. ASSUME IInv, StartInv, [Next]_vars PROVE Works
  <2> SUFFICES ASSUME NEW b \in Browser, req[b].phase = "start",
                      session'[b] # session[b], session'[b] # NoSession,
                      user[req[b].user].active, user[req[b].user].changes = req[b].changes
               PROVE  Usable(b)'
    OBVIOUS
  <2>1. StartSession(b)
    BY <1>3, StartsFrom
  <2>2. user' = user /\ session'[b].user = req[b].user /\ session'[b].version = req[b].version
    BY <1>3, <2>1 DEF StartSession, IInv, TypeOK
  <2>3. user[req[b].user].version = req[b].version
    BY <1>3 DEF StartOK
  <2> QED
    BY <2>2, <2>3 DEF Usable
<1>4. IInv /\ StartInv /\ [Next]_vars => [Works]_vars
  BY <1>3
<1> HIDE DEF StartInv, Works
<1>5. Spec => []StartInv
  BY <1>1, <1>2, Inductive, PTL DEF Spec
<1>6. Spec => [][Works]_vars
  BY <1>4, <1>5, Inductive, PTL DEF Spec
<1> USE DEF Works
<1> QED
  BY <1>6 DEF NewSessionWorks
=============================================================================
