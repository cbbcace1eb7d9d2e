------------------------------- MODULE Accounts -------------------------------
(***************************************************************************)
(* The personnel portal's accounts and browser sessions                    *)
(* (internal/portal/auth.go, internal/portal/handler.go).  Staff log in    *)
(* and out and change their passwords while administrators create,         *)
(* disable, enable and re-assign accounts.  A step is one round trip to    *)
(* the database, or one transaction; what a request read in an earlier     *)
(* step may be stale.                                                      *)
(*                                                                         *)
(* A browser has one request under way.  Its cookie names one row of table *)
(* browser_sessions at most, so the rows are named by their browsers; a    *)
(* row whose browser forgot its cookie can never be found again.           *)
(***************************************************************************)
EXTENDS Naturals, FiniteSets

CONSTANTS
  User,         \* accounts, by e-mail address
  Browser,
  NoUser,
  Initial,      \* the role of each account at the start, or NoUser for none
  Offered,      \* the operations clients use
  MaxVersion    \* bound on security_version

PersonnelRole == {"admin", "employee"}

\* Operations behind RequireAuth, and the ones of the /admin group.
AdminOps == {"create", "status", "role"}
Ops == {"logout", "password"} \cup AdminOps

ASSUME AccountsAssumption ==
  /\ NoUser \notin User /\ Initial \in [User -> PersonnelRole \cup {NoUser}]
  /\ NoUser \notin PersonnelRole
  /\ Offered \subseteq Ops /\ MaxVersion \in Nat

VARIABLES
  user,      \* table users
  session,   \* table browser_sessions: the row each browser's cookie names
  req        \* what each browser's request is doing

vars == <<user, session, req>>

\* An account: whether it exists, its role, is_active, security_version; and what
\* the program does not store: how often it was disabled, enabled or had its role
\* or password changed, and whether a change of password has overtaken another
\* change, so that the versions fall behind the changes.
Account ==
  [exists : BOOLEAN, role : PersonnelRole, active : BOOLEAN, version : Nat, changes : Nat,
   overtaken : BOOLEAN]

Absent ==
  [exists |-> FALSE, role |-> "employee", active |-> FALSE, version |-> 0, changes |-> 0,
   overtaken |-> FALSE]

\* Slip: the role is stored unchecked, as the form may leave it.
NewAccountRoleless(role) ==
  [exists |-> TRUE, role |-> NoUser, active |-> TRUE, version |-> 1, changes |-> 0,
   overtaken |-> FALSE]

NewAccount(role) ==
  [exists |-> TRUE, role |-> role, active |-> TRUE, version |-> 1, changes |-> 0,
   overtaken |-> FALSE]

\* A session row: user_id, security_version, and the account's changes when the
\* log-in (or the new password) that it rests on was accepted.
Session == [user : User \cup {NoUser}, version : Nat, changes : Nat]

NoSession == [user |-> NoUser, version |-> 0, changes |-> 0]

(***************************************************************************)
(* A request: its phase, the account it was read for, that account's       *)
(* version and changes as read, the operation, and its target, role and    *)
(* activation.                                                             *)
(***************************************************************************)
Phase == {"idle", "auth", "target", "count", "write", "start"}

Request ==
  [phase : Phase, user : User \cup {NoUser}, version : Nat, changes : Nat,
   op : Ops \cup {"login"}, target : User \cup {NoUser}, role : PersonnelRole,
   active : BOOLEAN]

Idle ==
  [phase |-> "idle", user |-> NoUser, version |-> 0, changes |-> 0, op |-> "login",
   target |-> NoUser, role |-> "employee", active |-> FALSE]

Busy == {b \in Browser : req[b].phase # "idle"}

End(b) == req' = [req EXCEPT ![b] = Idle]

Goto(b, ph) == req' = [req EXCEPT ![b].phase = ph]

-----------------------------------------------------------------------------
\* Login reads the account and compares the password, which takes bcrypt a
\* while, before the session is started from what was read.  A refused log-in
\* (a wrong password is always possible) changes nothing.
Login(b, u) ==
  /\ req[b].phase = "idle"
  /\ \/ /\ user[u].exists /\ user[u].active
        /\ req' = [req EXCEPT ![b] =
             [Idle EXCEPT !.phase = "start", !.user = u, !.version = user[u].version,
                          !.changes = user[u].changes]]
     \/ UNCHANGED req
  /\ UNCHANGED <<user, session>>

\* SessionManager.Start drops the browser's old session and inserts the new.
StartSession(b) ==
  /\ req[b].phase = "start"
  /\ session' = [session EXCEPT ![b] =
       [user |-> req[b].user, version |-> req[b].version, changes |-> req[b].changes]]
  /\ End(b)
  /\ UNCHANGED user

\* The calls of each operation, with the arguments it has.
Calls ==
  [op : {"logout", "password"}, target : {NoUser}, role : {"employee"}, active : {FALSE}]
    \cup [op : {"create", "role"}, target : User, role : PersonnelRole, active : {FALSE}]
    \cup [op : {"status"}, target : User, role : {"employee"}, active : BOOLEAN]

\* RequireAuth reads the session first.
ReadSession(b, call) ==
  /\ req[b].phase = "idle"
  /\ session[b] # NoSession
  /\ call.op \in Offered
  /\ \A u \in User : user[u].version + Cardinality(Busy) < MaxVersion
  /\ req' = [req EXCEPT ![b] =
       [Idle EXCEPT !.phase = "auth", !.user = session[b].user, !.version = session[b].version,
                    !.op = call.op, !.target = call.target, !.role = call.role,
                    !.active = call.active]]
  /\ UNCHANGED <<user, session>>

\* The account a request was authenticated for is still what its session says.
Authentic(b) ==
  LET u == req[b].user IN user[u].active /\ user[u].version = req[b].version

OwnAccount(b) ==
  /\ req[b].target = req[b].user
  /\ \/ req[b].op = "status" /\ ~req[b].active
     \/ req[b].op = "role" /\ req[b].role # "admin"

\* RequireAuth reads the account; then the handler's checks that need no
\* database follow: RequireRole, and no administrator demotes himself.
Authenticate(b) ==
  /\ req[b].phase = "auth"
  /\ LET admin == user[req[b].user].role = "admin" IN
     \/ /\ ~Authentic(b) \/ req[b].op = "logout"
        /\ session' = [session EXCEPT ![b] = NoSession]
        /\ End(b)
     \/ /\ Authentic(b)
        /\ \/ /\ req[b].op \in AdminOps
              /\ ~admin \/ OwnAccount(b)
              /\ End(b)
           \/ /\ req[b].op \in AdminOps
              /\ admin /\ ~OwnAccount(b)
              /\ Goto(b, IF req[b].op = "create" THEN "write" ELSE "target")
           \/ /\ req[b].op = "password"
              /\ req' = [req EXCEPT ![b].phase = "write",
                                    ![b].changes = user[req[b].user].changes]
        /\ UNCHANGED session
  /\ UNCHANGED user

ActiveAdmins == {u \in User : user[u].exists /\ user[u].active /\ user[u].role = "admin"}

\* Disabling or demoting an administrator needs the count of them.
Demotes(b) ==
  /\ user[req[b].target].role = "admin"
  /\ IF req[b].op = "status" THEN ~req[b].active ELSE req[b].role # "admin"

ReadTarget(b) ==
  /\ req[b].phase = "target"
  /\ \/ ~user[req[b].target].exists /\ End(b)
     \/ /\ user[req[b].target].exists
        /\ Goto(b, IF Demotes(b) THEN "count" ELSE "write")
  /\ UNCHANGED <<user, session>>

CountAdmins(b) ==
  /\ req[b].phase = "count"
  /\ IF Cardinality(ActiveAdmins) <= 1 THEN End(b) ELSE Goto(b, "write")
  /\ UNCHANGED <<user, session>>

-----------------------------------------------------------------------------
(***************************************************************************)
(* The writes.                                                             *)
(***************************************************************************)
SessionsWithout(u) ==
  [b \in Browser |-> IF session[b].user = u THEN NoSession ELSE session[b]]

\* CreateUser; the unique index on the e-mail address refuses a second account.
CreateUser(b) ==
  /\ req[b].phase = "write" /\ req[b].op = "create"
  /\ user' = IF user[req[b].target].exists THEN user
             ELSE [user EXCEPT ![req[b].target] = NewAccount(req[b].role)]
  /\ End(b)
  /\ UNCHANGED session

\* Slip: only the activation is written.
ChangeUserStatusVersionKept(b) ==
  /\ req[b].phase = "write" /\ req[b].op = "status"
  /\ LET u == req[b].target IN
     /\ user' = [user EXCEPT ![u].active = req[b].active, ![u].changes = @ + 1]
     /\ session' = IF req[b].active THEN session ELSE SessionsWithout(u)
  /\ End(b)

\* Slip: only the role is written.
ChangeUserRoleVersionKept(b) ==
  /\ req[b].phase = "write" /\ req[b].op = "role"
  /\ LET u == req[b].target IN
     /\ user' = [user EXCEPT ![u].role = req[b].role, ![u].changes = @ + 1]
     /\ session' = SessionsWithout(u)
  /\ End(b)

\* A change of password: the version, the sessions, and the new session's version.
NewPassword(b, version, sessionVersion) ==
  LET u == req[b].user IN
  /\ user' = [user EXCEPT ![u].version = version, ![u].changes = @ + 1,
                          ![u].overtaken = @ \/ user[u].version # req[b].version]
  /\ session' = SessionsWithout(u)
  /\ req' = [req EXCEPT ![b].phase = "start", ![b].version = sessionVersion,
                        ![b].changes = user[u].changes + 1]

\* Slip: the new session is started with the version read.
ChangePasswordOldVersion(b) ==
  /\ req[b].phase = "write" /\ req[b].op = "password"
  /\ NewPassword(b, req[b].version + 1, req[b].version)

\* security_version = security_version + 1, on the row as it is.  A disabled
\* account's sessions are deleted.
ChangeUserStatus(b) ==
  /\ req[b].phase = "write" /\ req[b].op = "status"
  /\ LET u == req[b].target IN
     /\ user' = [user EXCEPT ![u].active = req[b].active, ![u].version = @ + 1,
                             ![u].changes = @ + 1]
     /\ session' = IF req[b].active THEN session ELSE SessionsWithout(u)
  /\ End(b)

ChangeUserRole(b) ==
  /\ req[b].phase = "write" /\ req[b].op = "role"
  /\ LET u == req[b].target IN
     /\ user' = [user EXCEPT ![u].role = req[b].role, ![u].version = @ + 1, ![u].changes = @ + 1]
     /\ session' = SessionsWithout(u)
  /\ End(b)

\* ChangePassword writes the version it read plus one, deletes the account's
\* sessions, and starts a new one in a round trip of its own.
ChangePassword(b) ==
  /\ req[b].phase = "write" /\ req[b].op = "password"
  /\ NewPassword(b, req[b].version + 1, req[b].version + 1)

\* A session's lifetime ends, or the browser drops its cookie.
Expire(b) ==
  /\ session[b] # NoSession
  /\ session' = [session EXCEPT ![b] = NoSession]
  /\ UNCHANGED <<user, req>>

\* A database call fails: the transaction is rolled back.  Start may have
\* dropped the old session already.
Fail(b) ==
  /\ b \in Busy
  /\ End(b)
  /\ \/ UNCHANGED session
     \/ req[b].phase = "start" /\ session' = [session EXCEPT ![b] = NoSession]
  /\ UNCHANGED user

-----------------------------------------------------------------------------
\* BootstrapAdmin and earlier runs of the portal left some accounts.
Init ==
  /\ user = [u \in User |-> IF Initial[u] = NoUser THEN Absent ELSE NewAccount(Initial[u])]
  /\ session = [b \in Browser |-> NoSession]
  /\ req = [b \in Browser |-> Idle]

Next ==
  \E b \in Browser :
    \/ \E u \in User : Login(b, u)
    \/ \E call \in Calls : ReadSession(b, call)
    \/ StartSession(b)
    \/ Authenticate(b)
    \/ ReadTarget(b)
    \/ CountAdmins(b)
    \/ CreateUser(b)
    \/ ChangeUserStatus(b)
    \/ ChangeUserRole(b)
    \/ ChangePassword(b)
    \/ Expire(b)
    \/ Fail(b)

Spec == Init /\ [][Next]_vars

-----------------------------------------------------------------------------
(***************************************************************************)
(* Properties.                                                             *)
(***************************************************************************)

\* Accounts, sessions and requests have their types.
TypeOK ==
  /\ user \in [User -> Account]
  /\ session \in [Browser -> Session]
  /\ req \in [Browser -> Request]

\* RequireAuth would accept the browser's session.
Usable(b) ==
  LET s == session[b] IN
  s # NoSession /\ user[s.user].active /\ user[s.user].version = s.version

\* Disabling an account, changing its role or changing its password ends its
\* sessions, until a change of password overtakes another change.  That includes
\* the session of a log-in whose password was accepted before the change and
\* whose row is inserted after it.
SessionsInvalidated ==
  \A b \in Browser :
    LET a == user[session[b].user] IN
    (Usable(b) /\ ~a.overtaken) => session[b].changes = a.changes

\* A session that RequireAuth refuses works again in one way only: a change of
\* password overtook another change and set the account's version back, below the
\* session's, and an administrator's enabling of the account has raised it to the
\* session's again.  Without such a change of password enabling an account brings
\* none of its sessions back.
OnlyOvertakenComeBack ==
  [][\A b \in Browser :
       (session[b] # NoSession /\ ~Usable(b) /\ session'[b] = session[b] /\ Usable(b)')
       => /\ user[session[b].user].overtaken
          /\ \E c \in Browser : /\ ChangeUserStatus(c)
                               /\ req[c].target = session[b].user /\ req[c].active]_vars

\* A log-in or a change of password ends with a session that works, unless the
\* account was changed since, whatever other browsers do: what ends the old
\* sessions does not end the new one.
NewSessionWorks ==
  [][\A b \in Browser :
       LET a == user[req[b].user] IN
       (/\ req[b].phase = "start" /\ session'[b] # session[b] /\ session'[b] # NoSession
        /\ a.active /\ a.changes = req[b].changes)
       => Usable(b)']_vars

(***************************************************************************)
(* What the repository says and the code does not do.                      *)
(***************************************************************************)

\* README.md:37: disabling an account, changing its role, or changing its
\* password invalidates its sessions, without exception.
EveryChangeEndsSessions ==
  \A b \in Browser : Usable(b) => session[b].changes = user[session[b].user].changes

\* portal/handler.go:592: the final active administrator cannot be disabled.
FinalAdminKept == ActiveAdmins # {}
=============================================================================
