------------------------------ MODULE Accounts ------------------------------
(***************************************************************************)
(* Users, their sessions and the pages that manage them (internal/web      *)
(* users.go, session.go, csrf.go and the login of handlers.go).            *)
(*                                                                         *)
(* A worker is a goroutine serving one request.  Users live in the         *)
(* database, sessions in the memory of the process.  Only the role admin   *)
(* has the capability UserManage.  Ids of users and session tokens are     *)
(* handed out once; passwords are not modelled, a client that logs in      *)
(* knows the one it is checked against.                                    *)
(***************************************************************************)
EXTENDS Naturals, FiniteSets

CONSTANTS
  Users,      \* ids of users, the bound on accounts ever created
  FirstUser,  \* the admin that seed() creates
  Roles,      \* policy.Roles
  Tokens,     \* session tokens, the bound on logins
  Workers,    \* goroutines serving HTTP requests
  Faults,     \* whether single database statements may fail
  Restarts,   \* whether the process may stop and start again
  None,       \* a user not created yet, a token not issued yet, no job
  Gone        \* a deleted user, a session that ended

Rows == [role : Roles, active : BOOLEAN]
Ops == {"login", "create", "role", "toggle", "delete", "password"}
Jobs == [op : Ops, user : Users, role : Roles \cup {None}, view : Rows \cup {None}]

ASSUME AccountsAssumption ==
  /\ FirstUser \in Users
  /\ "admin" \in Roles
  /\ IsFiniteSet(Users) /\ IsFiniteSet(Tokens) /\ IsFiniteSet(Workers)
  /\ {Faults, Restarts} \subseteq BOOLEAN
  /\ None # Gone /\ {None, Gone} \cap Users = {}
  /\ None \notin Roles \cup Rows \cup Jobs /\ Gone \notin Rows
  /\ Workers \cap Tokens = {}

VARIABLES
  users,      \* table users
  session,    \* sessionStore.data: the user a token belongs to
  pc, job,    \* what each worker does next, and for which request
  outdated,   \* history: sessions, and logins under way, from before a change
              \* of their user that is to end them
  overlapped  \* history: whether two requests were ever served at once

handlers == <<pc, job>>
vars == <<users, session, handlers, outdated, overlapped>>

PCs == {"idle", "put", "create", "load", "count", "write", "revoke"}

AccountsTypeOK ==
  /\ users \in [Users -> Rows \cup {None, Gone}]
  /\ session \in [Tokens -> Users \cup {None, Gone}]
  /\ pc \in [Workers -> PCs]
  /\ job \in [Workers -> Jobs \cup {None}]
  /\ \A w \in Workers : job[w] = None <=> pc[w] = "idle"
  /\ outdated \in SUBSET (Workers \cup Tokens)
  /\ overlapped \in BOOLEAN

SeededAdmin == [role |-> "admin", active |-> TRUE]

\* seed() creates one admin in an empty table.
Init ==
  /\ users = [u \in Users |-> IF u = FirstUser THEN SeededAdmin ELSE None]
  /\ session = [t \in Tokens |-> None]
  /\ pc = [w \in Workers |-> "idle"]
  /\ job = [w \in Workers |-> None]
  /\ outdated = {}
  /\ overlapped = FALSE

------------------------------------------------------------------------------
Exists(u) == users[u] \in Rows
Active(u) == Exists(u) /\ users[u].active
ActiveAdmin(u) == Active(u) /\ users[u].role = "admin"
ValidSession(t) == session[t] \in Users

Begin(w, at, j) ==
  /\ pc[w] = "idle"
  /\ pc' = [pc EXCEPT ![w] = at]
  /\ job' = [job EXCEPT ![w] = j]
  /\ overlapped' = (overlapped \/ \E v \in Workers : pc[v] # "idle")

Goto(w, at) == pc' = [pc EXCEPT ![w] = at] /\ UNCHANGED <<job, overlapped>>

Return(w) ==
  /\ pc' = [pc EXCEPT ![w] = "idle"]
  /\ job' = [job EXCEPT ![w] = None]
  /\ UNCHANGED overlapped

MayFail == Faults

------------------------------------------------------------------------------
(* Logging in and out *)

Unissued == {t \in Tokens : session[t] = None}
LoggingIn == {w \in Workers : pc[w] = "put"}

\* doLogin reads the row and compares the password ...
CheckPassword(w, u) ==
  /\ Active(u)
  /\ Cardinality(LoggingIn) < Cardinality(Unissued)
  /\ Begin(w, "put", [op |-> "login", user |-> u, role |-> None, view |-> None])
  /\ UNCHANGED <<users, session, outdated>>

\* ... and then stores the session.
PutSession(w) ==
  /\ pc[w] = "put"
  /\ \E t \in Unissued :
       /\ session' = [session EXCEPT ![t] = job[w].user]
       /\ outdated' = IF w \in outdated THEN (outdated \ {w}) \cup {t} ELSE outdated
  /\ Return(w)
  /\ UNCHANGED users

\* Logout, the reaper, or a Get that finds the session expired.
EndSession(t) ==
  /\ ValidSession(t)
  /\ session' = [session EXCEPT ![t] = Gone]
  /\ outdated' = outdated \ {t}
  /\ UNCHANGED <<users, handlers, overlapped>>

------------------------------------------------------------------------------
(* The user management pages *)

\* requireLogin, requireCSRF and requireCap(UserManage).  No handler disables or
\* deletes its own actor.  A handler reads its actor once more; one that has lost
\* its session by then has no effect, or the same effect, but for the audit row.
Admit(w, t, op, u, r) ==
  /\ ValidSession(t)
  /\ ActiveAdmin(session[t])
  /\ op \in {"create", "role"} <=> r \in Roles
  /\ op \in {"toggle", "delete"} => u # session[t]
  /\ Begin(w, IF op = "create" THEN "create" ELSE "load",
           [op |-> op, user |-> u, role |-> r, view |-> None])
  /\ UNCHANGED <<users, session, outdated>>

\* A name that is taken, by an earlier request or by one in between, is refused.
CreateUser(w) ==
  /\ pc[w] = "create"
  /\ \/ /\ users[job[w].user] = None
        /\ users' = [users EXCEPT ![job[w].user] = [role |-> job[w].role, active |-> TRUE]]
     \/ (MayFail \/ users[job[w].user] # None) /\ UNCHANGED users
  /\ Return(w)
  /\ UNCHANGED <<session, outdated>>

\* The changes that could leave the system without an active admin.
Demotes(j, row) ==
  /\ row.role = "admin"
  /\ CASE j.op = "role"   -> j.role # "admin"
       [] j.op = "toggle" -> row.active
       [] j.op = "delete" -> TRUE
       [] OTHER           -> FALSE

\* Variant: a target that is not found is taken for the zero value of the struct.
LoadIgnoringMissing(w) ==
  /\ pc[w] = "load"
  /\ LET j == job[w]
         row == IF Exists(j.user) THEN users[j.user] ELSE [role |-> "", active |-> FALSE] IN
     /\ pc' = [pc EXCEPT ![w] = IF Demotes(j, row) THEN "count" ELSE "write"]
     /\ job' = [job EXCEPT ![w].view = row]
  /\ UNCHANGED <<users, session, outdated, overlapped>>

\* loadTargetUser and the checks of what it read.
Load(w) ==
  /\ pc[w] = "load"
  /\ LET j == job[w]
         row == users[j.user] IN
     \/ /\ Exists(j.user) /\ ~(j.op = "role" /\ j.role = row.role)
        /\ pc' = [pc EXCEPT ![w] = IF Demotes(j, row) THEN "count" ELSE "write"]
        /\ job' = [job EXCEPT ![w].view = row]
        /\ UNCHANGED overlapped
     \/ ~Exists(j.user) /\ Return(w)
     \/ Exists(j.user) /\ j.op = "role" /\ j.role = row.role /\ Return(w)
  /\ UNCHANGED <<users, session, outdated>>

\* Variant: inactive admins count as well.
OtherAdminsInactiveToo(u) == {v \in Users \ {u} : Exists(v) /\ users[v].role = "admin"}

OtherAdmins(u) == {v \in Users \ {u} : ActiveAdmin(v)}

\* The last admin stays; a query that fails counts none.
Count(w) ==
  /\ pc[w] = "count"
  /\ \/ OtherAdmins(job[w].user) # {} /\ Goto(w, "write")
     \/ (OtherAdmins(job[w].user) = {} \/ MayFail) /\ Return(w)
  /\ UNCHANGED <<users, session, outdated>>

\* Variant: the row as loaded is saved as a whole, which inserts it if it is gone.
UpdatedBySave(j) ==
  CASE j.op = "role"     -> [j.view EXCEPT !.role = j.role]
    [] j.op = "toggle"   -> [j.view EXCEPT !.active = ~@]
    [] j.op = "delete"   -> Gone
    [] j.op = "password" -> j.view

\* One column of the row is updated, in place and only if it is still there.
Updated(j) ==
  LET row == users[j.user] IN
  CASE j.op = "role" /\ row # Gone     -> [row EXCEPT !.role = j.role]
    [] j.op = "toggle" /\ row # Gone   -> [row EXCEPT !.active = ~j.view.active]
    [] j.op = "password" /\ row # Gone -> row
    [] OTHER -> Gone

\* Variant: disabling a user leaves the sessions to currentUser.
EndsSessionsButToggle(j) == j.op \in {"role", "delete", "password"}

\* Changes after which the handler calls DeleteByUser.
EndsSessions(j) ==
  j.op \in {"role", "delete", "password"} \/ (j.op = "toggle" /\ j.view.active)

\* Changes that are to end the sessions of their user, whatever the handler does.
Retires(j) == ~(j.op = "toggle" /\ ~j.view.active)

\* Sessions and logins of a user.
Of(u) == {t \in Tokens : session[t] = u} \cup {v \in LoggingIn : job[v].user = u}

Write(w) ==
  /\ pc[w] = "write"
  /\ LET j == job[w] IN
     \/ /\ users' = [users EXCEPT ![j.user] = Updated(j)]
        /\ \/ EndsSessions(j) /\ Goto(w, "revoke")
           \/ ~EndsSessions(j) /\ Return(w)
        /\ outdated' = IF Retires(j) THEN outdated \cup Of(j.user) ELSE outdated
     \/ MayFail /\ Return(w) /\ UNCHANGED <<users, outdated>>
  /\ UNCHANGED session

\* sessions.DeleteByUser.
Revoke(w) ==
  /\ pc[w] = "revoke"
  /\ session' = [t \in Tokens |-> IF session[t] = job[w].user THEN Gone ELSE session[t]]
  /\ outdated' = {x \in outdated : x \in Workers \/ session[x] # job[w].user}
  /\ Return(w)
  /\ UNCHANGED users

------------------------------------------------------------------------------
\* The table survives, the sessions do not; seed() runs again.
Uncreated == {u \in Users : users[u] = None}

Restart ==
  /\ Restarts
  /\ IF (\A u \in Users : ~Exists(u)) /\ Uncreated # {}
       THEN \E u \in Uncreated : users' = [users EXCEPT ![u] = SeededAdmin]
       ELSE UNCHANGED users
  /\ session' = [t \in Tokens |-> IF session[t] \in Users THEN Gone ELSE session[t]]
  /\ pc' = [w \in Workers |-> "idle"]
  /\ job' = [w \in Workers |-> None]
  /\ outdated' = {}
  /\ UNCHANGED overlapped

Proceed(w) == PutSession(w) \/ CreateUser(w) \/ Load(w) \/ Count(w) \/ Write(w) \/ Revoke(w)

Serve(w) ==
  \/ \E u \in Users : CheckPassword(w, u)
  \/ \E t \in Tokens, op \in Ops \ {"login"}, u \in Users, r \in Roles \cup {None} :
       Admit(w, t, op, u, r)

Next ==
  \/ \E w \in Workers : Proceed(w) \/ Serve(w)
  \/ \E t \in Tokens : EndSession(t)
  \/ Restart

Spec == Init /\ [][Next]_vars

------------------------------------------------------------------------------
(* Properties *)

SomeActiveAdmin == \E u \in Users : ActiveAdmin(u)

\* "The system must keep at least one enabled admin" (users.html), through any
\* sequence of creations, demotions, deletions and failures, as long as each
\* request is served before the next one begins.
AdminRemainsSerially == ~overlapped => SomeActiveAdmin

\* "Changing the password or disabling revokes all sessions of the user at once"
\* (users.html), and so do demotion and deletion: but for the handler that is about
\* to do it, no session is older than such a change - one request at a time.
SessionsAreCurrent ==
  ~overlapped => \A t \in outdated \cap Tokens :
    \E w \in Workers : pc[w] = "revoke" /\ job[w].user = session[t]

\* Handlers that work on rows loaded earlier do not undo each other: however
\* they interleave, a deleted user stays deleted, and only the page that enables
\* users enables one, only the page that promotes makes one an admin.
Wrote(op, u) == \E w \in Workers : pc[w] = "write" /\ job[w].op = op /\ job[w].user = u

StaleRowsAreNotWrittenBack ==
  [][\A u \in Users :
       /\ users[u] = Gone => users'[u] = Gone
       /\ Exists(u) /\ ~Active(u) /\ Active(u)' => Wrote("toggle", u)
       /\ Exists(u) /\ Exists(u)' /\ users[u].role # "admin" /\ users'[u].role = "admin" =>
            Wrote("role", u)]_vars

------------------------------------------------------------------------------
(* A statement of the repository that the code does not keep *)

\* The same when requests overlap: the check of Count and the update of Write
\* are two statements, and no lock spans them.
AdminRemains == SomeActiveAdmin
==============================================================================
