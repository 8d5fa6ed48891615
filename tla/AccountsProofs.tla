--------------------------- MODULE AccountsProofs ---------------------------
(***************************************************************************)
(* Theorems about Accounts for any number of users, sessions and           *)
(* goroutines, with faults and restarts.                                   *)
(***************************************************************************)
EXTENDS Accounts, TLAPS

------------------------------------------------------------------------------
(* The inductive invariant *)

PageOps == {"role", "toggle", "delete", "password"}

\* What a worker has read and checked when it is at a step.
JobInv ==
  \A w \in Workers :
    /\ pc[w] = "create" => job[w].op = "create" /\ job[w].role \in Roles
    /\ pc[w] \in {"load", "count", "write", "revoke"} =>
         job[w].op \in PageOps /\ (job[w].op = "role" => job[w].role \in Roles)
    /\ pc[w] \in {"count", "write"} =>
         job[w].view \in Rows /\ users[job[w].user] \in Rows \cup {Gone}

\* Requests that never overlapped: one worker at most is at work.
SerialInv ==
  ~overlapped => \A v, w \in Workers : pc[v] # "idle" /\ pc[w] # "idle" => v = w

\* Then the row a worker goes by is the row in the table, and a change that takes
\* an admin away leaves another one.
FreshInv ==
  ~overlapped => \A w \in Workers :
    /\ pc[w] \in {"count", "write"} => users[job[w].user] = job[w].view
    /\ pc[w] = "write" /\ Demotes(job[w], job[w].view) => OtherAdmins(job[w].user) # {}

\* Then no login is under way that a change was to stop.
LoginInv == ~overlapped => outdated \cap Workers = {}

AInv ==
  /\ AccountsTypeOK /\ JobInv /\ SerialInv /\ FreshInv /\ LoginInv
  /\ AdminRemainsSerially /\ SessionsAreCurrent

LEMMA AInit == Init => AInv
<1> SUFFICES ASSUME Init PROVE AInv
  OBVIOUS
<1>1. SeededAdmin \in Rows
  BY AccountsAssumption DEF AccountsAssumption, SeededAdmin, Rows
<1>2. AccountsTypeOK
  BY <1>1, AccountsAssumption DEF AccountsAssumption, Init, AccountsTypeOK, PCs
<1>3. AdminRemainsSerially
  BY <1>1, AccountsAssumption
     DEF AccountsAssumption, Init, AdminRemainsSerially, SomeActiveAdmin, ActiveAdmin, Active,
         Exists, SeededAdmin
<1> QED
  BY <1>2, <1>3 DEF Init, AInv, JobInv, SerialInv, FreshInv, LoginInv, SessionsAreCurrent

------------------------------------------------------------------------------
(* Steps that several actions share *)

\* A worker that begins is alone or makes requests overlap.
LEMMA BeginInv ==
  ASSUME AInv, NEW w \in Workers, NEW at \in {"put", "create", "load"}, NEW j \in Jobs,
         Begin(w, at, j), UNCHANGED <<users, session, outdated>>,
         at = "create" => j.op = "create" /\ j.role \in Roles,
         at = "load" => j.op \in PageOps /\ (j.op = "role" => j.role \in Roles)
  PROVE  AInv'
<1>1. /\ pc[w] = "idle" /\ pc' = [pc EXCEPT ![w] = at] /\ job' = [job EXCEPT ![w] = j]
      /\ overlapped' = (overlapped \/ \E v \in Workers : pc[v] # "idle")
  BY DEF Begin
<1>2. AccountsTypeOK'
  BY <1>1, AccountsAssumption DEF AccountsAssumption, AInv, AccountsTypeOK, PCs
<1>3. JobInv' /\ SerialInv'
  BY <1>1 DEF AInv, AccountsTypeOK, JobInv, SerialInv
<1>4. FreshInv'
  BY <1>1 DEF AInv, AccountsTypeOK, FreshInv, OtherAdmins, ActiveAdmin, Active, Exists, Demotes
<1>5. LoginInv' /\ AdminRemainsSerially'
  BY <1>1 DEF AInv, AccountsTypeOK, LoginInv, AdminRemainsSerially, SomeActiveAdmin,
              ActiveAdmin, Active, Exists
<1>6. SessionsAreCurrent'
  BY <1>1 DEF AInv, AccountsTypeOK, SessionsAreCurrent
<1> QED
  BY <1>2, <1>3, <1>4, <1>5, <1>6 DEF AInv

\* A worker may give up at any step that has no session to end.
LEMMA ReturnInv ==
  ASSUME AInv, NEW w \in Workers, Return(w), pc[w] # "revoke",
         UNCHANGED <<users, session, outdated>>
  PROVE  AInv'
<1>1. /\ pc' = [pc EXCEPT ![w] = "idle"] /\ job' = [job EXCEPT ![w] = None]
      /\ overlapped' = overlapped
  BY DEF Return
<1>2. AccountsTypeOK'
  BY <1>1 DEF AInv, AccountsTypeOK, PCs
<1>3. JobInv' /\ SerialInv'
  BY <1>1 DEF AInv, AccountsTypeOK, JobInv, SerialInv
<1>4. FreshInv'
  BY <1>1 DEF AInv, AccountsTypeOK, FreshInv, OtherAdmins, ActiveAdmin, Active, Exists, Demotes
<1>5. LoginInv' /\ AdminRemainsSerially'
  BY <1>1 DEF AInv, AccountsTypeOK, LoginInv, AdminRemainsSerially, SomeActiveAdmin,
              ActiveAdmin, Active, Exists
<1>6. SessionsAreCurrent'
  BY <1>1 DEF AInv, AccountsTypeOK, SessionsAreCurrent
<1> QED
  BY <1>2, <1>3, <1>4, <1>5, <1>6 DEF AInv

------------------------------------------------------------------------------
(* One lemma per action *)

LEMMA ServeInv ==
  ASSUME AInv, NEW w \in Workers, Serve(w)
  PROVE  AInv'
<1>1. ASSUME NEW u \in Users, CheckPassword(w, u) PROVE AInv'
  <2> DEFINE j == [op |-> "login", user |-> u, role |-> None, view |-> None]
  <2>1. j \in Jobs
    BY DEF Jobs, Ops
  <2>2. Begin(w, "put", j) /\ UNCHANGED <<users, session, outdated>>
    BY <1>1 DEF CheckPassword
  <2> QED
    BY <2>1, <2>2, BeginInv
<1>2. ASSUME NEW t \in Tokens, NEW op \in Ops \ {"login"}, NEW u \in Users,
             NEW r \in Roles \cup {None}, Admit(w, t, op, u, r)
      PROVE  AInv'
  <2> DEFINE j == [op |-> op, user |-> u, role |-> r, view |-> None]
             at == IF op = "create" THEN "create" ELSE "load"
  <2>1. j \in Jobs /\ j.op = op /\ j.role = r
    BY DEF Jobs
  <2>2. Begin(w, at, j) /\ UNCHANGED <<users, session, outdated>>
    BY <1>2 DEF Admit
  <2>3. op \in {"create", "role"} <=> r \in Roles
    BY <1>2 DEF Admit
  <2>4. op = "create" \/ op \in PageOps
    BY DEF Ops, PageOps
  <2> HIDE DEF j
  <2>5. CASE op = "create"
    BY <2>1, <2>2, <2>3, <2>5, BeginInv
  <2>6. CASE op \in PageOps
    <3>1. Begin(w, "load", j)
      BY <2>2, <2>6 DEF PageOps
    <3> QED
      BY <2>1, <2>2, <2>3, <2>6, <3>1, BeginInv
  <2> QED
    BY <2>4, <2>5, <2>6
<1> QED
  BY <1>1, <1>2 DEF Serve

\* A session that is stored was not issued before, and not meant to be ended
\* unless its login was.
LEMMA PutSessionInv ==
  ASSUME AInv, NEW w \in Workers, PutSession(w)
  PROVE  AInv'
<1>1. /\ pc[w] = "put" /\ pc' = [pc EXCEPT ![w] = "idle"] /\ job' = [job EXCEPT ![w] = None]
      /\ UNCHANGED <<users, overlapped>>
  BY DEF PutSession, Return
<1>2. PICK t \in Unissued :
        /\ session' = [session EXCEPT ![t] = job[w].user]
        /\ outdated' = IF w \in outdated THEN (outdated \ {w}) \cup {t} ELSE outdated
  BY DEF PutSession
<1>3. t \in Tokens /\ job[w].user \in Users /\ w \notin Tokens
  BY <1>1, <1>2, AccountsAssumption
     DEF AccountsAssumption, Unissued, AInv, AccountsTypeOK, Jobs
<1>4. AccountsTypeOK'
  BY <1>1, <1>2, <1>3 DEF AInv, AccountsTypeOK, PCs
<1>5. JobInv' /\ SerialInv'
  BY <1>1 DEF AInv, AccountsTypeOK, JobInv, SerialInv
<1>6. FreshInv'
  BY <1>1 DEF AInv, AccountsTypeOK, FreshInv, OtherAdmins, ActiveAdmin, Active, Exists, Demotes
<1>7. AdminRemainsSerially'
  BY <1>1 DEF AInv, AdminRemainsSerially, SomeActiveAdmin, ActiveAdmin, Active, Exists
<1>8. ~overlapped => outdated' = {}
  <2> SUFFICES ASSUME ~overlapped PROVE outdated' = {}
    OBVIOUS
  <2>1. outdated \cap Workers = {}
    BY DEF AInv, LoginInv
  <2>2. outdated \cap Tokens = {}
    BY <1>1, <1>3 DEF AInv, SessionsAreCurrent, SerialInv
  <2> QED
    BY <1>2, <2>1, <2>2 DEF AInv, AccountsTypeOK
<1>9. LoginInv' /\ SessionsAreCurrent'
  BY <1>1, <1>8 DEF LoginInv, SessionsAreCurrent
<1> QED
  BY <1>4, <1>5, <1>6, <1>7, <1>9 DEF AInv

LEMMA EndSessionInv ==
  ASSUME AInv, NEW t \in Tokens, EndSession(t)
  PROVE  AInv'
<1>1. /\ session' = [session EXCEPT ![t] = Gone] /\ outdated' = outdated \ {t}
      /\ UNCHANGED <<users, pc, job, overlapped>>
  BY DEF EndSession, handlers
<1>2. AccountsTypeOK' /\ JobInv' /\ SerialInv'
  BY <1>1 DEF AInv, AccountsTypeOK, JobInv, SerialInv
<1>3. FreshInv' /\ LoginInv' /\ AdminRemainsSerially'
  BY <1>1 DEF AInv, FreshInv, LoginInv, AdminRemainsSerially, OtherAdmins, SomeActiveAdmin,
              ActiveAdmin, Active, Exists, Demotes
<1>4. SessionsAreCurrent'
  BY <1>1 DEF AInv, AccountsTypeOK, SessionsAreCurrent
<1> QED
  BY <1>2, <1>3, <1>4 DEF AInv

LEMMA CreateUserInv ==
  ASSUME AInv, NEW w \in Workers, CreateUser(w)
  PROVE  AInv'
<1> DEFINE row == [role |-> job[w].role, active |-> TRUE]
<1>1. CASE users[job[w].user] = None /\ users' = [users EXCEPT ![job[w].user] = row]
  <2>1. /\ pc[w] = "create" /\ pc' = [pc EXCEPT ![w] = "idle"]
        /\ job' = [job EXCEPT ![w] = None] /\ UNCHANGED <<session, outdated, overlapped>>
    BY DEF CreateUser, Return
  <2>2. job[w].user \in Users /\ row \in Rows
    BY <2>1 DEF AInv, AccountsTypeOK, JobInv, Jobs, Rows
  <2> HIDE DEF row
  <2>3. AccountsTypeOK'
    BY <1>1, <2>1, <2>2 DEF AInv, AccountsTypeOK, PCs
  <2>4. JobInv' /\ SerialInv'
    BY <1>1, <2>1, <2>2 DEF AInv, AccountsTypeOK, JobInv, SerialInv
  <2>5. FreshInv'
    BY <1>1, <2>1 DEF AInv, AccountsTypeOK, SerialInv, FreshInv
  <2>6. AdminRemainsSerially'
    BY <1>1, <2>1, <2>2, AccountsAssumption
       DEF AccountsAssumption, AInv, AccountsTypeOK, AdminRemainsSerially, SomeActiveAdmin,
           ActiveAdmin, Active, Exists
  <2>7. LoginInv' /\ SessionsAreCurrent'
    BY <2>1 DEF AInv, AccountsTypeOK, LoginInv, SessionsAreCurrent
  <2> QED
    BY <2>3, <2>4, <2>5, <2>6, <2>7 DEF AInv
<1>2. CASE UNCHANGED users
  BY <1>2, ReturnInv DEF CreateUser
<1> QED
  BY <1>1, <1>2 DEF CreateUser

LEMMA LoadInv ==
  ASSUME AInv, NEW w \in Workers, Load(w)
  PROVE  AInv'
<1> DEFINE j == job[w]
           row == users[j.user]
           at == IF Demotes(j, row) THEN "count" ELSE "write"
<1>1. CASE /\ Exists(j.user)
           /\ pc' = [pc EXCEPT ![w] = at] /\ job' = [job EXCEPT ![w].view = row]
           /\ UNCHANGED overlapped
  <2> DEFINE k == [j EXCEPT !.view = row]
  <2>1. /\ pc[w] = "load" /\ at \in {"count", "write"}
        /\ UNCHANGED <<users, session, outdated>>
    BY DEF Load
  <2>2. job[w] \in Jobs /\ row \in Rows
    BY <1>1, <2>1 DEF AInv, AccountsTypeOK, Exists
  <2>3. /\ k \in Jobs /\ k.view = row /\ k.op = j.op /\ k.user = j.user /\ k.role = j.role
        /\ job' = [job EXCEPT ![w] = k]
    BY <1>1, <2>2 DEF Jobs
  <2>4. at = "write" => ~Demotes(k, row)
    BY <2>3 DEF Demotes
  <2> HIDE DEF at, k
  <2>5. AccountsTypeOK'
    BY <1>1, <2>1, <2>3, AccountsAssumption
       DEF AccountsAssumption, AInv, AccountsTypeOK, PCs
  <2>6. JobInv' /\ SerialInv'
    BY <1>1, <2>1, <2>2, <2>3 DEF AInv, AccountsTypeOK, JobInv, SerialInv
  <2>7. FreshInv'
    BY <1>1, <2>1, <2>3, <2>4
       DEF AInv, AccountsTypeOK, SerialInv, FreshInv
  <2>8. LoginInv' /\ AdminRemainsSerially'
    BY <1>1, <2>1 DEF AInv, LoginInv, AdminRemainsSerially, SomeActiveAdmin, ActiveAdmin,
                      Active, Exists
  <2>9. SessionsAreCurrent'
    BY <1>1, <2>1, <2>3 DEF AInv, AccountsTypeOK, SessionsAreCurrent
  <2> QED
    BY <2>5, <2>6, <2>7, <2>8, <2>9 DEF AInv
<1>2. CASE Return(w)
  BY <1>2, ReturnInv DEF Load
<1> QED
  BY <1>1, <1>2 DEF Load

LEMMA CountInv ==
  ASSUME AInv, NEW w \in Workers, Count(w)
  PROVE  AInv'
<1>1. CASE OtherAdmins(job[w].user) # {} /\ Goto(w, "write")
  <2>1. /\ pc[w] = "count" /\ pc' = [pc EXCEPT ![w] = "write"]
        /\ UNCHANGED <<users, session, job, outdated, overlapped>>
    BY <1>1 DEF Count, Goto
  <2>2. AccountsTypeOK' /\ JobInv' /\ SerialInv'
    BY <2>1 DEF AInv, AccountsTypeOK, PCs, JobInv, SerialInv
  <2>3. OtherAdmins(job[w].user)' = OtherAdmins(job[w].user)
    BY <2>1 DEF OtherAdmins, ActiveAdmin, Active, Exists
  <2>4. FreshInv'
    BY <1>1, <2>1, <2>3 DEF AInv, AccountsTypeOK, SerialInv, FreshInv
  <2>5. LoginInv' /\ AdminRemainsSerially'
    BY <2>1 DEF AInv, LoginInv, AdminRemainsSerially, SomeActiveAdmin, ActiveAdmin,
                Active, Exists
  <2>6. SessionsAreCurrent'
    BY <2>1 DEF AInv, AccountsTypeOK, SessionsAreCurrent
  <2> QED
    BY <2>2, <2>4, <2>5, <2>6 DEF AInv
<1>2. CASE Return(w)
  BY <1>2, ReturnInv DEF Count
<1> QED
  BY <1>1, <1>2 DEF Count

\* One column of a row changes, or the row stays gone.
LEMMA UpdatedRow ==
  ASSUME AInv, NEW w \in Workers, pc[w] = "write"
  PROVE  LET j == job[w]
             row == users[j.user] IN
         /\ j.user \in Users /\ j.op \in PageOps
         /\ row \in Rows \cup {Gone} /\ row # None
         /\ Updated(j) \in Rows \cup {Gone}
         /\ row = Gone => Updated(j) = Gone
         /\ row \in Rows /\ j.op = "role" => Updated(j) = [row EXCEPT !.role = j.role]
         /\ row \in Rows /\ j.op = "toggle" => Updated(j) = [row EXCEPT !.active = ~j.view.active]
         /\ row \in Rows /\ j.op = "password" => Updated(j) = row
         /\ j.op = "delete" => Updated(j) = Gone
<1> DEFINE j == job[w]
           row == users[j.user]
<1>1. /\ j \in Jobs /\ j.user \in Users /\ j.op \in PageOps
      /\ j.op = "role" => j.role \in Roles
      /\ j.view \in Rows /\ row \in Rows \cup {Gone} /\ Gone \notin Rows /\ None \notin Rows
      /\ None # Gone
  BY AccountsAssumption DEF AccountsAssumption, AInv, AccountsTypeOK, JobInv, Jobs
<1> HIDE DEF j, row
<1>2. Updated(j) =
        CASE j.op = "role" /\ row # Gone     -> [row EXCEPT !.role = j.role]
          [] j.op = "toggle" /\ row # Gone   -> [row EXCEPT !.active = ~j.view.active]
          [] j.op = "password" /\ row # Gone -> row
          [] OTHER -> Gone
  BY DEF Updated, row
<1>3. CASE row = Gone
  BY <1>1, <1>2, <1>3 DEF j, row
<1>4. CASE row \in Rows
  <2>1. j.op = "role" => [row EXCEPT !.role = j.role] \in Rows
    BY <1>1, <1>4 DEF Rows
  <2>2. [row EXCEPT !.active = ~j.view.active] \in Rows
    BY <1>1, <1>4 DEF Rows
  <2> QED
    BY <1>1, <1>2, <1>4, <2>1, <2>2 DEF PageOps, j, row
<1> QED
  BY <1>1, <1>3, <1>4

\* A change that takes the last admin away does not get as far as its update.
LEMMA WriteKeepsAdmin ==
  ASSUME AInv, NEW w \in Workers, pc[w] = "write", ~overlapped,
         users' = [users EXCEPT ![job[w].user] = Updated(job[w])]
  PROVE  SomeActiveAdmin'
<1> DEFINE j == job[w]
           row == users[j.user]
<1>1. /\ j.user \in Users /\ j.op \in PageOps /\ row = j.view
      /\ Demotes(j, row) => OtherAdmins(j.user) # {}
  BY UpdatedRow DEF AInv, FreshInv
<1>2. users \in [Users -> Rows \cup {None, Gone}]
  BY DEF AInv, AccountsTypeOK
<1>3. ASSUME NEW v \in Users, v # j.user, ActiveAdmin(v) PROVE SomeActiveAdmin'
  BY <1>2, <1>3 DEF SomeActiveAdmin, ActiveAdmin, Active, Exists
<1>4. PICK u \in Users : ActiveAdmin(u)
  BY DEF AInv, AdminRemainsSerially, SomeActiveAdmin
<1>5. CASE u = j.user /\ Demotes(j, row)
  BY <1>1, <1>3, <1>5 DEF OtherAdmins
<1>6. CASE u = j.user /\ ~Demotes(j, row)
  <2>1. row \in Rows /\ row.role = "admin" /\ row.active
    BY <1>4, <1>6 DEF ActiveAdmin, Active, Exists
  <2>2. j.op \in {"role", "password"} /\ (j.op = "role" => j.role = "admin")
    BY <1>1, <1>6, <2>1 DEF Demotes, PageOps
  <2>3. Updated(j) = row
    <3>1. CASE j.op = "role"
      <4>1. Updated(j) = [row EXCEPT !.role = j.role]
        BY <2>1, <3>1, UpdatedRow
      <4> QED
        BY <2>1, <2>2, <3>1, <4>1 DEF Rows
    <3>2. CASE j.op = "password"
      BY <2>1, <3>2, UpdatedRow
    <3> QED
      BY <2>2, <3>1, <3>2
  <2>4. users' = users
    BY <1>2, <2>3
  <2> QED
    BY <1>4, <2>4 DEF SomeActiveAdmin, ActiveAdmin, Active, Exists
<1> QED
  BY <1>3, <1>4, <1>5, <1>6

LEMMA WriteInv ==
  ASSUME AInv, NEW w \in Workers, Write(w)
  PROVE  AInv'
<1> DEFINE j == job[w]
<1>1. CASE /\ users' = [users EXCEPT ![j.user] = Updated(j)]
           /\ \/ EndsSessions(j) /\ Goto(w, "revoke")
              \/ ~EndsSessions(j) /\ Return(w)
           /\ outdated' = IF Retires(j) THEN outdated \cup Of(j.user) ELSE outdated
  <2>1. /\ pc[w] = "write" /\ UNCHANGED <<session, overlapped>>
        /\ \/ /\ EndsSessions(j)
              /\ pc' = [pc EXCEPT ![w] = "revoke"] /\ job' = job
           \/ /\ ~EndsSessions(j)
              /\ pc' = [pc EXCEPT ![w] = "idle"] /\ job' = [job EXCEPT ![w] = None]
    BY <1>1 DEF Write, Goto, Return
  <2>2. /\ j.user \in Users /\ j.op \in PageOps
        /\ Updated(j) \in Rows \cup {Gone}
    BY <2>1, UpdatedRow
  <2>3. Of(j.user) \subseteq Workers \cup Tokens
    BY DEF Of, LoggingIn
  <2>4. AccountsTypeOK'
    BY <1>1, <2>1, <2>2, <2>3 DEF AInv, AccountsTypeOK, PCs
  <2>5. JobInv' /\ SerialInv'
    BY <1>1, <2>1, <2>2 DEF AInv, AccountsTypeOK, JobInv, SerialInv
  <2>6. FreshInv'
    BY <2>1 DEF AInv, AccountsTypeOK, SerialInv, FreshInv
  <2>7. AdminRemainsSerially'
    BY <1>1, <2>1, WriteKeepsAdmin DEF AdminRemainsSerially
  <2>8. ASSUME ~overlapped
        PROVE  /\ outdated = {}
               /\ Of(j.user) \cap Workers = {}
               /\ Retires(j) <=> EndsSessions(j)
    <3>1. \A v \in Workers : v # w => pc[v] = "idle"
      BY <2>1, <2>8 DEF AInv, SerialInv
    <3>2. outdated = {}
      BY <2>1, <2>8, <3>1 DEF AInv, AccountsTypeOK, LoginInv, SessionsAreCurrent
    <3>3. Of(j.user) \cap Workers = {}
      BY <2>1, <3>1, AccountsAssumption DEF AccountsAssumption, Of, LoggingIn
    <3>4. Retires(j) <=> EndsSessions(j)
      BY <2>2 DEF Retires, EndsSessions, PageOps
    <3> QED
      BY <3>2, <3>3, <3>4
  <2>9. LoginInv'
    BY <1>1, <2>1, <2>8 DEF LoginInv
  <2>10. SessionsAreCurrent'
    <3> SUFFICES ASSUME ~overlapped, NEW t \in outdated' \cap Tokens
                 PROVE  \E v \in Workers : pc'[v] = "revoke" /\ job'[v].user = session'[t]
      BY <2>1 DEF SessionsAreCurrent
    <3>1. EndsSessions(j) /\ t \in Of(j.user)
      BY <1>1, <2>8
    <3>2. session[t] = j.user
      BY <3>1, AccountsAssumption DEF AccountsAssumption, Of, LoggingIn
    <3> QED
      BY <2>1, <3>1, <3>2 DEF AInv, AccountsTypeOK
  <2> QED
    BY <2>4, <2>5, <2>6, <2>7, <2>9, <2>10 DEF AInv
<1>2. CASE Return(w) /\ UNCHANGED <<users, outdated>>
  BY <1>2, ReturnInv DEF Write
<1> QED
  BY <1>1, <1>2 DEF Write

LEMMA RevokeInv ==
  ASSUME AInv, NEW w \in Workers, Revoke(w)
  PROVE  AInv'
<1>1. /\ pc[w] = "revoke" /\ pc' = [pc EXCEPT ![w] = "idle"] /\ job' = [job EXCEPT ![w] = None]
      /\ session' = [t \in Tokens |-> IF session[t] = job[w].user THEN Gone ELSE session[t]]
      /\ outdated' = {x \in outdated : x \in Workers \/ session[x] # job[w].user}
      /\ UNCHANGED <<users, overlapped>>
  BY DEF Revoke, Return
<1>2. AccountsTypeOK'
  BY <1>1 DEF AInv, AccountsTypeOK, PCs
<1>3. JobInv' /\ SerialInv'
  BY <1>1 DEF AInv, AccountsTypeOK, JobInv, SerialInv
<1>4. FreshInv'
  BY <1>1 DEF AInv, AccountsTypeOK, SerialInv, FreshInv
<1>5. LoginInv' /\ AdminRemainsSerially'
  BY <1>1 DEF AInv, LoginInv, AdminRemainsSerially, SomeActiveAdmin, ActiveAdmin, Active, Exists
<1>6. SessionsAreCurrent'
  <2> SUFFICES ASSUME ~overlapped, NEW t \in outdated' \cap Tokens
               PROVE  FALSE
    BY <1>1 DEF SessionsAreCurrent
  <2>1. PICK v \in Workers : pc[v] = "revoke" /\ job[v].user = session[t]
    BY <1>1 DEF AInv, SessionsAreCurrent
  <2>2. v = w
    BY <1>1, <2>1 DEF AInv, SerialInv
  <2> QED
    BY <1>1, <2>1, <2>2, AccountsAssumption DEF AccountsAssumption
<1> QED
  BY <1>2, <1>3, <1>4, <1>5, <1>6 DEF AInv

\* The table is as it was, or has a new admin and nobody else.
LEMMA RestartInv ==
  ASSUME AInv, Restart
  PROVE  AInv'
<1>1. /\ session' = [t \in Tokens |-> IF session[t] \in Users THEN Gone ELSE session[t]]
      /\ pc' = [w \in Workers |-> "idle"] /\ job' = [w \in Workers |-> None]
      /\ outdated' = {} /\ overlapped' = overlapped
  BY DEF Restart
<1>2. \/ \E u \in Users : users' = [users EXCEPT ![u] = SeededAdmin]
      \/ users' = users
  BY DEF Restart, Uncreated
<1>3. SeededAdmin \in Rows /\ SeededAdmin.role = "admin" /\ SeededAdmin.active
  BY AccountsAssumption DEF AccountsAssumption, SeededAdmin, Rows
<1>4. AccountsTypeOK'
  BY <1>1, <1>2, <1>3 DEF AInv, AccountsTypeOK, PCs
<1>5. AdminRemainsSerially'
  BY <1>1, <1>2, <1>3
     DEF AInv, AccountsTypeOK, AdminRemainsSerially, SomeActiveAdmin, ActiveAdmin, Active, Exists
<1> QED
  BY <1>1, <1>4, <1>5
     DEF AInv, JobInv, SerialInv, FreshInv, LoginInv, SessionsAreCurrent

LEMMA AStutter ==
  ASSUME AInv, UNCHANGED vars
  PROVE  AInv'
<1>1. UNCHANGED <<users, session, pc, job, outdated, overlapped>>
  BY DEF vars, handlers
<1> QED
  BY <1>1 DEF AInv, AccountsTypeOK, JobInv, SerialInv, FreshInv, LoginInv, SessionsAreCurrent,
              AdminRemainsSerially, SomeActiveAdmin, OtherAdmins, ActiveAdmin, Active, Exists,
              Demotes

LEMMA ANext == AInv /\ [Next]_vars => AInv'
<1> SUFFICES ASSUME AInv, [Next]_vars PROVE AInv'
  OBVIOUS
<1>1. ASSUME NEW w \in Workers, Proceed(w) PROVE AInv'
  BY <1>1, PutSessionInv, CreateUserInv, LoadInv, CountInv, WriteInv, RevokeInv DEF Proceed
<1>2. ASSUME NEW w \in Workers, Serve(w) PROVE AInv'
  BY <1>2, ServeInv
<1>3. ASSUME NEW t \in Tokens, EndSession(t) PROVE AInv'
  BY <1>3, EndSessionInv
<1>4. CASE Restart
  BY <1>4, RestartInv
<1>5. CASE UNCHANGED vars
  BY <1>5, AStutter
<1> QED
  BY <1>1, <1>2, <1>3, <1>4, <1>5 DEF Next

LEMMA AInvariant == Spec => []AInv
<1> QED
  BY AInit, ANext, PTL DEF Spec

------------------------------------------------------------------------------
(* Theorems *)

\* Every variable keeps its type, whatever two requests do to one user.
THEOREM AccountsTypeCorrect == Spec => []AccountsTypeOK
<1>1. AInv => AccountsTypeOK
  BY DEF AInv
<1> QED
  BY <1>1, AInvariant, PTL

\* Served one at a time, no sequence of requests removes the last active admin.
THEOREM AdminRemainsCorrect == Spec => []AdminRemainsSerially
<1>1. AInv => AdminRemainsSerially
  BY DEF AInv
<1> QED
  BY <1>1, AInvariant, PTL

\* Served one at a time, no request leaves a session older than a change of its user.
THEOREM SessionsCorrect == Spec => []SessionsAreCurrent
<1>1. AInv => SessionsAreCurrent
  BY DEF AInv
<1> QED
  BY <1>1, AInvariant, PTL

\* An update changes what it is about, also when it was decided on an older row.
LEMMA WriteIsNarrow ==
  ASSUME AInv, NEW w \in Workers, Write(w), NEW u \in Users
  PROVE  /\ users[u] = Gone => users'[u] = Gone
         /\ Exists(u) /\ ~Active(u) /\ Active(u)' => Wrote("toggle", u)
         /\ Exists(u) /\ Exists(u)' /\ users[u].role # "admin" /\ users'[u].role = "admin" =>
              Wrote("role", u)
<1> DEFINE j == job[w]
<1>1. pc[w] = "write"
  BY DEF Write
<1>2. CASE users'[u] = users[u]
  BY <1>2 DEF Exists, Active
<1>3. CASE users'[u] # users[u]
  <2>1. u = j.user /\ users'[u] = Updated(j)
    BY <1>3 DEF Write, AInv, AccountsTypeOK
  <2>2. users[u] = Gone => users'[u] = Gone
    BY <1>1, <2>1, UpdatedRow
  <2>3. ASSUME Exists(u), Exists(u)', j.op # "toggle" PROVE users'[u].active = users[u].active
    <3>1. Updated(j) # Gone /\ users[u] \in Rows
      BY <2>1, <2>3, AccountsAssumption DEF AccountsAssumption, Exists
    <3>2. CASE j.op = "role"
      BY <1>1, <2>1, <3>1, <3>2, UpdatedRow DEF Rows
    <3>3. CASE j.op = "password"
      BY <1>1, <2>1, <3>1, <3>3, UpdatedRow
    <3> QED
      BY <1>1, <2>3, <3>1, <3>2, <3>3, UpdatedRow DEF PageOps
  <2>4. ASSUME Exists(u), Exists(u)', j.op # "role" PROVE users'[u].role = users[u].role
    <3>1. Updated(j) # Gone /\ users[u] \in Rows
      BY <2>1, <2>4, AccountsAssumption DEF AccountsAssumption, Exists
    <3>2. CASE j.op = "toggle"
      BY <1>1, <2>1, <3>1, <3>2, UpdatedRow DEF Rows
    <3>3. CASE j.op = "password"
      BY <1>1, <2>1, <3>1, <3>3, UpdatedRow
    <3> QED
      BY <1>1, <2>4, <3>1, <3>2, <3>3, UpdatedRow DEF PageOps
  <2> QED
    BY <1>1, <2>1, <2>2, <2>3, <2>4 DEF Active, Wrote
<1> QED
  BY <1>2, <1>3

\* However requests interleave, deleted users stay deleted, and only the pages for
\* it enable a user or make one an admin.
THEOREM StaleRowsCorrect == Spec => StaleRowsAreNotWrittenBack
<1> DEFINE Narrow ==
      \A u \in Users :
        /\ users[u] = Gone => users'[u] = Gone
        /\ Exists(u) /\ ~Active(u) /\ Active(u)' => Wrote("toggle", u)
        /\ Exists(u) /\ Exists(u)' /\ users[u].role # "admin" /\ users'[u].role = "admin" =>
             Wrote("role", u)
<1>1. ASSUME AInv, Next PROVE Narrow
  <2>1. ASSUME NEW w \in Workers, Write(w) PROVE Narrow
    BY <1>1, <2>1, WriteIsNarrow
  <2>2. ASSUME NEW u \in Users, NEW row, users[u] = None, users' = [users EXCEPT ![u] = row]
        PROVE  Narrow
    BY <1>1, <2>2, AccountsAssumption
       DEF AccountsAssumption, AInv, AccountsTypeOK, Exists, Active
  <2>3. CASE UNCHANGED users
    BY <2>3 DEF Exists, Active
  <2>4. ASSUME NEW w \in Workers, CreateUser(w) PROVE Narrow
    <3>1. job[w].user \in Users
      BY <1>1, <2>4 DEF CreateUser, AInv, AccountsTypeOK, Jobs
    <3> QED
      BY <2>2, <2>3, <2>4, <3>1 DEF CreateUser
  <2>5. CASE Restart
    BY <2>2, <2>3, <2>5 DEF Restart, Uncreated
  <2>6. ASSUME NEW w \in Workers, Proceed(w), ~Write(w), ~CreateUser(w) PROVE UNCHANGED users
    BY <2>6 DEF Proceed, PutSession, Load, Count, Revoke
  <2>7. ASSUME NEW w \in Workers, Serve(w) PROVE UNCHANGED users
    BY <2>7 DEF Serve, CheckPassword, Admit
  <2>8. ASSUME NEW t, EndSession(t) PROVE UNCHANGED users
    BY <2>8 DEF EndSession
  <2> HIDE DEF Narrow
  <2> QED
    BY <1>1, <2>1, <2>3, <2>4, <2>5, <2>6, <2>7, <2>8 DEF Next
<1>2. AInv /\ [Next]_vars => [Narrow]_vars
  BY <1>1
<1> QED
  BY <1>2, AInvariant, PTL DEF Spec, StaleRowsAreNotWrittenBack
=============================================================================
