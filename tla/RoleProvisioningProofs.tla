----------------------- MODULE RoleProvisioningProofs -----------------------
(***************************************************************************)
(* Proofs about Grant and Revoke: for any users, roles and number of tasks *)
(* an answer about a clean user stays true, and a task changes nothing     *)
(* but what it was asked to change.                                        *)
(***************************************************************************)
EXTENDS RoleProvisioning, TLAPS

\* Grant and Revoke write back a well-formed user.
LEMMA ChangedType ==
    ASSUME NEW q \in Request, NEW a \in Account
    PROVE  Changed(q, a) \in Account
  BY UserAssumption DEF Changed, Request, Account

\* Its two fields, for the provers.
LEMMA ChangedFields ==
    ASSUME NEW q, NEW a
    PROVE  /\ Changed(q, a).roles = IF q.op = "grant" THEN a.roles \cup {q.role}
                                                      ELSE a.roles \ {q.role}
           /\ Changed(q, a).logins = a.logins \cup {q.user}
  BY DEF Changed

\* Before any task, nothing was answered and nothing is being changed.
LEMMA InitEstablishesProvisioning == Init => ProvisioningInvariant
  <1> SUFFICES ASSUME Init PROVE ProvisioningInvariant
    OBVIOUS
  <1>1. \E r \in Request : TRUE
    <2>1. PICK u \in User, r \in Role : TRUE
      BY UserAssumption
    <2>2. [op |-> "grant", user |-> u, role |-> r] \in Request
      BY <2>1 DEF Request
    <2> QED BY <2>2
  <1>2. TypeOK
    BY <1>1 DEF Init, TypeOK, Account
  <1>3. CopiesAreCurrent
    BY DEF Init, CopiesAreCurrent
  <1>4. CleanAnswersHold /\ LateWritesAreOpen
    BY DEF Init, CleanAnswersHold, AnswersHold, LateWritesAreOpen
  <1> QED BY <1>2, <1>3, <1>4 DEF ProvisioningInvariant

\* A read takes a fresh copy.
LEMMA ReadUserPreserves ==
    ASSUME ProvisioningInvariant, NEW t \in Task, NEW q \in Request, ReadUser(t, q)
    PROVE  ProvisioningInvariant'
  <1> USE DEF ProvisioningInvariant
  <1>1. q.user \in User
    BY DEF Request
  <1>2. TypeOK'
    BY <1>1 DEF ReadUser, TypeOK
  <1>3. CopiesAreCurrent'
    <2> SUFFICES ASSUME NEW s \in reading', (request[s].user \in clean)'
                 PROVE  (copy[s] = account[request[s].user])'
      BY DEF CopiesAreCurrent
    <2>1. CASE s = t
      BY <2>1 DEF ReadUser, TypeOK
    <2>2. CASE s # t
      BY <2>2 DEF ReadUser, TypeOK, CopiesAreCurrent
    <2> QED BY <2>1, <2>2
  <1>4. CleanAnswersHold'
    BY DEF ReadUser, CleanAnswersHold, AnswersHold
  <1>5. LateWritesAreOpen'
    BY DEF ReadUser, TypeOK, LateWritesAreOpen
  <1> QED BY <1>2, <1>3, <1>4, <1>5

\* A write whose user stays clean wrote back what was there, changed as asked.
LEMMA WriteUserFacts ==
    ASSUME ProvisioningInvariant, NEW t \in Task, WriteUser(t)
    PROVE  /\ request[t] \in Request
           /\ request[t].user \in User /\ request[t].role \in Role
           /\ account' \in [User -> Account]
           /\ account'[request[t].user] = Changed(request[t], copy[t])
           /\ \A u \in User \ {request[t].user} : account'[u] = account[u]
           /\ request[t].user \in clean => copy[t] = account[request[t].user]
           /\ reading' \subseteq Task /\ clean' \subseteq clean
           /\ unanswered' \subseteq reading'
           /\ \A s \in reading' : s \in Task /\ request[s].user \in User
           /\ \A s \in reading' : request[s].user = request[t].user => request[s].user \notin clean'
           /\ CopiesAreCurrent'
  <1> USE DEF ProvisioningInvariant
  <1> DEFINE q == request[t]
  <1>1. q \in Request /\ q.user \in User /\ q.role \in Role /\ copy[t] \in Account
    BY DEF TypeOK, Request
  <1>2. Changed(q, copy[t]) \in Account
    BY <1>1, ChangedType
  <1>3. account' \in [User -> Account]
    BY <1>1, <1>2 DEF WriteUser, TypeOK
  <1>4. account'[q.user] = Changed(q, copy[t])
    BY <1>1 DEF WriteUser, TypeOK
  <1>5. \A u \in User \ {q.user} : account'[u] = account[u]
    BY <1>1 DEF WriteUser, TypeOK
  <1>6. q.user \in clean => copy[t] = account[q.user]
    BY DEF WriteUser, CopiesAreCurrent
  <1>7. reading' \subseteq Task /\ clean' \subseteq clean /\ unanswered' \subseteq reading'
    BY DEF WriteUser, TypeOK
  <1>9. \A s \in reading' : s \in Task /\ request[s].user \in User
    BY DEF WriteUser, TypeOK, Request
  <1>10. \A s \in reading' : request[s].user = q.user => request[s].user \notin clean'
    BY DEF WriteUser, ReadByOthers
  <1>8. CopiesAreCurrent'
    <2> SUFFICES ASSUME NEW s \in reading', (request[s].user \in clean)'
                 PROVE  (copy[s] = account[request[s].user])'
      BY DEF CopiesAreCurrent
    <2>1. s \in reading /\ s # t /\ s \in Task /\ request'[s] = request[s]
      BY DEF WriteUser, TypeOK
    <2>2. request[s].user # q.user
      BY <2>1 DEF WriteUser, ReadByOthers
    <2>3. request[s].user \in User
      BY <2>1 DEF TypeOK, Request
    <2> QED BY <2>1, <2>2, <2>3, <1>5 DEF WriteUser, CopiesAreCurrent
  <1> QED BY <1>1, <1>3, <1>4, <1>5, <1>6, <1>7, <1>8, <1>9, <1>10

\* A write keeps the invariant when its answer is the right one, or stays open.
LEMMA WritePreserves ==
    ASSUME ProvisioningInvariant, NEW t \in Task, WriteUser(t),
           NEW what \in {"unknown", "member", "not a member"},
           \/ Answer(t, what)
           \/ /\ request[t].user \in clean => answered[request[t].user][request[t].role] = what
              /\ UNCHANGED answered,
           what = "member" => request[t].op = "grant",
           what = "not a member" => request[t].op # "grant"
    PROVE  ProvisioningInvariant'
  <1> USE DEF ProvisioningInvariant
  <1> DEFINE q == request[t]
  <1>0. \A u \in User \ {q.user} : account'[u] = account[u]
    BY WriteUserFacts
  <1>4. /\ answered' \in [User -> [Role -> {"unknown", "member", "not a member"}]]
        /\ \A u \in User \ {q.user} : answered'[u] = answered[u]
    <2>1. CASE Answer(t, what)
      BY <2>1 DEF Answer, TypeOK
    <2>2. CASE UNCHANGED answered
      BY <2>2 DEF TypeOK
    <2> QED BY <2>1, <2>2
  <1>1. TypeOK'
    BY <1>4, WriteUserFacts DEF WriteUser, TypeOK
  <1>2. CleanAnswersHold'
    <2> SUFFICES ASSUME NEW u \in clean', NEW r \in Role
                 PROVE  /\ answered'[u][r] = "member" => r \in account'[u].roles
                        /\ answered'[u][r] = "not a member" => r \notin account'[u].roles
      BY DEF CleanAnswersHold, AnswersHold
    <2>1. u \in clean /\ u \in User
      BY WriteUserFacts DEF TypeOK
    <2>2. /\ answered[u][r] = "member" => r \in account[u].roles
          /\ answered[u][r] = "not a member" => r \notin account[u].roles
      BY <2>1 DEF CleanAnswersHold, AnswersHold
    <2>3. CASE u # q.user
      <3>1. account'[u] = account[u]
        BY <1>0, <2>1, <2>3
      <3>2. answered'[u] = answered[u]
        BY <1>4, <2>1, <2>3
      <3> QED BY <2>2, <3>1, <3>2
    <2>4. CASE u = q.user
      <3>1. account'[u] = Changed(q, account[u])
        BY <2>1, <2>4, WriteUserFacts
      <3>2. answered'[u][r] = IF r = q.role THEN what ELSE answered[u][r]
        <4>1. CASE Answer(t, what)
          BY <2>1, <2>4, <4>1, WriteUserFacts DEF Answer, TypeOK
        <4>2. CASE answered[u][q.role] = what /\ UNCHANGED answered
          BY <4>2
        <4> QED BY <2>1, <2>4, <4>1, <4>2
      <3>3. account'[u].roles = IF q.op = "grant" THEN account[u].roles \cup {q.role}
                                                  ELSE account[u].roles \ {q.role}
        BY <3>1, ChangedFields
      <3>4. CASE r # q.role
        <4>1. r \in account'[u].roles <=> r \in account[u].roles
          BY <3>3, <3>4
        <4>2. answered'[u][r] = answered[u][r]
          BY <3>2, <3>4
        <4> QED BY <2>2, <4>1, <4>2
      <3>5. CASE r = q.role
        <4>1. r \in account'[u].roles <=> q.op = "grant"
          BY <3>3, <3>5
        <4>2. answered'[u][r] = what
          BY <3>2, <3>5
        <4> QED BY <4>1, <4>2
      <3> QED BY <3>4, <3>5
    <2> QED BY <2>3, <2>4
  <1>3. LateWritesAreOpen'
    <2> SUFFICES ASSUME NEW s \in unanswered', request'[s].user \in clean'
                 PROVE  answered'[request'[s].user][request'[s].role] = "unknown"
      BY DEF LateWritesAreOpen
    <2>1. s \in unanswered /\ s \in reading' /\ request' = request
      BY WriteUserFacts DEF WriteUser
    <2>2. request[s].user \in User /\ request[s].user # q.user /\ request[s].user \in clean
      BY <2>1, WriteUserFacts
    <2>3. answered'[request[s].user] = answered[request[s].user]
      BY <1>4, <2>2
    <2> QED BY <2>1, <2>2, <2>3 DEF LateWritesAreOpen
  <1> QED BY <1>1, <1>2, <1>3, WriteUserFacts

\* An edit in Teleport makes the users that were being changed unclean.
LEMMA EditUserPreserves ==
    ASSUME ProvisioningInvariant, NEW u \in User, NEW a \in Account, EditUser(u, a)
    PROVE  ProvisioningInvariant'
  <1> USE DEF ProvisioningInvariant
  <1>1. TypeOK'
    BY DEF EditUser, TypeOK
  <1>2. CopiesAreCurrent'
    <2> SUFFICES ASSUME NEW s \in reading', (request[s].user \in clean)'
                 PROVE  (copy[s] = account[request[s].user])'
      BY DEF CopiesAreCurrent
    <2>1. s \in reading /\ request'[s] = request[s] /\ copy'[s] = copy[s]
      BY DEF EditUser
    <2>2. request[s].user # u /\ request[s].user \in clean
      BY <2>1 DEF EditUser
    <2> QED BY <2>1, <2>2 DEF EditUser, TypeOK, CopiesAreCurrent
  <1>3. CleanAnswersHold'
    <2> SUFFICES ASSUME NEW v \in clean', NEW r \in Role
                 PROVE  /\ answered'[v][r] = "member" => r \in account'[v].roles
                        /\ answered'[v][r] = "not a member" => r \notin account'[v].roles
      BY DEF CleanAnswersHold, AnswersHold
    <2>1. v \in clean /\ v \in User
      BY DEF EditUser, TypeOK
    <2>2. /\ answered[v][r] = "member" => r \in account[v].roles
          /\ answered[v][r] = "not a member" => r \notin account[v].roles
      BY <2>1 DEF CleanAnswersHold, AnswersHold
    <2>3. CASE v # u
      BY <2>1, <2>2, <2>3 DEF EditUser, TypeOK
    <2>4. CASE v = u
      <3>1. account'[u] = a
        BY DEF EditUser, TypeOK
      <3>2. answered'[u][r] = IF (r \in a.roles) = (r \in account[u].roles)
                              THEN answered[u][r] ELSE "unknown"
        BY DEF EditUser, TypeOK
      <3>3. CASE (r \in a.roles) = (r \in account[u].roles)
        BY <2>2, <2>4, <3>1, <3>2, <3>3
      <3>4. CASE ~((r \in a.roles) = (r \in account[u].roles))
        BY <2>4, <3>2, <3>4
      <3> QED BY <3>3, <3>4
    <2> QED BY <2>3, <2>4
  <1>4. LateWritesAreOpen'
    <2> SUFFICES ASSUME NEW s \in unanswered, request[s].user \in clean'
                 PROVE  answered'[request[s].user][request[s].role] = "unknown"
      BY DEF EditUser, LateWritesAreOpen
    <2>1. request[s].user # u /\ request[s].user \in clean /\ request[s].user \in User
      BY DEF EditUser, TypeOK, Request
    <2> QED BY <2>1 DEF EditUser, TypeOK, LateWritesAreOpen
  <1> QED BY <1>1, <1>2, <1>3, <1>4

\* A task that gives up takes back what was answered of its membership.
LEMMA TimeoutPreserves ==
    ASSUME ProvisioningInvariant, NEW t \in Task, UpdateUserTimesOut(t)
    PROVE  ProvisioningInvariant'
  <1> USE DEF ProvisioningInvariant
  <1> DEFINE q == request[t]
  <1>1. q.user \in User /\ q.role \in Role
    BY DEF TypeOK, Request
  <1>2. \A u \in User, r \in Role :
          answered'[u][r] = IF u = q.user /\ r = q.role THEN "unknown" ELSE answered[u][r]
    BY <1>1 DEF UpdateUserTimesOut, Answer, TypeOK
  <1>3. TypeOK'
    BY <1>1 DEF UpdateUserTimesOut, Answer, TypeOK
  <1>4. CopiesAreCurrent'
    BY DEF UpdateUserTimesOut, CopiesAreCurrent
  <1>5. CleanAnswersHold'
    <2> SUFFICES ASSUME NEW u \in clean, NEW r \in Role
                 PROVE  /\ answered'[u][r] = "member" => r \in account[u].roles
                        /\ answered'[u][r] = "not a member" => r \notin account[u].roles
      BY DEF UpdateUserTimesOut, CleanAnswersHold, AnswersHold
    <2>1. answered'[u][r] = "unknown" \/ answered'[u][r] = answered[u][r]
      BY <1>2 DEF TypeOK
    <2>2. AnswersHold(u)
      BY DEF CleanAnswersHold
    <2>3. /\ answered[u][r] = "member" => r \in account[u].roles
          /\ answered[u][r] = "not a member" => r \notin account[u].roles
      BY <2>2 DEF AnswersHold
    <2> QED BY <2>1, <2>3
  <1>6. LateWritesAreOpen'
    <2> SUFFICES ASSUME NEW s \in unanswered', request[s].user \in clean
                 PROVE  answered'[request[s].user][request[s].role] = "unknown"
      BY DEF UpdateUserTimesOut, LateWritesAreOpen
    <2>1. s \in Task /\ (s \in unanswered \/ s = t)
      BY DEF UpdateUserTimesOut, TypeOK
    <2>2. request[s].user \in User /\ request[s].role \in Role
      BY <2>1 DEF TypeOK, Request
    <2> QED BY <1>2, <2>1, <2>2 DEF LateWritesAreOpen
  <1> QED BY <1>3, <1>4, <1>5, <1>6

\* Every step of a task or of Teleport keeps the invariant.
LEMMA NextPreservesProvisioning ==
    ProvisioningInvariant /\ [Next]_vars => ProvisioningInvariant'
  <1> SUFFICES ASSUME ProvisioningInvariant, [Next]_vars PROVE ProvisioningInvariant'
    OBVIOUS
  <1>1. ASSUME NEW t \in Task, NEW q \in Request, ReadUser(t, q)
        PROVE  ProvisioningInvariant'
    BY <1>1, ReadUserPreserves
  <1>2. ASSUME NEW t \in Task, UpdateUser(t) PROVE ProvisioningInvariant'
    <2>1. CASE request[t].op = "grant"
      BY <1>2, <2>1, WritePreserves DEF UpdateUser
    <2>2. CASE request[t].op # "grant"
      BY <1>2, <2>2, WritePreserves DEF UpdateUser
    <2> QED BY <2>1, <2>2
  <1>3. ASSUME NEW t \in Task, UpdateUserUnanswered(t) PROVE ProvisioningInvariant'
    <2>1. request[t].user \in clean => answered[request[t].user][request[t].role] = "unknown"
      BY <1>3 DEF UpdateUserUnanswered, ProvisioningInvariant, LateWritesAreOpen
    <2> QED BY <1>3, <2>1, WritePreserves DEF UpdateUserUnanswered
  <1>4. ASSUME NEW t \in Task, UpdateUserRefused(t) PROVE ProvisioningInvariant'
    BY <1>4 DEF UpdateUserRefused, ProvisioningInvariant, TypeOK, CopiesAreCurrent,
                CleanAnswersHold, AnswersHold, LateWritesAreOpen
  <1>7. ASSUME NEW t \in Task, UpdateUserTimesOut(t) PROVE ProvisioningInvariant'
    BY <1>7, TimeoutPreserves
  <1>5. ASSUME NEW u \in User, NEW a \in Account, EditUser(u, a)
        PROVE  ProvisioningInvariant'
    BY <1>5, EditUserPreserves
  <1>6. CASE UNCHANGED vars
    BY <1>6 DEF vars, ProvisioningInvariant, TypeOK, CopiesAreCurrent,
                CleanAnswersHold, AnswersHold, LateWritesAreOpen
  <1> QED BY <1>1, <1>2, <1>3, <1>4, <1>5, <1>6, <1>7 DEF Next

\* The inductive invariant holds of Grant and Revoke under any schedule.
THEOREM ProvisioningInvariantHolds == Spec => []ProvisioningInvariant
  <1>1. Init => ProvisioningInvariant
    BY InitEstablishesProvisioning
  <1>2. ProvisioningInvariant /\ [Next]_vars => ProvisioningInvariant'
    BY NextPreservesProvisioning
  <1> QED BY <1>1, <1>2, PTL DEF Spec

\* The user that Grant and Revoke write back stays well-formed: with its traits,
\* and with roles and logins that exist.
THEOREM ProvisioningTypesHold == Spec => []TypeOK
  <1>1. ProvisioningInvariant => TypeOK
    BY DEF ProvisioningInvariant
  <1> QED BY <1>1, ProvisioningInvariantHolds, PTL

\* What Grant and Revoke answered about a clean user stays true.
THEOREM AnswersStayTrue == Spec => []CleanAnswersHold
  <1>1. ProvisioningInvariant => CleanAnswersHold
    BY DEF ProvisioningInvariant
  <1> QED BY <1>1, ProvisioningInvariantHolds, PTL

\* Grant and Revoke leave alone what they were not asked to change.
THEOREM OnlyTheRequest == Spec => OnlyTheRequestChanges
  <1> DEFINE Exact ==
        \A t \in reading \ reading' :
            LET q == request[t]
            IN  /\ \A u \in User \ {q.user} : account'[u] = account[u]
                /\ q.user \in clean =>
                      /\ \A r \in Role \ {q.role} :
                            r \in account[q.user].roles <=> r \in account'[q.user].roles
                      /\ account[q.user].logins \subseteq account'[q.user].logins
  <1>1. ASSUME ProvisioningInvariant, [Next]_vars PROVE [Exact]_vars
    <2> SUFFICES ASSUME NEW t \in reading \ reading', Next
                 PROVE
            LET q == request[t]
            IN  /\ \A u \in User \ {q.user} : account'[u] = account[u]
                /\ q.user \in clean =>
                      /\ \A r \in Role \ {q.role} :
                            r \in account[q.user].roles <=> r \in account'[q.user].roles
                      /\ account[q.user].logins \subseteq account'[q.user].logins
      BY <1>1
    <2>1. CASE WriteUser(t)
      <3> t \in Task
        BY <1>1 DEF ProvisioningInvariant, TypeOK
      <3>1. request[t].user \in clean =>
              account'[request[t].user] = Changed(request[t], account[request[t].user])
        BY <1>1, <2>1, WriteUserFacts
      <3>2. \A u \in User \ {request[t].user} : account'[u] = account[u]
        BY <1>1, <2>1, WriteUserFacts
      <3> QED BY <3>1, <3>2 DEF Changed
    <2>2. CASE UpdateUserRefused(t)
      BY <2>2 DEF UpdateUserRefused
    <2>3. WriteUser(t) \/ UpdateUserRefused(t)
      BY DEF Next, ReadUser, UpdateUser, UpdateUserTimesOut, UpdateUserUnanswered,
             UpdateUserRefused, WriteUser, EditUser
    <2> QED BY <2>1, <2>2, <2>3
  <1>2. Spec => [][Exact]_vars
    BY <1>1, ProvisioningInvariantHolds, PTL DEF Spec
  <1> QED BY <1>2 DEF OnlyTheRequestChanges
-----------------------------------------------------------------------------
(* When the claim of roles.go that the code does not keep does hold.        *)

\* No two tasks are between the read of the same user and the effect of its write,
\* those counted that gave up waiting for an answer.
TasksApart == \A s, t \in reading : s # t => request[s].user # request[t].user

\* A copy bears out the answers about its user, also when the user has been edited
\* since: an edit makes the answers it contradicts unknown.
CopiesBearAnswers ==
    \A t \in reading, r \in Role :
        /\ answered[request[t].user][r] = "member" => r \in copy[t].roles
        /\ answered[request[t].user][r] = "not a member" => r \notin copy[t].roles

NothingAnsweredYet ==
    \A t \in unanswered : answered[request[t].user][request[t].role] = "unknown"

ApartInvariant == TypeOK /\ CopiesBearAnswers /\ NothingAnsweredYet /\ AllAnswersHold

\* A read takes a copy of a user the answers are right about.
LEMMA ReadUserBears ==
    ASSUME ApartInvariant, NEW t \in Task, NEW q \in Request, ReadUser(t, q), TypeOK'
    PROVE  ApartInvariant'
  <1> USE DEF ApartInvariant
  <1>1. q.user \in User
    BY DEF Request
  <1>2. CopiesBearAnswers'
    <2> SUFFICES ASSUME NEW s \in reading', NEW r \in Role
                 PROVE  (/\ answered[request[s].user][r] = "member" => r \in copy[s].roles
                         /\ answered[request[s].user][r] = "not a member"
                               => r \notin copy[s].roles)'
      BY DEF CopiesBearAnswers
    <2>1. CASE s = t
      BY <1>1, <2>1 DEF ReadUser, TypeOK, AllAnswersHold, AnswersHold
    <2>2. CASE s # t
      BY <2>2 DEF ReadUser, TypeOK, CopiesBearAnswers
    <2> QED BY <2>1, <2>2
  <1>3. AllAnswersHold'
    BY DEF ReadUser, AllAnswersHold, AnswersHold
  <1>4. NothingAnsweredYet'
    BY DEF ReadUser, TypeOK, NothingAnsweredYet
  <1> QED BY <1>2, <1>3, <1>4

\* A write changes one membership of what it read, which the other answers about
\* the user agree with; no other copy of the user is held.
LEMMA WriteBears ==
    ASSUME ApartInvariant, TasksApart, NEW t \in Task, WriteUser(t), TypeOK',
           NEW what \in {"unknown", "member", "not a member"},
           \/ Answer(t, what)
           \/ answered[request[t].user][request[t].role] = what /\ UNCHANGED answered,
           what = "member" => request[t].op = "grant",
           what = "not a member" => request[t].op # "grant"
    PROVE  ApartInvariant'
  <1> DEFINE q == request[t]
  <1>0. TypeOK /\ CopiesBearAnswers /\ NothingAnsweredYet /\ AllAnswersHold
    BY DEF ApartInvariant
  <1>1. q \in Request /\ q.user \in User /\ q.role \in Role /\ t \in reading
    BY <1>0 DEF TypeOK, Request, WriteUser
  <1>2. \A u \in User, r \in Role :
          answered'[u][r] = IF u = q.user /\ r = q.role THEN what ELSE answered[u][r]
    <2>1. CASE Answer(t, what)
      BY <1>0, <1>1, <2>1 DEF Answer, TypeOK
    <2>2. CASE answered[q.user][q.role] = what /\ UNCHANGED answered
      BY <2>2
    <2> QED BY <2>1, <2>2
  <1>3. \A u \in User \ {q.user} : account'[u] = account[u]
    BY <1>0, <1>1 DEF WriteUser, TypeOK
  <1>4. account'[q.user].roles = IF q.op = "grant" THEN copy[t].roles \cup {q.role}
                                                   ELSE copy[t].roles \ {q.role}
    BY <1>0, <1>1, ChangedFields DEF WriteUser, TypeOK
  <1>5. CopiesBearAnswers'
    <2> SUFFICES ASSUME NEW s \in reading', NEW r \in Role
                 PROVE  (/\ answered[request[s].user][r] = "member" => r \in copy[s].roles
                         /\ answered[request[s].user][r] = "not a member"
                               => r \notin copy[s].roles)'
      BY DEF CopiesBearAnswers
    <2>1. s \in reading /\ s # t /\ s \in Task /\ UNCHANGED <<request, copy>>
      BY <1>0 DEF WriteUser, TypeOK
    <2>2. request[s].user # q.user /\ request[s].user \in User
      BY <1>0, <1>1, <2>1 DEF TasksApart, TypeOK, Request
    <2>3. /\ answered[request[s].user][r] = "member" => r \in copy[s].roles
          /\ answered[request[s].user][r] = "not a member" => r \notin copy[s].roles
      BY <1>0, <2>1 DEF CopiesBearAnswers
    <2>4. answered'[request[s].user][r] = answered[request[s].user][r]
      BY <1>2, <2>2
    <2> QED BY <2>1, <2>3, <2>4
  <1>6. AllAnswersHold'
    <2> SUFFICES ASSUME NEW u \in User, NEW r \in Role
                 PROVE  /\ answered'[u][r] = "member" => r \in account'[u].roles
                        /\ answered'[u][r] = "not a member" => r \notin account'[u].roles
      BY DEF AllAnswersHold, AnswersHold
    <2>1. CASE u # q.user
      <3>1. /\ answered[u][r] = "member" => r \in account[u].roles
            /\ answered[u][r] = "not a member" => r \notin account[u].roles
        BY <1>0 DEF AllAnswersHold, AnswersHold
      <3>2. answered'[u][r] = answered[u][r]
        BY <1>2, <2>1
      <3>3. account'[u] = account[u]
        BY <1>3, <2>1
      <3> QED BY <3>1, <3>2, <3>3
    <2>2. CASE u = q.user /\ r # q.role
      <3>1. /\ answered[u][r] = "member" => r \in copy[t].roles
            /\ answered[u][r] = "not a member" => r \notin copy[t].roles
        BY <1>0, <1>1, <2>2 DEF CopiesBearAnswers
      <3>2. r \in account'[u].roles <=> r \in copy[t].roles
        BY <1>4, <2>2
      <3> QED BY <1>2, <2>2, <3>1, <3>2
    <2>3. CASE u = q.user /\ r = q.role
      <3>1. r \in account'[u].roles <=> q.op = "grant"
        BY <1>4, <2>3
      <3>2. answered'[u][r] = what
        BY <1>2, <2>3
      <3> QED BY <3>1, <3>2
    <2> QED BY <2>1, <2>2, <2>3
  <1>7. NothingAnsweredYet'
    <2> SUFFICES ASSUME NEW s \in unanswered', request' = request
                 PROVE  answered'[request[s].user][request[s].role] = "unknown"
      BY DEF NothingAnsweredYet, WriteUser
    <2>1. s \in unanswered /\ s \in reading /\ s # t /\ s \in Task
      BY <1>0 DEF WriteUser, TypeOK
    <2>2. request[s].user # q.user /\ request[s].user \in User /\ request[s].role \in Role
      BY <1>0, <1>1, <2>1 DEF TasksApart, TypeOK, Request
    <2> QED BY <1>0, <1>2, <2>1, <2>2 DEF NothingAnsweredYet
  <1> QED BY <1>5, <1>6, <1>7 DEF ApartInvariant

\* A task that gives up makes one answer unknown.
LEMMA TimeoutBears ==
    ASSUME ApartInvariant, NEW t \in Task, UpdateUserTimesOut(t), TypeOK'
    PROVE  ApartInvariant'
  <1> USE DEF ApartInvariant
  <1> DEFINE q == request[t]
  <1>1. q.user \in User /\ q.role \in Role
    BY DEF TypeOK, Request
  <1>2. \A u \in User, r \in Role :
          answered'[u][r] = IF u = q.user /\ r = q.role THEN "unknown" ELSE answered[u][r]
    BY <1>1 DEF UpdateUserTimesOut, Answer, TypeOK
  <1>3. CopiesBearAnswers'
    <2> SUFFICES ASSUME NEW s \in reading, NEW r \in Role
                 PROVE  /\ answered'[request[s].user][r] = "member" => r \in copy[s].roles
                        /\ answered'[request[s].user][r] = "not a member"
                              => r \notin copy[s].roles
      BY DEF CopiesBearAnswers, UpdateUserTimesOut
    <2> DEFINE v == request[s].user
    <2>1. v \in User
      BY DEF TypeOK, Request
    <2>2. answered'[v][r] = "unknown" \/ answered'[v][r] = answered[v][r]
      BY <1>2, <2>1
    <2>3. /\ answered[v][r] = "member" => r \in copy[s].roles
          /\ answered[v][r] = "not a member" => r \notin copy[s].roles
      BY DEF CopiesBearAnswers
    <2> QED BY <2>2, <2>3
  <1>4. AllAnswersHold'
    <2> SUFFICES ASSUME NEW u \in User, NEW r \in Role
                 PROVE  /\ answered'[u][r] = "member" => r \in account[u].roles
                        /\ answered'[u][r] = "not a member" => r \notin account[u].roles
      BY DEF AllAnswersHold, AnswersHold, UpdateUserTimesOut
    <2>1. answered'[u][r] = "unknown" \/ answered'[u][r] = answered[u][r]
      BY <1>2
    <2>2. /\ answered[u][r] = "member" => r \in account[u].roles
          /\ answered[u][r] = "not a member" => r \notin account[u].roles
      BY DEF AllAnswersHold, AnswersHold
    <2> QED BY <2>1, <2>2
  <1>5. NothingAnsweredYet'
    <2> SUFFICES ASSUME NEW s \in unanswered'
                 PROVE  answered'[request[s].user][request[s].role] = "unknown"
      BY DEF NothingAnsweredYet, UpdateUserTimesOut
    <2>1. s \in Task /\ (s \in unanswered \/ s = t)
      BY DEF UpdateUserTimesOut, TypeOK
    <2>2. request[s].user \in User /\ request[s].role \in Role
      BY <2>1 DEF TypeOK, Request
    <2> QED BY <1>2, <2>1, <2>2 DEF NothingAnsweredYet
  <1> QED BY <1>3, <1>4, <1>5

\* An edit takes back the answers it contradicts.
LEMMA EditUserBears ==
    ASSUME ApartInvariant, NEW u \in User, NEW a \in Account, EditUser(u, a), TypeOK'
    PROVE  ApartInvariant'
  <1> USE DEF ApartInvariant
  <1>1. \A v \in User, r \in Role :
          answered'[v][r] = IF v = u /\ (r \in a.roles) # (r \in account[u].roles)
                            THEN "unknown" ELSE answered[v][r]
    BY DEF EditUser, TypeOK
  <1>2. \A v \in User : account'[v] = IF v = u THEN a ELSE account[v]
    BY DEF EditUser, TypeOK
  <1>3. CopiesBearAnswers'
    <2> SUFFICES ASSUME NEW s \in reading, NEW r \in Role
                 PROVE  /\ answered'[request[s].user][r] = "member" => r \in copy[s].roles
                        /\ answered'[request[s].user][r] = "not a member"
                              => r \notin copy[s].roles
      BY DEF CopiesBearAnswers, EditUser
    <2>1. request[s].user \in User
      BY DEF TypeOK, Request
    <2>2. \/ answered'[request[s].user][r] = answered[request[s].user][r]
          \/ answered'[request[s].user][r] = "unknown"
      BY <1>1, <2>1
    <2> QED BY <2>2 DEF CopiesBearAnswers
  <1>4. AllAnswersHold'
    <2> SUFFICES ASSUME NEW v \in User, NEW r \in Role
                 PROVE  /\ answered'[v][r] = "member" => r \in account'[v].roles
                        /\ answered'[v][r] = "not a member" => r \notin account'[v].roles
      BY DEF AllAnswersHold, AnswersHold
    <2>1. /\ answered[v][r] = "member" => r \in account[v].roles
          /\ answered[v][r] = "not a member" => r \notin account[v].roles
      BY DEF AllAnswersHold, AnswersHold
    <2>2. CASE v = u /\ (r \in a.roles) # (r \in account[u].roles)
      BY <1>1, <2>2
    <2>3. CASE ~(v = u /\ (r \in a.roles) # (r \in account[u].roles))
      <3>1. answered'[v][r] = answered[v][r]
        BY <1>1, <2>3
      <3>2. r \in account'[v].roles <=> r \in account[v].roles
        BY <1>2, <2>3
      <3> QED BY <2>1, <3>1, <3>2
    <2> QED BY <2>2, <2>3
  <1>5. NothingAnsweredYet'
    <2> SUFFICES ASSUME NEW s \in unanswered
                 PROVE  answered'[request[s].user][request[s].role] = "unknown"
      BY DEF NothingAnsweredYet, EditUser
    <2>1. request[s].user \in User /\ request[s].role \in Role
      BY DEF TypeOK, Request
    <2> QED BY <1>1, <2>1 DEF NothingAnsweredYet
  <1> QED BY <1>3, <1>4, <1>5

\* Every step keeps the answers right, if tasks on one user do not overlap.
LEMMA NextBears ==
    ASSUME ApartInvariant, TasksApart, ProvisioningInvariant, [Next]_vars
    PROVE  ApartInvariant'
  <1>1. TypeOK'
    BY NextPreservesProvisioning DEF ProvisioningInvariant
  <1>2. ASSUME NEW t \in Task, NEW q \in Request, ReadUser(t, q) PROVE ApartInvariant'
    BY <1>1, <1>2, ReadUserBears
  <1>3. ASSUME NEW t \in Task, UpdateUser(t) PROVE ApartInvariant'
    <2>1. CASE request[t].op = "grant"
      BY <1>1, <1>3, <2>1, WriteBears DEF UpdateUser
    <2>2. CASE request[t].op # "grant"
      BY <1>1, <1>3, <2>2, WriteBears DEF UpdateUser
    <2> QED BY <2>1, <2>2
  <1>4. ASSUME NEW t \in Task, UpdateUserUnanswered(t) PROVE ApartInvariant'
    <2>1. answered[request[t].user][request[t].role] = "unknown"
      BY <1>4 DEF UpdateUserUnanswered, ApartInvariant, NothingAnsweredYet
    <2> QED BY <1>1, <1>4, <2>1, WriteBears DEF UpdateUserUnanswered
  <1>5. ASSUME NEW t \in Task, UpdateUserRefused(t) PROVE ApartInvariant'
    BY <1>1, <1>5 DEF UpdateUserRefused, ApartInvariant, CopiesBearAnswers, AllAnswersHold,
                      AnswersHold, NothingAnsweredYet
  <1>8. ASSUME NEW t \in Task, UpdateUserTimesOut(t) PROVE ApartInvariant'
    BY <1>1, <1>8, TimeoutBears
  <1>6. ASSUME NEW u \in User, NEW a \in Account, EditUser(u, a) PROVE ApartInvariant'
    BY <1>1, <1>6, EditUserBears
  <1>7. CASE UNCHANGED vars
    BY <1>1, <1>7 DEF vars, ApartInvariant, CopiesBearAnswers, AllAnswersHold, AnswersHold,
                      NothingAnsweredYet
  <1> QED BY <1>2, <1>3, <1>4, <1>5, <1>6, <1>7, <1>8 DEF Next

\* What Grant and Revoke (roles.go) answer stays true of every user, whatever fails
\* or is edited in Teleport, as long as no two tasks are between GetUser of the same
\* user and the effect of its UpdateUser, which a task that failed may leave on the
\* way: nothing but that overlap undoes an answer.
THEOREM OrderedTasksAnswerTrue == Spec /\ []TasksApart => []AllAnswersHold
  <1>1. Init => ApartInvariant
    <2>1. Init => TypeOK
      BY InitEstablishesProvisioning DEF ProvisioningInvariant
    <2> QED BY <2>1 DEF Init, ApartInvariant, CopiesBearAnswers, AllAnswersHold, AnswersHold,
                       NothingAnsweredYet
  <1>2. ApartInvariant /\ TasksApart /\ ProvisioningInvariant /\ [Next]_vars
          => ApartInvariant'
    BY NextBears
  <1>3. ApartInvariant => AllAnswersHold
    BY DEF ApartInvariant
  <1> QED BY <1>1, <1>2, <1>3, ProvisioningInvariantHolds, PTL DEF Spec
=============================================================================
