--------------------- MODULE AccountProvisioningProofs ---------------------
(***************************************************************************)
(* Proofs about CreateAccount and Delete, for any names, any way of        *)
(* cleaning them, and any number of tasks.                                 *)
(***************************************************************************)
EXTENDS AccountProvisioning, TLAPS

\* There is a request, as there is a name.
LEMMA SomeRequest == \E q \in Request : TRUE
  <1>1. PICK n \in Name : TRUE
    BY NameAssumption
  <1>2. [op |-> "create", name |-> n] \in Request
    BY <1>1 DEF Request
  <1> QED BY <1>2

\* Before any task there is no user and nothing is known.
LEMMA InitEstablishesAccounts == Init => AccountInvariant
  <1> SUFFICES ASSUME Init PROVE AccountInvariant
    OBVIOUS
  <1>1. (CHOOSE q \in Request : TRUE) \in Request
    BY SomeRequest
  <1>2. TypeOK
    BY <1>1 DEF Init, TypeOK, Account
  <1>3. NumberedOnce /\ \A t \in Task : KnownUser(t)
    BY DEF Init, NumberedOnce, KnownUser, Nobody, Created
  <1>4. LinkOpensOwnAccount /\ AccountsAreNotShared /\ DeletedAccountsAreGone
    BY DEF Init, LinkOpensOwnAccount, AccountsAreNotShared, DeletedAccountsAreGone, Created
  <1> QED BY <1>2, <1>3, <1>4 DEF AccountInvariant

\* A user that is nobody has the number 0, and the others have another.
LEMMA Numbers ==
    ASSUME TypeOK, NEW n \in Name
    PROVE  /\ account[n].id \in Nat
           /\ account[n].type \in {"none", "local", "federated"}
           /\ account[n] = Nobody <=> account[n].id = 0
           /\ account[n].type # "none" => account[n] # Nobody
  BY DEF TypeOK, Account, Nobody

\* A new user has a number nobody had or knows.
LEMMA AddUserFacts ==
    ASSUME AccountInvariant, NEW n \in Name, NEW type \in {"local", "federated"},
           AddUser(n, type)
    PROVE  /\ account' \in [Name -> Account]
           /\ births' \in Nat /\ births' = births + 1
           /\ account'[n] = [type |-> type, id |-> births']
           /\ \A m \in Name \ {n} : account'[m] = account[m]
           /\ NumberedOnce'
           /\ \A m \in Name, k \in 1..births : account'[m].id = k => account[m].id = k
  <1> USE DEF AccountInvariant
  <1>1. account' \in [Name -> Account] /\ births' \in Nat /\ births' = births + 1
    BY DEF AddUser, TypeOK, Account
  <1>2. /\ account'[n] = [type |-> type, id |-> births']
        /\ \A m \in Name \ {n} : account'[m] = account[m]
    BY DEF AddUser, TypeOK
  <1>3. \A m \in Name : account[m].id \in Nat /\ account[m].id <= births
    BY Numbers DEF NumberedOnce
  <1>4. NumberedOnce'
    <2>1. \A m \in Name : account'[m].id <= births'
      BY <1>1, <1>2, <1>3 DEF TypeOK
    <2>2. ASSUME NEW l \in Name, NEW m \in Name, account'[l].id = account'[m].id,
                 account'[l] # Nobody
          PROVE  l = m
      <3>1. CASE l # n /\ m # n
        BY <1>2, <2>2, <3>1 DEF NumberedOnce
      <3>2. CASE l = n \/ m = n
        BY <1>1, <1>2, <1>3, <2>2, <3>2 DEF TypeOK
      <3> QED BY <3>1, <3>2
    <2> QED BY <2>1, <2>2 DEF NumberedOnce
  <1>5. \A m \in Name, k \in 1..births : account'[m].id = k => account[m].id = k
    BY <1>1, <1>2 DEF TypeOK
  <1> QED BY <1>1, <1>2, <1>4, <1>5

\* Where a user is removed the others stay, and tasks between their requests
\* for it are disturbed.
LEMMA RemoveUserFacts ==
    ASSUME AccountInvariant, NEW n \in Name, RemoveUser(n)
    PROVE  /\ account' \in [Name -> Account]
           /\ account'[n] = Nobody
           /\ \A m \in Name \ {n} : account'[m] = account[m]
           /\ births' = births => NumberedOnce'
           /\ disturbed' \subseteq Task /\ disturbed \subseteq disturbed'
           /\ \A t \in Task \ disturbed' :
                 pc[t] \in {"creating", "deleting"} => UserName(request[t]) # n
  <1> USE DEF AccountInvariant
  <1>1. /\ account' \in [Name -> Account]
        /\ account'[n] = Nobody
        /\ \A m \in Name \ {n} : account'[m] = account[m]
    BY DEF RemoveUser, TypeOK, Account
  <1>2. ASSUME births' = births PROVE NumberedOnce'
    <2>1. \A m \in Name : account'[m].id <= births'
      BY <1>1, <1>2 DEF NumberedOnce, Nobody, TypeOK
    <2>2. ASSUME NEW l \in Name, NEW m \in Name, account'[l].id = account'[m].id,
                 account'[l] # Nobody
          PROVE  l = m
      <3>1. l # n
        BY <1>1, <2>2
      <3>2. m # n
        BY <1>1, <2>2, <3>1, Numbers DEF Nobody
      <3> QED BY <1>1, <2>2, <3>1, <3>2 DEF NumberedOnce
    <2> QED BY <2>1, <2>2 DEF NumberedOnce
  <1>3. /\ disturbed' \subseteq Task /\ disturbed \subseteq disturbed'
        /\ \A t \in Task \ disturbed' :
              pc[t] \in {"creating", "deleting"} => UserName(request[t]) # n
    BY DEF RemoveUser, BetweenRequests, TypeOK
  <1> QED BY <1>1, <1>2, <1>3
-----------------------------------------------------------------------------
\* A task that creates a user knows the newest.
LEMMA CreateUserPreserves ==
    ASSUME AccountInvariant, NEW t \in Task, NEW q \in Request,
           UserCreated(t, q) \/ UserCreatedUnanswered(t, q)
    PROVE  AccountInvariant'
  <1> USE DEF AccountInvariant
  <1> DEFINE n == UserName(q)
  <1>1. /\ pc[t] = "new" /\ pc'[t] \in {"creating", "failed"} /\ CreateUser(t, q)
        /\ pc' = [pc EXCEPT ![t] = pc'[t]]
    BY DEF UserCreated, UserCreatedUnanswered, Goto, TypeOK
  <1>2. n \in Name /\ q.op = "create"
    BY <1>1, NameAssumption DEF CreateUser, UserName, Request
  <1>3. AddUser(n, "local")
    BY <1>1 DEF CreateUser
  <1>4. /\ account' \in [Name -> Account]
        /\ births' \in Nat /\ births' = births + 1
        /\ account'[n] = [type |-> "local", id |-> births']
        /\ \A m \in Name \ {n} : account'[m] = account[m]
        /\ NumberedOnce'
        /\ \A m \in Name, k \in 1..births : account'[m].id = k => account[m].id = k
    BY <1>2, <1>3, AddUserFacts
  <1>5. /\ known' = [known EXCEPT ![t] = births'] /\ request' = [request EXCEPT ![t] = q]
        /\ link' = link /\ disturbed' = disturbed
    BY <1>1, <1>4 DEF CreateUser
  <1>6. TypeOK'
    BY <1>1, <1>4, <1>5 DEF TypeOK
  <1>7. /\ known'[t] = births' /\ request'[t] = q
        /\ \A s \in Task \ {t} : /\ known'[s] = known[s] /\ request'[s] = request[s]
                                 /\ pc'[s] = pc[s]
    BY <1>1, <1>5 DEF TypeOK
  <1>8. \A s \in Task : known[s] \in Nat /\ known[s] <= births
    BY DEF TypeOK, KnownUser
  <1>9. \A s \in Task : KnownUser(s)'
    <2> SUFFICES ASSUME NEW s \in Task PROVE KnownUser(s)'
      OBVIOUS
    <2>1. CASE s = t
      <3>1. \A m \in Name : account'[m].id = births' => m = n
        BY <1>4, <1>2, Numbers DEF NumberedOnce
      <3> QED BY <1>1, <1>2, <1>4, <1>5, <1>7, <2>1, <3>1 DEF KnownUser, Created, TypeOK
    <2>2. CASE s # t
      <3>1. /\ known'[s] <= births'
            /\ pc'[s] = "new" => known'[s] = 0
            /\ pc'[s] \in {"creating", "created"} => Created(s)'
            /\ pc'[s] \in {"deleting", "deleted"} =>
                  request'[s].op = "delete" /\ known'[s] # 0
            /\ pc'[s] # "created" => link'[s] = 0
        BY <1>4, <1>5, <1>7, <1>8, <2>2 DEF KnownUser, Created, TypeOK
      <3>2. ASSUME NEW m \in Name, known'[s] # 0, account'[m].id = known'[s]
            PROVE  m = UserName(request'[s])
        BY <1>4, <1>7, <1>8, <2>2, <3>2 DEF KnownUser, TypeOK
      <3>3. ASSUME pc'[s] \in {"creating", "deleting"}
            PROVE  /\ known'[s] # 0 /\ UserName(request'[s]) \in Name
                   /\ s \in disturbed' \/ /\ account'[UserName(request'[s])].id = known'[s]
                                          /\ account'[UserName(request'[s])].type = "local"
        <4>1. /\ known[s] # 0 /\ UserName(request[s]) \in Name
              /\ s \in disturbed \/ /\ account[UserName(request[s])].id = known[s]
                                    /\ account[UserName(request[s])].type = "local"
          BY <1>7, <2>2, <3>3 DEF KnownUser
        <4>2. account[n] = Nobody
          BY <1>3 DEF AddUser
        <4> QED BY <1>4, <1>5, <1>7, <2>2, <4>1, <4>2 DEF Nobody
      <3> QED BY <3>1, <3>2, <3>3 DEF KnownUser
    <2> QED BY <2>1, <2>2
  <1>10. LinkOpensOwnAccount'
    BY <1>1, <1>5, <1>7 DEF LinkOpensOwnAccount, Created
  <1>11. AccountsAreNotShared'
    BY <1>4, <1>5, <1>7, <1>8 DEF AccountsAreNotShared, Created, TypeOK
  <1>12. DeletedAccountsAreGone'
    <2> SUFFICES ASSUME NEW s \in Task, NEW m \in Name, pc'[s] = "deleted"
                 PROVE  account'[m].id # known'[s]
      BY DEF DeletedAccountsAreGone
    <2>1. s # t /\ pc[s] = "deleted" /\ known'[s] = known[s]
      BY <1>1, <1>7
    <2>2. account[m].id # known[s]
      BY <2>1 DEF DeletedAccountsAreGone
    <2> QED BY <1>4, <1>8, <2>1, <2>2 DEF TypeOK
  <1> QED BY <1>4, <1>6, <1>9, <1>10, <1>11, <1>12

\* A user that appears on its own changes nothing for the tasks: the names
\* they work on are taken.
LEMMA UserAppearsPreserves ==
    ASSUME AccountInvariant, NEW n \in Name, NEW type \in {"local", "federated"},
           UserAppears(n, type)
    PROVE  AccountInvariant'
  <1> USE DEF AccountInvariant
  <1>1. /\ AddUser(n, type)
        /\ request' = request /\ pc' = pc /\ known' = known /\ link' = link
        /\ disturbed' = disturbed
    BY DEF UserAppears
  <1>2. /\ account' \in [Name -> Account]
        /\ births' \in Nat /\ births' = births + 1
        /\ \A m \in Name \ {n} : account'[m] = account[m]
        /\ NumberedOnce'
        /\ \A m \in Name, k \in 1..births : account'[m].id = k => account[m].id = k
    BY <1>1, AddUserFacts
  <1>3. TypeOK'
    BY <1>1, <1>2 DEF TypeOK
  <1>4. \A s \in Task : known[s] \in Nat /\ known[s] <= births
    BY DEF TypeOK, KnownUser
  <1>5. ASSUME NEW s \in Task PROVE KnownUser(s)'
    <2>1. ASSUME NEW m \in Name, known[s] # 0, account'[m].id = known[s]
          PROVE  m = UserName(request[s])
      BY <1>2, <1>4, <2>1 DEF KnownUser, TypeOK
    <2>2. account[n] = Nobody
      BY <1>1 DEF AddUser
    <2> QED BY <1>1, <1>2, <1>4, <2>1, <2>2 DEF KnownUser, Created, Nobody, TypeOK
  <1>6. LinkOpensOwnAccount' /\ AccountsAreNotShared'
    BY <1>1 DEF LinkOpensOwnAccount, AccountsAreNotShared, Created
  <1>7. DeletedAccountsAreGone'
    BY <1>1, <1>2, <1>4 DEF DeletedAccountsAreGone, KnownUser, TypeOK
  <1> QED BY <1>2, <1>3, <1>5, <1>6, <1>7

\* A user that is removed, by a task or by Teleport, is no longer any task's.
LEMMA RemovalPreserves ==
    ASSUME AccountInvariant, NEW n \in Name, RemoveUser(n),
           UNCHANGED <<births, request, known, link>>,
           pc' \in [Task -> {"new", "creating", "deleting", "created", "deleted", "failed"}],
           \A s \in Task :
              \/ pc'[s] = pc[s]
              \/ /\ pc[s] = "deleting" /\ UserName(request[s]) = n
                 /\ pc'[s] \in {"deleted", "failed"}
    PROVE  AccountInvariant'
  <1> USE DEF AccountInvariant
  <1>1. /\ account' \in [Name -> Account]
        /\ account'[n] = Nobody
        /\ \A m \in Name \ {n} : account'[m] = account[m]
        /\ NumberedOnce'
        /\ disturbed' \subseteq Task /\ disturbed \subseteq disturbed'
        /\ \A t \in Task \ disturbed' :
              pc[t] \in {"creating", "deleting"} => UserName(request[t]) # n
    BY RemoveUserFacts
  <1>2. TypeOK'
    BY <1>1 DEF TypeOK
  <1>3. ASSUME NEW s \in Task PROVE KnownUser(s)'
    BY <1>1 DEF KnownUser, Created, Nobody
  <1>4. LinkOpensOwnAccount' /\ AccountsAreNotShared'
    BY <1>1 DEF LinkOpensOwnAccount, AccountsAreNotShared, Created
  <1>5. DeletedAccountsAreGone'
    <2> SUFFICES ASSUME NEW s \in Task, NEW m \in Name, pc'[s] = "deleted"
                 PROVE  account'[m].id # known[s]
      BY DEF DeletedAccountsAreGone
    <2>1. known[s] # 0
      BY DEF KnownUser
    <2>2. CASE m = n
      BY <1>1, <2>1, <2>2 DEF Nobody
    <2>3. CASE m # n
      BY <1>1, <2>1, <2>3 DEF DeletedAccountsAreGone, KnownUser
    <2> QED BY <2>2, <2>3
  <1> QED BY <1>1, <1>2, <1>3, <1>4, <1>5
-----------------------------------------------------------------------------
\* A step of one task that touches no user: what has to be shown of the task.
LEMMA TaskStepPreserves ==
    ASSUME AccountInvariant, TypeOK', NEW t \in Task,
           UNCHANGED <<account, births, disturbed>>,
           \A s \in Task \ {t} : /\ pc'[s] = pc[s] /\ request'[s] = request[s]
                                  /\ known'[s] = known[s] /\ link'[s] = link[s],
           KnownUser(t)',
           Created(t)' => Created(t) /\ known'[t] = known[t],
           t \notin disturbed /\ pc'[t] = "created" => link'[t] = known'[t] /\ Created(t)',
           pc'[t] = "deleted" => \A n \in Name : account[n].id # known'[t]
    PROVE  AccountInvariant'
  <1> USE DEF AccountInvariant
  <1>1. NumberedOnce'
    BY DEF NumberedOnce
  <1>2. ASSUME NEW s \in Task PROVE KnownUser(s)'
    BY DEF KnownUser, Created
  <1>3. LinkOpensOwnAccount'
    BY DEF LinkOpensOwnAccount, Created
  <1>4. AccountsAreNotShared'
    <2> SUFFICES ASSUME NEW r \in Task, NEW s \in Task, r # s
                 PROVE  /\ Created(r)' /\ Created(s)' => known'[r] # known'[s]
                        /\ link'[r] = link'[s] /\ link'[r] # 0 => {r, s} \cap disturbed' # {}
      BY DEF AccountsAreNotShared
    <2>1. Created(r)' /\ Created(s)' => known'[r] # known'[s]
      BY DEF AccountsAreNotShared, Created
    <2>2. ASSUME link'[r] = link'[s], link'[r] # 0, r \notin disturbed', s \notin disturbed'
          PROVE  FALSE
      <3>1. pc'[r] = "created" /\ pc'[s] = "created"
        BY <1>2, <2>2 DEF KnownUser
      <3> QED BY <1>3, <2>1, <2>2, <3>1 DEF LinkOpensOwnAccount
    <2> QED BY <2>1, <2>2
  <1>5. DeletedAccountsAreGone'
    BY DEF DeletedAccountsAreGone
  <1> QED BY <1>1, <1>2, <1>3, <1>4, <1>5

\* The link is for the user the task created, unless that was removed.
LEMMA CreateResetPasswordTokenPreserves ==
    ASSUME AccountInvariant, NEW t \in Task, CreateResetPasswordToken(t)
    PROVE  AccountInvariant'
  <1> USE DEF AccountInvariant, CreateResetPasswordToken, Goto
  <1> DEFINE n == UserName(request[t])
  <1>1. n \in Name /\ Created(t) /\ KnownUser(t)
    BY DEF KnownUser
  <1>2. account[n].id \in Nat
    BY <1>1, Numbers
  <1>3. TypeOK'
    BY <1>2 DEF TypeOK
  <1>4. pc'[t] = "created" /\ link'[t] = account[n].id
    BY DEF TypeOK
  <1>5. KnownUser(t)'
    BY <1>1, <1>4 DEF KnownUser, Created
  <1>6. t \notin disturbed => link'[t] = known[t]
    BY <1>1, <1>4 DEF KnownUser
  <1> HIDE DEF n
  <1> QED BY <1>1, <1>3, <1>4, <1>5, <1>6, TaskStepPreserves DEF TypeOK, Created

\* Delete knows the local user it read.
LEMMA GetUserPreserves ==
    ASSUME AccountInvariant, NEW t \in Task, NEW q \in Request, GetUser(t, q)
    PROVE  AccountInvariant'
  <1> USE DEF AccountInvariant, GetUser, Goto
  <1>1. q.name \in Name /\ UserName(q) = q.name
    BY DEF Request, UserName
  <1>2. /\ account[q.name].id \in Nat /\ account[q.name].id # 0
        /\ account[q.name].id <= births
        /\ account[q.name] # Nobody
    BY <1>1, Numbers DEF NumberedOnce
  <1>3. TypeOK'
    BY <1>2 DEF TypeOK
  <1>4. pc'[t] = "deleting" /\ known'[t] = account[q.name].id /\ request'[t] = q
    BY DEF TypeOK
  <1>5. \A m \in Name : account[m].id = account[q.name].id => m = q.name
    BY <1>1, <1>2, Numbers DEF NumberedOnce
  <1>6. KnownUser(t)'
    BY <1>1, <1>2, <1>4, <1>5 DEF KnownUser, Created
  <1> QED BY <1>3, <1>4, <1>6, TaskStepPreserves DEF TypeOK, Created

\* A request that fails ends the task.
LEMMA FailurePreserves ==
    ASSUME AccountInvariant, NEW t \in Task, NEW q \in Request,
           \/ RequestFails(t, q)
           \/ CreateResetPasswordTokenFails(t)
           \/ DeleteUserFails(t)
    PROVE  AccountInvariant'
  <1> USE DEF AccountInvariant, RequestFails, CreateResetPasswordTokenFails,
              DeleteUserFails, Goto
  <1>1. TypeOK'
    BY DEF TypeOK
  <1>2. /\ pc'[t] = "failed" /\ link' = link /\ known' = known
        /\ UNCHANGED <<account, births, disturbed>>
        /\ request'[t] = request[t] \/ known[t] = 0
        /\ \A s \in Task \ {t} : pc'[s] = pc[s] /\ request'[s] = request[s]
    BY DEF TypeOK, KnownUser
  <1>3. KnownUser(t)'
    BY <1>2 DEF KnownUser, Created
  <1> QED BY <1>1, <1>2, <1>3, TaskStepPreserves DEF Created
-----------------------------------------------------------------------------

\* Every step keeps the invariant.
LEMMA NextPreservesAccounts == AccountInvariant /\ [Next]_vars => AccountInvariant'
  <1> SUFFICES ASSUME AccountInvariant, [Next]_vars PROVE AccountInvariant'
    OBVIOUS
  <1>1. ASSUME NEW t \in Task, NEW q \in Request,
               UserCreated(t, q) \/ UserCreatedUnanswered(t, q)
        PROVE  AccountInvariant'
    BY <1>1, CreateUserPreserves
  <1>2. ASSUME NEW t \in Task, CreateResetPasswordToken(t) PROVE AccountInvariant'
    BY <1>2, CreateResetPasswordTokenPreserves
  <1>3. ASSUME NEW t \in Task, NEW q \in Request, GetUser(t, q) PROVE AccountInvariant'
    BY <1>3, GetUserPreserves
  <1>4. ASSUME NEW t \in Task, UserDeleted(t) \/ UserDeletedUnanswered(t)
        PROVE  AccountInvariant'
    <2>1. /\ UserName(request[t]) \in Name
          /\ pc[t] = "deleting" /\ pc'[t] \in {"deleted", "failed"}
          /\ pc' = [pc EXCEPT ![t] = pc'[t]]
      BY <1>4 DEF AccountInvariant, KnownUser, TypeOK, UserDeleted, UserDeletedUnanswered, Goto
    <2>2. DeleteUser(t)
      BY <1>4 DEF UserDeleted, UserDeletedUnanswered
    <2> QED BY <2>1, <2>2, RemovalPreserves DEF DeleteUser, AccountInvariant, TypeOK
  <1>5. ASSUME NEW t \in Task, NEW q \in Request,
               \/ RequestFails(t, q)
               \/ CreateResetPasswordTokenFails(t)
               \/ DeleteUserFails(t)
        PROVE  AccountInvariant'
    BY <1>5, FailurePreserves
  <1>6. ASSUME NEW n \in Name, NEW type \in {"local", "federated"}, UserAppears(n, type)
        PROVE  AccountInvariant'
    BY <1>6, UserAppearsPreserves
  <1>7. ASSUME NEW n \in Name, UserGoes(n) PROVE AccountInvariant'
    BY <1>7, RemovalPreserves DEF UserGoes, AccountInvariant, TypeOK
  <1>8. CASE UNCHANGED vars
    BY <1>8 DEF vars, AccountInvariant, TypeOK, NumberedOnce, KnownUser, Created,
                LinkOpensOwnAccount, AccountsAreNotShared, DeletedAccountsAreGone
  <1>9. CASE Next
    <2>1. ASSUME NEW t \in Task,
                 CreateResetPasswordTokenFails(t) \/ DeleteUserFails(t)
          PROVE  AccountInvariant'
      BY <1>5, <2>1, SomeRequest
    <2> QED BY <1>9, <1>1, <1>2, <1>3, <1>4, <1>5, <1>6, <1>7, <2>1 DEF Next
  <1> QED BY <1>8, <1>9

\* Between its requests, a task that was not disturbed works on the user it
\* knows; and no two tasks know a user as created by them.
THEOREM AccountInvariantHolds == Spec => []AccountInvariant
  <1>1. Init => AccountInvariant
    BY InitEstablishesAccounts
  <1>2. AccountInvariant /\ [Next]_vars => AccountInvariant'
    BY NextPreservesAccounts
  <1> QED BY <1>1, <1>2, PTL DEF Spec

\* The variables keep their types.
THEOREM AccountTypesHold == Spec => []TypeOK
  <1>1. AccountInvariant => TypeOK
    BY DEF AccountInvariant
  <1> QED BY <1>1, AccountInvariantHolds, PTL

\* A link that was handed out is for the user that was created.
THEOREM LinksOpenOwnAccounts == Spec => []LinkOpensOwnAccount
  <1>1. AccountInvariant => LinkOpensOwnAccount
    BY DEF AccountInvariant
  <1> QED BY <1>1, AccountInvariantHolds, PTL

\* No user is counted as created twice, and no user has two links.
THEOREM NoSharedAccounts == Spec => []AccountsAreNotShared
  <1>1. AccountInvariant => AccountsAreNotShared
    BY DEF AccountInvariant
  <1> QED BY <1>1, AccountInvariantHolds, PTL

\* What was reported as deleted does not exist.
THEOREM DeletedStayDeleted == Spec => []DeletedAccountsAreGone
  <1>1. AccountInvariant => DeletedAccountsAreGone
    BY DEF AccountInvariant
  <1> QED BY <1>1, AccountInvariantHolds, PTL

\* A task deletes a federated user only in the place of a local one.
THEOREM NoFederatedUserDeleted == Spec => FederatedUsersStay
  <1> DEFINE Stays == \A t \in Task, n \in Name :
          pc[t] = "deleting" /\ pc'[t] # "deleting" /\ account[n].type = "federated" =>
              account'[n] = account[n] \/ t \in disturbed
  <1>1. AccountInvariant /\ [Next]_vars => [Stays]_vars
    <2> SUFFICES ASSUME AccountInvariant, Next, NEW t \in Task, NEW n \in Name,
                        pc[t] = "deleting", pc'[t] # "deleting",
                        account[n].type = "federated", t \notin disturbed
                 PROVE  account'[n] = account[n]
      OBVIOUS
    <2>1. /\ UserName(request[t]) \in Name
          /\ account[UserName(request[t])].type = "local"
      BY DEF AccountInvariant, KnownUser
    <2>2. \/ UserDeleted(t) \/ UserDeletedUnanswered(t)
          \/ DeleteUserFails(t)
      BY DEF AccountInvariant, TypeOK, Next, UserCreated, UserCreatedUnanswered,
             CreateResetPasswordToken, CreateResetPasswordTokenFails, GetUser,
             UserDeleted, UserDeletedUnanswered, DeleteUserFails, RequestFails,
             UserAppears, UserGoes, Goto
    <2>3. CASE UserDeleted(t) \/ UserDeletedUnanswered(t)
      BY <2>1, <2>3 DEF UserDeleted, UserDeletedUnanswered, DeleteUser, RemoveUser,
                        AccountInvariant, TypeOK
    <2>4. CASE DeleteUserFails(t)
      BY <2>4 DEF DeleteUserFails
    <2> QED BY <2>2, <2>3, <2>4
  <1> QED BY <1>1, AccountInvariantHolds, PTL DEF Spec, FederatedUsersStay
=============================================================================
