------------------------ MODULE AccountProvisioning ------------------------
(***************************************************************************)
(* CreateAccount and Delete of an account (users.go).                      *)
(*                                                                         *)
(* CreateAccount creates a user in Teleport and then asks for the link     *)
(* with which its owner sets a password; Delete reads the user, refuses    *)
(* one that comes from an identity provider, and deletes it by name.       *)
(* Either is two requests with nothing around them: the second may fail    *)
(* when the first took effect, and the user may be another by then.        *)
(* Several tasks run at once, and each runs once: the SDK does not repeat  *)
(* one that failed, so a retry is a task of its own.                       *)
(*                                                                         *)
(* The user a task creates has the cleaned name of the account, and names  *)
(* that differ may become equal, or empty.  An account without a name ends *)
(* the task before any request, and is left out.                           *)
(***************************************************************************)
EXTENDS Naturals

CONSTANTS
    Name,           \* names of accounts and of Teleport's users
    NoName,         \* the empty name
    CleanName,      \* cleanResourceName: a function on Name
    Task,
    BirthBound      \* bound: Teleport itself adds no user after so many

ASSUME NameAssumption ==
    /\ Name # {} /\ NoName \notin Name
    /\ CleanName \in [Name -> Name \cup {NoName}]
    /\ BirthBound \in Nat

\* A user, with a number no other user ever has.
Nobody == [type |-> "none", id |-> 0]
Account == [type : {"local", "federated"}, id : Nat \ {0}] \cup {Nobody}
Request == [op : {"create", "delete"}, name : Name]

VARIABLES
    account,    \* Teleport: the user of each name
    births,     \* Teleport: how many users there have been
    request,    \* what each task was asked for
    pc,         \* where each task is, or what it answered
    known,      \* history: the user a task created, or read before deleting
    link,       \* ConductorOne: the user whose password the link sets, 0 if none
    disturbed   \* history: tasks whose user went away between their requests

vars == <<account, births, request, pc, known, link, disturbed>>

Init ==
    /\ account = [n \in Name |-> Nobody]
    /\ births = 0
    /\ request = [t \in Task |-> CHOOSE q \in Request : TRUE]
    /\ pc = [t \in Task |-> "new"]
    /\ known = [t \in Task |-> 0]
    /\ link = [t \in Task |-> 0]
    /\ disturbed = {}

UserName(q) == IF q.op = "create" THEN CleanName[q.name] ELSE q.name

Goto(t, from, to) == pc[t] = from /\ pc' = [pc EXCEPT ![t] = to]

\* The tasks that have made one of their requests for the user named n.
BetweenRequests(n) ==
    {t \in Task : pc[t] \in {"creating", "deleting"} /\ UserName(request[t]) = n}

AddUser(n, type) ==
    /\ account[n] = Nobody
    /\ births' = births + 1
    /\ account' = [account EXCEPT ![n] = [type |-> type, id |-> births + 1]]

\* Mistake: the user is marked, not removed.
RemoveUserMarking(n) ==
    /\ account[n] # Nobody
    /\ account' = [account EXCEPT ![n].type = "none"]
    /\ disturbed' = disturbed \cup BetweenRequests(n)

RemoveUser(n) ==
    /\ account[n] # Nobody
    /\ account' = [account EXCEPT ![n] = Nobody]
    /\ disturbed' = disturbed \cup BetweenRequests(n)
-----------------------------------------------------------------------------
(* CreateAccount. *)

\* Mistake: a user that exists already is as good as a new one.
CreateUserOrAdopt(t, q) ==
    LET n == UserName(q)
    IN  /\ q.op = "create" /\ n # NoName
        /\ IF account[n] = Nobody
           THEN AddUser(n, "local") /\ known' = [known EXCEPT ![t] = births + 1]
           ELSE /\ known' = [known EXCEPT ![t] = account[n].id]
                /\ UNCHANGED <<account, births>>
        /\ request' = [request EXCEPT ![t] = q]
        /\ UNCHANGED <<link, disturbed>>

\* CreateUser takes effect.  Teleport refuses a name that is taken or empty.
CreateUser(t, q) ==
    LET n == UserName(q)
    IN  /\ q.op = "create" /\ n # NoName
        /\ AddUser(n, "local")
        /\ known' = [known EXCEPT ![t] = births + 1]
        /\ request' = [request EXCEPT ![t] = q]
        /\ UNCHANGED <<link, disturbed>>

\* CreateUser answers, or its answer does not arrive and the task fails.
UserCreated(t, q) == Goto(t, "new", "creating") /\ CreateUser(t, q)
UserCreatedUnanswered(t, q) == Goto(t, "new", "failed") /\ CreateUser(t, q)

\* Mistake: the link is for the name as it was given.
CreateResetPasswordTokenUncleaned(t) ==
    LET n == request[t].name
    IN  /\ Goto(t, "creating", "created")
        /\ account[n] # Nobody
        /\ link' = [link EXCEPT ![t] = account[n].id]
        /\ UNCHANGED <<account, births, request, known, disturbed>>

\* The link is for the user that has the name now.
CreateResetPasswordToken(t) ==
    LET n == UserName(request[t])
    IN  /\ Goto(t, "creating", "created")
        /\ account[n] # Nobody
        /\ link' = [link EXCEPT ![t] = account[n].id]
        /\ UNCHANGED <<account, births, request, known, disturbed>>

\* The request fails, or the link does not reach ConductorOne.  The user
\* stays.
CreateResetPasswordTokenFails(t) ==
    /\ Goto(t, "creating", "failed")
    /\ UNCHANGED <<account, births, request, known, link, disturbed>>
-----------------------------------------------------------------------------
(* Delete. *)

\* Mistake: the type of the user is not looked at.
GetAnyUser(t, q) ==
    /\ Goto(t, "new", "deleting")
    /\ q.op = "delete" /\ account[q.name] # Nobody
    /\ known' = [known EXCEPT ![t] = account[q.name].id]
    /\ request' = [request EXCEPT ![t] = q]
    /\ UNCHANGED <<account, births, link, disturbed>>

\* GetUser finds a local user.
GetUser(t, q) ==
    /\ Goto(t, "new", "deleting")
    /\ q.op = "delete" /\ account[q.name].type = "local"
    /\ known' = [known EXCEPT ![t] = account[q.name].id]
    /\ request' = [request EXCEPT ![t] = q]
    /\ UNCHANGED <<account, births, link, disturbed>>

DeleteUser(t) ==
    /\ RemoveUser(UserName(request[t]))
    /\ UNCHANGED <<births, request, known, link>>

\* DeleteUser answers, or its answer does not arrive and the task fails.
UserDeleted(t) == Goto(t, "deleting", "deleted") /\ DeleteUser(t)
UserDeletedUnanswered(t) == Goto(t, "deleting", "failed") /\ DeleteUser(t)

\* Mistake: the error is not returned.
DeleteUserFailsUnnoticed(t) ==
    /\ Goto(t, "deleting", "deleted")
    /\ UNCHANGED <<account, births, request, known, link, disturbed>>

DeleteUserFails(t) ==
    /\ Goto(t, "deleting", "failed")
    /\ UNCHANGED <<account, births, request, known, link, disturbed>>
-----------------------------------------------------------------------------
\* The first request of a task is refused or fails, or Delete finds a
\* federated user.
RequestFails(t, q) ==
    /\ Goto(t, "new", "failed")
    /\ request' = [request EXCEPT ![t] = q]
    /\ UNCHANGED <<account, births, known, link, disturbed>>

\* An administrator adds a user, or someone logs in with single sign-on.
UserAppears(n, type) ==
    /\ births < BirthBound
    /\ AddUser(n, type)
    /\ UNCHANGED <<request, pc, known, link, disturbed>>

\* An administrator removes a user, or a federated one expires.
UserGoes(n) ==
    /\ RemoveUser(n)
    /\ UNCHANGED <<births, request, pc, known, link>>

Next ==
    \/ \E t \in Task, q \in Request : UserCreated(t, q)
    \/ \E t \in Task, q \in Request : UserCreatedUnanswered(t, q)
    \/ \E t \in Task : CreateResetPasswordToken(t)
    \/ \E t \in Task : CreateResetPasswordTokenFails(t)
    \/ \E t \in Task, q \in Request : GetUser(t, q)
    \/ \E t \in Task : UserDeleted(t)
    \/ \E t \in Task : UserDeletedUnanswered(t)
    \/ \E t \in Task : DeleteUserFails(t)
    \/ \E t \in Task, q \in Request : RequestFails(t, q)
    \/ \E n \in Name, type \in {"local", "federated"} : UserAppears(n, type)
    \/ \E n \in Name : UserGoes(n)

Spec == Init /\ [][Next]_vars
-----------------------------------------------------------------------------
TypeOK ==
    /\ account \in [Name -> Account]
    /\ births \in Nat
    /\ request \in [Task -> Request]
    /\ pc \in [Task -> {"new", "creating", "deleting", "created", "deleted", "failed"}]
    /\ known \in [Task -> Nat]
    /\ link \in [Task -> Nat]
    /\ disturbed \subseteq Task

Created(t) == known[t] # 0 /\ request[t].op = "create"

\* Whoever was given a link sets the password of the user the task created,
\* not of one that had the name before or that an equal name belongs to,
\* unless the user was removed between the two requests.
LinkOpensOwnAccount ==
    \A t \in Task \ disturbed :
        pc[t] = "created" => link[t] = known[t] /\ Created(t)

\* No two tasks count the same user as created, and as long as nobody removes
\* users no two links open the same one: a retry of a creation that failed
\* half way is never answered with the user of the first.
AccountsAreNotShared ==
    \A s, t \in Task :
        /\ s # t /\ Created(s) /\ Created(t) => known[s] # known[t]
        /\ s # t /\ link[s] = link[t] /\ link[s] # 0 => {s, t} \cap disturbed # {}

\* A user whose deletion was reported is gone, also when another has its name
\* by now.
DeletedAccountsAreGone ==
    \A t \in Task, n \in Name : pc[t] = "deleted" => account[n].id # known[t]

\* A task deletes no federated user, unless one took the place of the local
\* user it had read.
FederatedUsersStay ==
    [][\A t \in Task, n \in Name :
          pc[t] = "deleting" /\ pc'[t] # "deleting" /\ account[n].type = "federated" =>
              account'[n] = account[n] \/ t \in disturbed]_vars

\* Why.  Users are numbered,
NumberedOnce ==
    /\ \A n \in Name : account[n].id <= births
    /\ \A m, n \in Name : account[m].id = account[n].id /\ account[m] # Nobody => m = n

\* and what a task knows is a user of the name it was asked for: between its
\* requests the one that has the name, unless the task was disturbed.
KnownUser(t) ==
    /\ known[t] <= births
    /\ pc[t] = "new" => known[t] = 0
    /\ pc[t] \in {"creating", "created"} => Created(t)
    /\ pc[t] \in {"deleting", "deleted"} => request[t].op = "delete" /\ known[t] # 0
    /\ pc[t] # "created" => link[t] = 0
    /\ \A n \in Name :
          known[t] # 0 /\ account[n].id = known[t] => n = UserName(request[t])
    /\ pc[t] \in {"creating", "deleting"} =>
          /\ known[t] # 0
          /\ UserName(request[t]) \in Name
          /\ t \in disturbed \/ /\ account[UserName(request[t])].id = known[t]
                                /\ account[UserName(request[t])].type = "local"

\* The inductive invariant of creation and deletion.
AccountInvariant ==
    /\ TypeOK
    /\ NumberedOnce
    /\ \A t \in Task : KnownUser(t)
    /\ LinkOpensOwnAccount
    /\ AccountsAreNotShared
    /\ DeletedAccountsAreGone
=============================================================================
