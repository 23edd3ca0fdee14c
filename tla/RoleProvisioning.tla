-------------------------- MODULE RoleProvisioning --------------------------
(***************************************************************************)
(* Grant and Revoke of a role membership (roles.go).                       *)
(*                                                                         *)
(* Either reads the user from Teleport, changes the copy, and writes the   *)
(* whole user back.  The SDK runs several tasks at once in one process,    *)
(* and nothing in the connector orders two tasks on one user; UpdateUser,  *)
(* as the client library describes it, "updates an existing user in a      *)
(* backend", without the condition on the revision that other services     *)
(* announce.  So a write replaces whatever happened since the read.  It    *)
(* may also take effect long after the task that made it gave up waiting.  *)
(***************************************************************************)
EXTENDS FiniteSets

CONSTANTS
    User, Role,
    Login,      \* the values of a user's logins trait; a user's name is one
    Task        \* the tasks that may be in progress at once

ASSUME UserAssumption == User \subseteq Login /\ User # {} /\ Role # {}

Account == [roles : SUBSET Role, logins : SUBSET Login]
Request == [op : {"grant", "revoke"}, user : User, role : Role]

VARIABLES
    account,    \* Teleport: the roles and logins of each user
    request,    \* what each task does; kept after it ended
    reading,    \* the tasks between their GetUser and the effect of their UpdateUser
    unanswered, \* those that failed, without an answer of UpdateUser
    copy,       \* the user as each task read it
    answered,   \* ConductorOne: what the last answer said of each membership
    clean       \* history: users no write of whom fell between a read and its write

vars == <<account, request, reading, unanswered, copy, answered, clean>>

Init ==
    /\ account \in [User -> {a \in Account : a.logins = {}}]
    /\ request = [t \in Task |-> CHOOSE r \in Request : TRUE]
    /\ reading = {}
    /\ unanswered = {}
    /\ copy = [t \in Task |-> [roles |-> {}, logins |-> {}]]
    /\ answered = [u \in User |-> [r \in Role |-> "unknown"]]
    /\ clean = User
-----------------------------------------------------------------------------
\* The users other tasks have read and not yet written.
ReadByOthers(t) == {request[s].user : s \in reading \ {t}}

\* GetUser answers.  (If it fails, the task ends and nothing changed.)
ReadUser(t, q) ==
    /\ t \notin reading
    /\ reading' = reading \cup {t}
    /\ request' = [request EXCEPT ![t] = q]
    /\ copy' = [copy EXCEPT ![t] = account[q.user]]
    /\ UNCHANGED <<account, unanswered, answered, clean>>

\* Three mistakes the change could contain; the README says which property
\* rejects each.
ChangedToTheOpposite(q, a) ==       \* Revoke filters with == instead of !=
    [roles |-> IF q.op = "grant" THEN a.roles \cup {q.role} ELSE a.roles \cap {q.role},
     logins |-> a.logins \cup {q.user}]
ChangedWithOneLogin(q, a) ==        \* sets the login instead of appending it
    [roles |-> IF q.op = "grant" THEN a.roles \cup {q.role} ELSE a.roles \ {q.role},
     logins |-> {q.user}]
ChangedRolesOnly(q, a) ==           \* builds a user without traits
    [roles |-> IF q.op = "grant" THEN a.roles \cup {q.role} ELSE a.roles \ {q.role}]

\* The copy a task writes back.  Revoke, too, adds the user's name to the
\* logins.
Changed(q, a) ==
    [roles |-> IF q.op = "grant" THEN a.roles \cup {q.role} ELSE a.roles \ {q.role},
     logins |-> a.logins \cup {q.user}]

WriteUser(t) ==
    LET q == request[t]
    IN  /\ t \in reading
        /\ account' = [account EXCEPT ![q.user] = Changed(q, copy[t])]
        /\ reading' = reading \ {t}
        /\ unanswered' = unanswered \ {t}
        /\ clean' = clean \ ({q.user} \cap ReadByOthers(t))
        /\ UNCHANGED <<request, copy>>

Answer(t, what) ==
    answered' = [answered EXCEPT ![request[t].user][request[t].role] = what]

\* UpdateUser succeeds, and the task.
UpdateUser(t) ==
    /\ t \notin unanswered
    /\ WriteUser(t)
    /\ Answer(t, IF request[t].op = "grant" THEN "member" ELSE "not a member")

\* No answer of UpdateUser arrives, and the task fails.
UpdateUserTimesOut(t) ==
    /\ t \in reading \ unanswered
    /\ unanswered' = unanswered \cup {t}
    /\ Answer(t, "unknown")
    /\ UNCHANGED <<account, request, reading, copy, clean>>

\* UpdateUser takes effect after all.
UpdateUserUnanswered(t) ==
    /\ t \in unanswered
    /\ WriteUser(t)
    /\ UNCHANGED answered

\* UpdateUser is refused, and the task fails, or it never arrives: nothing changed.
UpdateUserRefused(t) ==
    /\ t \in reading
    /\ reading' = reading \ {t}
    /\ unanswered' = unanswered \ {t}
    /\ UNCHANGED <<account, request, copy, answered, clean>>

\* Someone edits the user in Teleport.
EditUser(u, a) ==
    /\ a # account[u]
    /\ account' = [account EXCEPT ![u] = a]
    /\ answered' = [answered EXCEPT ![u] =
          [r \in Role |-> IF (r \in a.roles) = (r \in account[u].roles)
                          THEN answered[u][r] ELSE "unknown"]]
    /\ clean' = IF \E t \in reading : request[t].user = u THEN clean \ {u} ELSE clean
    /\ UNCHANGED <<request, reading, unanswered, copy>>

Next ==
    \/ \E t \in Task, q \in Request : ReadUser(t, q)
    \/ \E t \in Task : UpdateUser(t)
    \/ \E t \in Task : UpdateUserTimesOut(t)
    \/ \E t \in Task : UpdateUserUnanswered(t)
    \/ \E t \in Task : UpdateUserRefused(t)
    \/ \E u \in User, a \in Account : EditUser(u, a)

Spec == Init /\ [][Next]_vars
-----------------------------------------------------------------------------
TypeOK ==
    /\ account \in [User -> Account]
    /\ request \in [Task -> Request]
    /\ reading \subseteq Task
    /\ unanswered \subseteq reading
    /\ copy \in [Task -> Account]
    /\ answered \in [User -> [Role -> {"unknown", "member", "not a member"}]]
    /\ clean \subseteq User

\* The answers about the memberships of u are right.
AnswersHold(u) ==
    \A r \in Role :
        /\ answered[u][r] = "member" => r \in account[u].roles
        /\ answered[u][r] = "not a member" => r \notin account[u].roles

\* What a task answered stays true, through retries, failures, tasks on
\* other users, edits of other roles and writes that take effect late, as
\* long as no write of the user fell between the read and the write of another.
CleanAnswersHold == \A u \in clean : AnswersHold(u)

\* What makes it inductive: the copy of a clean user is the user, and while a
\* write of it may still take effect, nothing is answered of what it will change.
CopiesAreCurrent ==
    \A t \in reading : request[t].user \in clean => copy[t] = account[request[t].user]
LateWritesAreOpen ==
    \A t \in unanswered :
        request[t].user \in clean => answered[request[t].user][request[t].role] = "unknown"

\* The inductive invariant behind the answers and the untouched memberships:
\* the copy a task is about to write back is what Teleport holds, and no answer
\* speaks of what a late write will change, as long as nobody wrote the user since
\* the read.
ProvisioningInvariant ==
    TypeOK /\ CopiesAreCurrent /\ LateWritesAreOpen /\ CleanAnswersHold

\* A task on a user nobody else was changing leaves the other memberships
\* and logins of that user, and all other users, as they are.
OnlyTheRequestChanges ==
    [][\A t \in reading \ reading' :
          LET q == request[t]
          IN  /\ \A u \in User \ {q.user} : account'[u] = account[u]
              /\ q.user \in clean =>
                    /\ \A r \in Role \ {q.role} :
                          r \in account[q.user].roles <=> r \in account'[q.user].roles
                    /\ account[q.user].logins \subseteq account'[q.user].logins]_vars

\* roles.go, after the write: "Role Membership has been created.", "Role
\* Membership has been revoked.", said of every task that succeeds.
AllAnswersHold == \A u \in User : AnswersHold(u)
=============================================================================
