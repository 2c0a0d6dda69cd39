---------------------------- MODULE TeamIdentity ----------------------------
(***************************************************************************)
(* Local team identity: registerLocalDevUser, authenticateLocalDev and     *)
(* authorize of src/team/auth.ts, LocalIdentityProvider of                 *)
(* src/auth/index.ts and the permissions of src/auth/rbac.ts.              *)
(*                                                                         *)
(* Users and sessions are files of a storage provider, read one at a time. *)
(* A login looks for its user file by file, users are registered anew      *)
(* meanwhile, and time passes.                                             *)
(***************************************************************************)
EXTENDS Naturals, Sequences

CONSTANTS
  Callers,
  UserNames,    \* user names, in the order of their files
  Passwords,
  Roles,        \* of the four team roles, those of the instance
  Absent,
  Lifetime,     \* of a session
  MaxCalls, MaxTime

VARIABLES
  users,        \* the users' files, by name
  sessions,     \* the sessions' files, in the order they were stored
  calls,        \* what each caller's call is at, or Absent
  clock,
  begun         \* how many calls have begun

identityVars == <<users, sessions, calls, clock, begun>>

Usernames == {UserNames[i] : i \in DOMAIN UserNames}

Rank(role) == CASE role = "viewer" -> 1 [] role = "member" -> 2
                [] role = "admin" -> 3 [] role = "owner" -> 4

\* mapTeamRoleToRbac, with the rank of the role it maps to, and what PERMISSION_MIN_ROLE
\* and RBAC_ROLE_RANK ask for.
RbacRank(role) == CASE role \in {"owner", "admin"} -> 5 [] role = "member" -> 2
                    [] role = "viewer" -> 1

RankFor == [readFindings |-> 1, readAudit |-> 1, exportReports |-> 2, approveActions |-> 3,
            managePolicies |-> 4, adminSettings |-> 5]
Permissions(role) == {p \in DOMAIN RankFor : RbacRank(role) >= RankFor[p]}

IdentityInit ==
  /\ users = [n \in Usernames |-> Absent]
  /\ sessions = <<>>
  /\ calls = [c \in Callers |-> Absent]
  /\ clock = 0
  /\ begun = 0

At(c, step) == calls[c] # Absent /\ calls[c].at = step

\* The user's role changed, or its password did, under the calls of the others (history).
Changed(n) ==
  [c \in Callers |-> IF calls[c] = Absent THEN Absent ELSE [calls[c] EXCEPT !.changed = @ \cup {n}]]

\* register: a name that is taken is registered over.
Register ==
  /\ begun < MaxCalls /\ begun' = begun + 1
  /\ \E n \in Usernames, p \in Passwords, r \in Roles :
       /\ users' = [users EXCEPT ![n] = [name |-> n, password |-> p, role |-> r]]
       /\ calls' = Changed(n)
  /\ UNCHANGED <<sessions, clock>>

Begin(c, call) ==
  /\ calls[c] = Absent /\ begun < MaxCalls
  /\ begun' = begun + 1
  /\ calls' = [calls EXCEPT ![c] = call]
  /\ UNCHANGED <<users, sessions, clock>>

\* login
BeginLogin(c) ==
  \E n \in Usernames, p \in Passwords :
    Begin(c, [at |-> "search", name |-> n, password |-> p, next |-> 1, since |-> clock,
              changed |-> {}])

\* authorizeSession and, for a viewer's role, resolveIdentity.
BeginAuthorize(c) ==
  \E s \in DOMAIN sessions, r \in Roles :
    Begin(c, [at |-> "session", session |-> s, role |-> r, since |-> clock, changed |-> {},
              ok |-> FALSE, user |-> Absent])

IsUser(user, call) == user.name = call.name

\* One file of the list: another user's is passed over; a wrong password ends the login,
\* as the end of the list does.
Search(c) ==
  LET call == calls[c] user == users[UserNames[call.next]] last == call.next = Len(UserNames) IN
  /\ At(c, "search")
  /\ calls' = [calls EXCEPT ![c] =
       IF user # Absent /\ IsUser(user, call)
       THEN IF user.password = call.password
            THEN [at |-> "grant", name |-> call.name, user |-> user.name, until |-> clock + Lifetime,
                  since |-> call.since, changed |-> call.changed]
            ELSE Absent
       ELSE IF last THEN Absent ELSE [call EXCEPT !.next = @ + 1]]
  /\ UNCHANGED <<users, sessions, clock, begun>>

\* The session is stored; earned (history) tells for whom it was asked.
Grant(c) ==
  /\ At(c, "grant")
  /\ sessions' = Append(sessions, [user |-> calls[c].user, until |-> calls[c].until,
                                   earned |-> calls[c].name])
  /\ calls' = [calls EXCEPT ![c] = Absent]
  /\ UNCHANGED <<users, clock, begun>>

Expired(session) == session.until < clock

\* authorize reads the session ...
ReadSession(c) ==
  LET session == sessions[calls[c].session] IN
  /\ At(c, "session")
  /\ calls' = [calls EXCEPT ![c].at = IF Expired(session) THEN "answer" ELSE "user",
                            ![c].changed = {}]
  /\ UNCHANGED <<users, sessions, clock, begun>>

\* ... and the user as registered now.
ReadUser(c) ==
  LET user == users[sessions[calls[c].session].user] IN
  /\ At(c, "user")
  /\ calls' = [calls EXCEPT ![c].at = "answer", ![c].changed = {},
       ![c].ok = user # Absent /\ Rank(user.role) >= Rank(calls[c].role), ![c].user = user]
  /\ UNCHANGED <<users, sessions, clock, begun>>

Answer(c) ==
  /\ At(c, "answer")
  /\ calls' = [calls EXCEPT ![c] = Absent]
  /\ UNCHANGED <<users, sessions, clock, begun>>

Tick ==
  /\ clock < MaxTime /\ clock' = clock + 1
  /\ UNCHANGED <<users, sessions, calls, begun>>

IdentityNext ==
  \/ \E c \in Callers :
       \/ BeginLogin(c) \/ BeginAuthorize(c) \/ Search(c) \/ Grant(c)
       \/ ReadSession(c) \/ ReadUser(c) \/ Answer(c)
  \/ Register \/ Tick

IdentitySpec == IdentityInit /\ [][IdentityNext]_identityVars

---------------------------------------------------------------------------
\* Whoever registers meanwhile, a session is for the user that the login named.
SessionsAreEarned == \A s \in DOMAIN sessions : sessions[s].user = sessions[s].earned

\* An authorized answer is about a session that had not ended when the call began, and
\* permits what the user's role permits now, not what it did at the login, and all of
\* what the role asked for does, unless the user was registered anew since it was read.
AuthorizedIsCurrent ==
  \A c \in Callers : At(c, "answer") /\ calls[c].ok =>
    LET session == sessions[calls[c].session] IN
    /\ session.until >= calls[c].since
    /\ session.user \in calls[c].changed
       \/ /\ Rank(users[session.user].role) >= Rank(calls[c].role)
          /\ Permissions(calls[c].role) \subseteq Permissions(calls[c].user.role)
          /\ Permissions(calls[c].user.role) = Permissions(users[session.user].role)
=============================================================================
