------------------------------- MODULE Accounts -------------------------------
(***************************************************************************)
(* Users and their sessions (src/management/user.go, auth.go) and the      *)
(* requests that log in, are authenticated and log out.                    *)
(*                                                                         *)
(* An update of the store is one step (AtomicStore).  A session is named   *)
(* by its CreatedAt, which is taken before the update that stores it; all  *)
(* sessions live equally long, so those up to a horizon have expired.      *)
(* Roles, and what they may do, are left out; a password is a value.       *)
(***************************************************************************)
EXTENDS Naturals, FiniteSets

CONSTANTS UserIds, Usernames, Passwords, Clients,
          MaxSessions,    \* sessions kept
          MaxLogins,      \* bounds the sessions ever opened
          None

VARIABLES users, sessions,
          clock,          \* CreatedAt of the last session
          horizon,        \* sessions opened up to here have expired
          client          \* per client: a request under way

accountVars == <<users, sessions, clock, horizon, client>>

Has(f) == {x \in DOMAIN f : f[x] # None}
User == [name : Usernames, password : Passwords, enabled : BOOLEAN]
Session == [at : 1..MaxLogins, user : UserIds]
Idle == [at |-> "idle"]

TypeOK ==
  /\ users \in [UserIds -> User \cup {None}]
  /\ sessions \subseteq Session
  /\ clock \in 0..MaxLogins /\ horizon \in 0..clock
  /\ \A c \in Clients :
       \/ client[c] = Idle
       \/ client[c].at = "verified" /\ client[c].user \in UserIds
       \/ client[c].at \in {"opened", "expired"} /\ client[c].session \in Session

Init == /\ users = [u \in UserIds |-> None] /\ sessions = {} /\ clock = 0 /\ horizon = 0
        /\ client = [c \in Clients |-> Idle]

-----------------------------------------------------------------------------
(* Users *)

Named(n, u) == \E o \in Has(users) \ {u} : users[o].name = n
SetUser(u, r) == users' = [users EXCEPT ![u] = r] /\ UNCHANGED <<sessions, clock, horizon, client>>

CreateUser == \E u \in UserIds \ Has(users), r \in User : ~Named(r.name, u) /\ SetUser(u, r)
\* Mutant of UpdateUser.
UpdateUser_Unchecked == \E u \in Has(users), n \in Usernames, e \in BOOLEAN :
  SetUser(u, [users[u] EXCEPT !.name = n, !.enabled = e])
\* Update leaves the password alone,
UpdateUser == \E u \in Has(users), n \in Usernames, e \in BOOLEAN :
  ~Named(n, u) /\ SetUser(u, [users[u] EXCEPT !.name = n, !.enabled = e])
SetPassword == \E u \in Has(users), p \in Passwords : SetUser(u, [users[u] EXCEPT !.password = p])
SetEnabled == \E u \in Has(users), e \in BOOLEAN : SetUser(u, [users[u] EXCEPT !.enabled = e])
\* and Delete the sessions, whose user is looked up again on every request.
DeleteUser == \E u \in Has(users) : SetUser(u, None)

handleUser == CreateUser \/ UpdateUser \/ SetPassword \/ SetEnabled \/ DeleteUser

-----------------------------------------------------------------------------
(* Sessions *)

Step(c, r) == client' = [client EXCEPT ![c] = r]

\* Login looks the user up and verifies the password,
Verify(c) == \E u \in Has(users), n \in Usernames, p \in Passwords :
  /\ client[c] = Idle
  /\ users[u] = [name |-> n, password |-> p, enabled |-> TRUE]
  /\ Step(c, [at |-> "verified", user |-> u])
  /\ UNCHANGED <<users, sessions, clock, horizon>>

\* stamps the new session,
Open(c) ==
  /\ client[c].at = "verified" /\ clock < MaxLogins
  /\ clock' = clock + 1
  /\ Step(c, [at |-> "opened", session |-> [at |-> clock + 1, user |-> client[c].user]])
  /\ UNCHANGED <<users, sessions, horizon>>

\* and stores it; evict keeps the newest MaxSessions.
\* Mutant of Evict.
Evict_Newest(S) == {s \in S : Cardinality({n \in S : n.at < s.at}) < MaxSessions}
Evict(S) == {s \in S : Cardinality({n \in S : n.at > s.at}) < MaxSessions}
StoreSession(c) ==
  /\ client[c].at = "opened"
  /\ sessions' = Evict(sessions \cup {client[c].session})
  /\ Step(c, Idle)
  /\ UNCHANGED <<users, clock, horizon>>
StoreFails(c) ==
  /\ client[c].at = "opened"
  /\ Step(c, Idle)
  /\ UNCHANGED <<users, sessions, clock, horizon>>

\* sessionExpired.
\* Mutant of Expired.
Expired_Early(s) == s.at <= horizon + 1
Expired(s) == s.at <= horizon

Time == /\ horizon < clock
        /\ horizon' = horizon + 1
        /\ UNCHANGED <<users, sessions, clock, client>>

\* Validate looks at the session: a live one authenticates its user, if
\* there still is one; an expired one is removed by a second update.
Validate(c) == \E s \in sessions :
  /\ client[c] = Idle
  /\ Expired(s)
  /\ Step(c, [at |-> "expired", session |-> s])
  /\ UNCHANGED <<users, sessions, clock, horizon>>
Drop(c) ==
  /\ client[c].at = "expired"
  /\ sessions' = {s \in sessions : s.at # client[c].session.at}
  /\ Step(c, Idle)
  /\ UNCHANGED <<users, clock, horizon>>

Logout(s) == s \in sessions /\ sessions' = sessions \ {s} /\ UNCHANGED <<users, clock, horizon, client>>

\* PurgeExpired, an operation of the service nothing calls.
PurgeExpired == /\ \E s \in sessions : Expired(s)
                /\ sessions' = {s \in sessions : ~Expired(s)}
                /\ UNCHANGED <<users, clock, horizon, client>>

handleAuthLogin(c) == Verify(c) \/ Open(c) \/ StoreSession(c) \/ StoreFails(c)
handleAuthMe(c) == Validate(c) \/ Drop(c)
handleAuthLogout == \E s \in sessions : Logout(s)
Sessions == \/ \E c \in Clients : handleAuthLogin(c) \/ handleAuthMe(c)
            \/ handleAuthLogout
            \/ PurgeExpired \/ Time

Next == handleUser \/ Sessions

Spec == Init /\ [][Next]_accountVars

-----------------------------------------------------------------------------
(* Properties *)

\* Usernames stay unique, whatever creates and renames come together, and no
\* more sessions are kept than allowed.
AccountsConsistent ==
  /\ \A u \in Has(users) : ~Named(users[u].name, u)
  /\ Cardinality(sessions) <= MaxSessions

\* In a step of this service a session ends by its own logout or at its
\* expiry, or gives way to newer ones when there are too many: no purge, no
\* check of another token and no login ends a session before its time
\* (Validate, evict).
SessionsKept == \A s \in sessions \ sessions' :
  \/ s.at <= horizon
  \/ Logout(s)
  \/ /\ Cardinality(sessions) = MaxSessions
     /\ \E n \in sessions' \ sessions : \A o \in sessions' : o.at > s.at

\* A login that is answered with a session leaves it open, unless as many
\* newer ones as are kept overtook it on the way to the store.
LoginOpens == [][\A c \in Clients : StoreSession(c) =>
  \/ client[c].session \in sessions'
  \/ Cardinality({n \in sessions : n.at > client[c].session.at}) >= MaxSessions]_accountVars
=============================================================================
