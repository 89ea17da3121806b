------------------------------ MODULE Accounts ------------------------------
(***************************************************************************)
(* auth/auth.go: accounts in table users, whose column username is not     *)
(* unique; tokens that name an account and are signed with the process's   *)
(* key (JWT); and sessions kept in Redis, which a use prolongs.            *)
(*                                                                         *)
(* The routes use the JWT functions only: sessions, and the changes of     *)
(* password and email, are operations the package offers and nothing in    *)
(* the repository calls yet.                                               *)
(*                                                                         *)
(* A user's ID is the position of the row.  Hours are left out: a session  *)
(* is "fresh" for four hours, then "old", and then gone, unless it is      *)
(* used; tokens are those that have not expired.                           *)
(***************************************************************************)
EXTENDS Naturals, Sequences

CONSTANTS
    Handlers,    \* goroutines that serve requests
    Names, Passwords,
    MaxRequests  \* bound: requests

VARIABLES
    users,     \* table users
    tokens,    \* the answers to logins: user, key and the home's ID
    sessions,  \* Redis session:<token>: the user, and how long it is good for
    request,   \* what each handler has still to do
    served,    \* counter for the bound
    opened,    \* sessions there have been
    ended,     \* history: those logged out
    overlapped, \* history: names registered twice at once
    cfg        \* the secrets of the process (EnvFile)

accounts == <<users, tokens, sessions, opened, ended, overlapped>>

Idle == [op |-> "none"]
Kinds == {"jwt", "session"}

Serve == served < MaxRequests /\ served' = served + 1
Does(h, r) == request' = [request EXCEPT ![h] = r]
Starts(h, r) == request[h] = Idle /\ Serve /\ Does(h, r)
Issuing(u, kind) == [op |-> "issue", user |-> u, kind |-> kind]

-----------------------------------------------------------------------------
(* Mutant: nobody looks whether the name is there.                         *)
CheckNameNever(h, n, p, kind) ==
    /\ Starts(h, [op |-> "register", name |-> n, password |-> p, kind |-> kind])
    /\ overlapped' = IF \E g \in Handlers : request[g].op = "register" /\ request[g].name = n
                     THEN overlapped \cup {n} ELSE overlapped
    /\ UNCHANGED <<users, tokens, sessions, opened, ended>>

(* createUser looks the name up; bcrypt takes a while before the INSERT.   *)
CheckName(h, n, p, kind) ==
    /\ \/ /\ \A u \in DOMAIN users : users[u].name # n
          /\ Starts(h, [op |-> "register", name |-> n, password |-> p, kind |-> kind])
       \/ /\ \E u \in DOMAIN users : users[u].name = n
          /\ Starts(h, Idle)
    /\ overlapped' = IF \E g \in Handlers : request[g].op = "register" /\ request[g].name = n
                     THEN overlapped \cup {n} ELSE overlapped
    /\ UNCHANGED <<users, tokens, sessions, opened, ended>>

InsertUser(h) ==
    /\ request[h].op = "register"
    /\ users' = Append(users, [name |-> request[h].name, password |-> request[h].password,
                               email |-> request[h].password])
    /\ Does(h, Issuing(Len(users) + 1, request[h].kind))
    /\ UNCHANGED <<tokens, sessions, opened, ended, overlapped, served>>

(* Mutant: a name that is not found logs in as user 0.                     *)
AuthenticateAnyway(h, n, p, kind) ==
    /\ \/ \E u \in DOMAIN users :
              /\ users[u].name = n
              /\ Starts(h, IF users[u].password = p THEN Issuing(u, kind) ELSE Idle)
       \/ (\A u \in DOMAIN users : users[u].name # n) /\ Starts(h, Issuing(0, kind))
    /\ UNCHANGED accounts

(* authenticateUser: of several rows with the name, any may come first.    *)
Authenticate(h, n, p, kind) ==
    /\ \/ \E u \in DOMAIN users :
              /\ users[u].name = n
              /\ Starts(h, IF users[u].password = p THEN Issuing(u, kind) ELSE Idle)
       \/ (\A u \in DOMAIN users : users[u].name # n) /\ Starts(h, Idle)
    /\ UNCHANGED accounts

(* generateJWT, and the answer with the home's ID (web/api/auth.go).       *)
IssueToken(h) ==
    /\ request[h].op = "issue" /\ request[h].kind = "jwt"
    /\ tokens' = tokens \cup {[user |-> request[h].user, key |-> cfg["JWT_SECRET"],
                               home |-> cfg["AGENT_ID"]]}
    /\ Does(h, Idle)
    /\ UNCHANGED <<users, sessions, opened, ended, overlapped, served>>

OpenSession(h) ==
    /\ request[h].op = "issue" /\ request[h].kind = "session"
    /\ opened' = opened + 1
    /\ sessions' = [t \in DOMAIN sessions \cup {opened'} |->
                       IF t = opened' THEN [user |-> request[h].user, ttl |-> "fresh"]
                       ELSE sessions[t]]
    /\ Does(h, Idle)
    /\ UNCHANGED <<users, tokens, ended, overlapped, served>>

(* ValidateTokenJWT.                                                       *)
ValidJWT(t) == t \in tokens /\ t.key = cfg["JWT_SECRET"]

-----------------------------------------------------------------------------
(* ValidateTokenSession: GET, TTL, and EXPIRE if the session is old; Redis *)
(* gives a key that is not there a negative TTL, and does not EXPIRE it.   *)

GetSession(h, t) ==
    /\ Starts(h, IF t \in DOMAIN sessions
                 THEN [op |-> "ttl", token |-> t, user |-> sessions[t].user] ELSE Idle)
    /\ UNCHANGED accounts

ReadTTL(h) ==
    /\ request[h].op = "ttl"
    /\ LET t == request[h].token
           fresh == t \in DOMAIN sessions /\ sessions[t].ttl = "fresh"
       IN  Does(h, IF fresh THEN Idle ELSE [request[h] EXCEPT !.op = "expire"])
    /\ UNCHANGED <<accounts, served>>

(* Mutant: the session is SET again, with a new TTL.                       *)
ProlongBySet(h) ==
    /\ request[h].op = "expire"
    /\ sessions' = [t \in DOMAIN sessions \cup {request[h].token} |->
                       IF t = request[h].token THEN [user |-> request[h].user, ttl |-> "fresh"]
                       ELSE sessions[t]]
    /\ Does(h, Idle)
    /\ UNCHANGED <<users, tokens, opened, ended, overlapped, served>>

Prolong(h) ==
    /\ request[h].op = "expire"
    /\ sessions' = [t \in DOMAIN sessions |->
                       IF t = request[h].token THEN [sessions[t] EXCEPT !.ttl = "fresh"]
                       ELSE sessions[t]]
    /\ Does(h, Idle)
    /\ UNCHANGED <<users, tokens, opened, ended, overlapped, served>>

Without(f, x) == [y \in DOMAIN f \ {x} |-> f[y]]

LogoutSession(h, t) ==
    /\ Starts(h, Idle)
    /\ sessions' = Without(sessions, t)
    /\ ended' = ended \cup {t}
    /\ UNCHANGED <<users, tokens, opened, overlapped>>

-----------------------------------------------------------------------------
(* ChangePassword and ChangeEmail: the old password is checked against the *)
(* row, and the row updated after that.                                    *)

CheckPassword(h, u, p, column, v) ==
    /\ Starts(h, IF users[u].password = p
                 THEN [op |-> "change", user |-> u, column |-> column, value |-> v] ELSE Idle)
    /\ UNCHANGED accounts

UpdateUser(h) ==
    /\ request[h].op = "change"
    /\ users' = [users EXCEPT ![request[h].user] =
                    IF request[h].column = "password" THEN [@ EXCEPT !.password = request[h].value]
                    ELSE [@ EXCEPT !.email = request[h].value]]
    /\ Does(h, Idle)
    /\ UNCHANGED <<tokens, sessions, opened, ended, overlapped, served>>

-----------------------------------------------------------------------------
(* Hours pass.                                                             *)

SessionAges(t) ==
    /\ sessions' = IF sessions[t].ttl = "fresh" THEN [sessions EXCEPT ![t].ttl = "old"]
                   ELSE Without(sessions, t)
    /\ UNCHANGED <<users, tokens, opened, ended, overlapped, request, served>>

-----------------------------------------------------------------------------
Handle(h) ==
    \/ \E n \in Names, p \in Passwords, kind \in Kinds :
          CheckName(h, n, p, kind) \/ Authenticate(h, n, p, kind)
    \/ InsertUser(h) \/ IssueToken(h) \/ OpenSession(h)
    \/ \E t \in 1 .. opened : GetSession(h, t) \/ LogoutSession(h, t)
    \/ ReadTTL(h) \/ Prolong(h)
    \/ \E u \in DOMAIN users, p, v \in Passwords, column \in {"password", "email"} :
          CheckPassword(h, u, p, column, v)
    \/ UpdateUser(h)

Time == \E t \in DOMAIN sessions : SessionAges(t)

-----------------------------------------------------------------------------
(* Properties.                                                             *)

(* A session that was logged out stays so: a validation that found it and  *)
(* prolongs it afterwards does not bring it back (auth.go:184-217).        *)
LoggedOutStaysOut == ended \cap DOMAIN sessions = {}

(* Two accounts have one name only if two registrations of the name ran at *)
(* the same time; the table would not refuse the second one, and logins    *)
(* could then find either (auth.go:40-65, schema.sql:149-154).             *)
OneAccountPerName ==
    \A u, v \in DOMAIN users : u # v /\ users[u].name = users[v].name
                                   => users[u].name \in overlapped

=============================================================================
