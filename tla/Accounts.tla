------------------------------ MODULE Accounts ------------------------------
(***************************************************************************)
(* executor/api/auth.py, auth_routes.py and the bootstrap of main.py:      *)
(* accounts, tokens and their revocation.  A request is a coroutine with a *)
(* session of its own; a step ends where it awaits the database, whose     *)
(* transactions read what is committed.                                    *)
(*                                                                         *)
(* call[c].at, the next await of the request of c:                         *)
(*   "lookup"   the account of an email     "check"  is the token revoked  *)
(*   "count"    is there any account        "owner"  the account of a token*)
(*   "insert"   commit a new account        "again"  revoke_token's check  *)
(*   "issue"    return tokens               "revoke" commit a revocation   *)
(*   "users"    all accounts                                               *)
(***************************************************************************)
EXTENDS Naturals

CONSTANTS
  Clients,         \* who sends requests; a starting process is one, too
  Emails,          \* emails as they are sent
  Normal,          \* Normal[e]: e.strip().lower()
  Passwords,
  RequestedRoles,  \* what register is asked for, or None
  None,
  BootstrapEmail,  \* BOOTSTRAP_ADMIN_EMAIL, normal
  Faults,          \* the database may fail
  MaxRequests

Roles == {"admin", "user", "viewer"}
NormalEmails == {Normal[e] : e \in Emails} \cup {BootstrapEmail}

ASSUME InputsAssumption == DOMAIN Normal = Emails /\ Passwords # {}
ASSUME BoundsAssumption == MaxRequests \in Nat /\ Faults \in BOOLEAN

VARIABLES
  users,    \* rows of the table users
  revoked,  \* the jti of the rows of revoked_tokens
  tokens,   \* tokens that were given out
  expired,  \* the jti of those that have expired
  serial,   \* the ids and jti used so far; they are uuids
  call,     \* the request of each client
  requests  \* how many there were

vars == <<users, revoked, tokens, expired, serial, call, requests>>

User == [id : Nat, email : NormalEmails, role : Roles, password : Passwords,
         late : BOOLEAN]
Token == [jti : Nat, sub : Nat, type : {"access", "refresh"}]

\* Of a request: what it is for, the email, password and role it carries, or
\* the token.  stale: the token was revoked when it began; late: there was an
\* account when it began.  owner is the account it has read.
Kinds == {"register", "login", "refresh", "logout", "me", "users", "bootstrap"}
Steps == {"lookup", "count", "insert", "issue", "check", "owner", "again",
          "revoke", "users"}
Call == [kind : Kinds, at : Steps \cup {"answered"}, email : NormalEmails,
         password : Passwords, role : Roles \cup RequestedRoles \cup {None},
         token : Token, stale : BOOLEAN, late : BOOLEAN, owner : Nat, answer : Nat]
Idle == [at |-> "idle"]

TypeOK ==
  /\ users \subseteq User
  /\ revoked \subseteq Nat
  /\ tokens \subseteq Token
  /\ expired \subseteq Nat
  /\ serial \in Nat
  /\ call \in [Clients -> Call \cup {Idle}]
  /\ requests \in 0..MaxRequests

Init ==
  /\ users = {}
  /\ revoked = {}
  /\ tokens = {}
  /\ expired = {}
  /\ serial = 0
  /\ call = [c \in Clients |-> Idle]
  /\ requests = 0

(***************************************************************************)
(* Requests                                                                *)
(***************************************************************************)

NoToken == [jti |-> 0, sub |-> 0, type |-> "access"]

\* A request begins when its client has no other under way.
Begin(c, kind, at, email, password, role, token) ==
  /\ call[c].at \in {"idle", "answered"}
  /\ requests < MaxRequests
  /\ requests' = requests + 1
  /\ call' = [call EXCEPT ![c] =
       [kind |-> kind, at |-> at, email |-> email, password |-> password,
        role |-> role, token |-> token, stale |-> token.jti \in revoked,
        late |-> users # {}, owner |-> 0, answer |-> 0]]
  /\ UNCHANGED <<users, revoked, tokens, expired, serial>>

SomePassword == CHOOSE p \in Passwords : TRUE

BeginRegister(c) ==
  \E e \in Emails, p \in Passwords, r \in RequestedRoles \cup {None} :
    Begin(c, "register", "lookup", Normal[e], p, r, NoToken)

BeginLogin(c) ==
  \E e \in Emails, p \in Passwords :
    Begin(c, "login", "lookup", Normal[e], p, None, NoToken)

\* With any token that was given out.
BeginWithToken(c) ==
  \E t \in tokens, kind \in {"refresh", "logout", "me", "users"} :
    Begin(c, kind, IF kind = "logout" THEN "again" ELSE "check",
          BootstrapEmail, SomePassword, None, t)

\* A process of the API starts.
BeginBootstrap(c) ==
  Begin(c, "bootstrap", "lookup", BootstrapEmail, SomePassword, "admin", NoToken)

Goto(c, at) == call' = [call EXCEPT ![c].at = at]

Answer(c, status) ==
  call' = [call EXCEPT ![c].at = "answered", ![c].answer = status]

At(c, at) == call[c].at = at

Is(c, kind) == call[c].kind = kind

(***************************************************************************)
(* Accounts                                                                *)
(***************************************************************************)

Taken(email) == \E u \in users : u.email = email

\* A registration or a start finds the account it would make.
Known(c) == Taken(call[c].email)

\* _get_user_by_email.  A login verifies the password without a further await.
Lookup(c) ==
  /\ At(c, "lookup")
  /\ IF Is(c, "login")
     THEN \/ \E u \in users :
               /\ u.email = call[c].email /\ u.password = call[c].password
               /\ call' = [call EXCEPT ![c].at = "issue", ![c].owner = u.id]
          \/ /\ ~\E u \in users :
                  u.email = call[c].email /\ u.password = call[c].password
             /\ Answer(c, 401)
     ELSE IF Known(c)
     THEN Answer(c, IF Is(c, "register") THEN 409 ELSE 200)
     ELSE Goto(c, IF Is(c, "register") THEN "count" ELSE "insert")
  /\ UNCHANGED <<users, revoked, tokens, expired, serial, requests>>

\* Mutant: the requested role is given to any account.
GrantedRoleAlways(requested) ==
  IF requested \in Roles THEN requested ELSE "user"

GrantedRole(requested) ==
  IF users # {} THEN "user" ELSE IF requested \in Roles THEN requested ELSE "admin"

\* Is this the first account?
Count(c) ==
  /\ At(c, "count")
  /\ call' = [call EXCEPT ![c].at = "insert", ![c].role = GrantedRole(@)]
  /\ UNCHANGED <<users, revoked, tokens, expired, serial, requests>>

\* Mutant: the table takes a second account with the same email.
InsertAnyway(c) ==
  /\ At(c, "insert")
  /\ users' = users \cup {[id |-> serial + 1, email |-> call[c].email,
       role |-> call[c].role, password |-> call[c].password, late |-> call[c].late]}
  /\ serial' = serial + 1
  /\ call' = [call EXCEPT ![c].at = "issue", ![c].owner = serial + 1]
  /\ UNCHANGED <<revoked, tokens, expired, requests>>

\* Mutant: the account of a start is added, but not committed.
InsertUncommitted(c) ==
  /\ At(c, "insert")
  /\ IF Taken(call[c].email)
     THEN /\ Answer(c, IF Is(c, "bootstrap") THEN 200 ELSE 500)
          /\ UNCHANGED <<users, serial>>
     ELSE IF Is(c, "bootstrap") THEN Answer(c, 200) /\ UNCHANGED <<users, serial>>
     ELSE /\ users' = users \cup {[id |-> serial + 1, email |-> call[c].email,
               role |-> call[c].role, password |-> call[c].password,
               late |-> call[c].late]}
          /\ serial' = serial + 1
          /\ call' = [call EXCEPT ![c].at = "issue", ![c].owner = serial + 1]
  /\ UNCHANGED <<revoked, tokens, expired, requests>>

\* The commit fails when the email has been taken meanwhile.  The bootstrap
\* logs that and goes on.
Insert(c) ==
  /\ At(c, "insert")
  /\ IF Taken(call[c].email)
     THEN /\ Answer(c, IF Is(c, "bootstrap") THEN 200 ELSE 500)
          /\ UNCHANGED <<users, serial>>
     ELSE /\ users' = users \cup {[id |-> serial + 1, email |-> call[c].email,
               role |-> call[c].role, password |-> call[c].password,
               late |-> call[c].late /\ Is(c, "register")]}
          /\ serial' = serial + 1
          /\ IF Is(c, "bootstrap") THEN Answer(c, 200)
             ELSE call' = [call EXCEPT ![c].at = "issue", ![c].owner = serial + 1]
  /\ UNCHANGED <<revoked, tokens, expired, requests>>

\* create_access_token and create_refresh_token for the account at hand.
Issue(c) ==
  /\ At(c, "issue")
  /\ tokens' = tokens \cup
       {[jti |-> serial + 1, sub |-> call[c].owner, type |-> "access"],
        [jti |-> serial + 2, sub |-> call[c].owner, type |-> "refresh"]}
  /\ serial' = serial + 2
  /\ Answer(c, IF Is(c, "register") THEN 201 ELSE 200)
  /\ UNCHANGED <<users, revoked, expired, requests>>

(***************************************************************************)
(* Tokens                                                                  *)
(***************************************************************************)

ExpectedType(c) == IF Is(c, "refresh") THEN "refresh" ELSE "access"

\* Mutant: whether a token was revoked is not asked.
CheckTypeOnly(c) ==
  /\ At(c, "check")
  /\ IF call[c].token.jti \in expired \/ call[c].token.type # ExpectedType(c)
     THEN Answer(c, 401)
     ELSE Goto(c, "owner")
  /\ UNCHANGED <<users, revoked, tokens, expired, serial, requests>>

\* decode_token, the type, and is_token_revoked.
Check(c) ==
  /\ At(c, "check")
  /\ IF \/ call[c].token.jti \in expired
        \/ call[c].token.type # ExpectedType(c)
        \/ call[c].token.jti \in revoked
     THEN Answer(c, 401)
     ELSE Goto(c, "owner")
  /\ UNCHANGED <<users, revoked, tokens, expired, serial, requests>>

\* The account of the token; for the list of accounts it must be an admin's.
Owner(c) ==
  /\ At(c, "owner")
  /\ IF \A u \in users : u.id # call[c].token.sub THEN Answer(c, 401)
     ELSE \E u \in users :
       /\ u.id = call[c].token.sub
       /\ IF Is(c, "me") THEN Answer(c, 200)
          ELSE IF Is(c, "users") /\ u.role # "admin" THEN Answer(c, 403)
          ELSE call' = [call EXCEPT ![c].owner = u.id,
                          ![c].at = IF Is(c, "users") THEN "users" ELSE "again"]
  /\ UNCHANGED <<users, revoked, tokens, expired, serial, requests>>

ListUsers(c) ==
  /\ At(c, "users")
  /\ Answer(c, 200)
  /\ UNCHANGED <<users, revoked, tokens, expired, serial, requests>>

\* revoke_token looks again.  logout comes here first, and takes a token that
\* cannot be decoded for one that needs no revocation.
Again(c) ==
  /\ At(c, "again")
  /\ IF Is(c, "logout") /\ call[c].token.jti \in expired \cup revoked
     THEN Answer(c, 200)
     ELSE Goto(c, IF call[c].token.jti \in revoked THEN "issue" ELSE "revoke")
  /\ UNCHANGED <<users, revoked, tokens, expired, serial, requests>>

\* Mutant: the row is added, but not committed.
RevokeUncommitted(c) ==
  /\ At(c, "revoke")
  /\ IF Is(c, "logout") THEN Answer(c, 200) ELSE Goto(c, "issue")
  /\ UNCHANGED <<users, revoked, tokens, expired, serial, requests>>

\* The commit fails when the token has been revoked meanwhile.
Revoke(c) ==
  /\ At(c, "revoke")
  /\ IF call[c].token.jti \in revoked THEN Answer(c, 500) /\ UNCHANGED revoked
     ELSE /\ revoked' = revoked \cup {call[c].token.jti}
          /\ IF Is(c, "logout") THEN Answer(c, 200) ELSE Goto(c, "issue")
  /\ UNCHANGED <<users, tokens, expired, serial, requests>>

\* Time passes.
Expire ==
  \E t \in tokens :
    /\ t.jti \notin expired
    /\ expired' = expired \cup {t.jti}
    /\ UNCHANGED <<users, revoked, tokens, serial, call, requests>>

\* The database does not answer; nothing the request did not commit remains.
Fail(c) ==
  /\ Faults /\ call[c].at \in Steps
  /\ Answer(c, 500)
  /\ UNCHANGED <<users, revoked, tokens, expired, serial, requests>>

Step(c) ==
  \/ Lookup(c) \/ Count(c) \/ Insert(c) \/ Issue(c)
  \/ Check(c) \/ Owner(c) \/ ListUsers(c) \/ Again(c) \/ Revoke(c)

Next ==
  \/ \E c \in Clients :
       \/ BeginRegister(c) \/ BeginLogin(c) \/ BeginWithToken(c) \/ BeginBootstrap(c)
       \/ Step(c) \/ Fail(c)
  \/ Expire

Spec == Init /\ [][Next]_vars

(***************************************************************************)
(* Properties                                                              *)
(***************************************************************************)

\* However requests and starting processes overlap, an email has one account.
OneAccountPerEmail == \A u, v \in users : u.email = v.email => u = v

\* A requested role is only honoured while there is no account: an account
\* whose registration began after the first one was there is a plain user's.
LaterAccountsAreUsers == \A u \in users : u.late => u.role = "user"

Answered(c) == call[c].at = "answered"

\* A token that was revoked when a request began gets that request nowhere,
\* and never a new token.
RevokedIsRefused ==
  \A c \in Clients :
    Answered(c) /\ call[c].kind \in {"refresh", "me", "users"} /\ call[c].stale =>
      call[c].answer \in {401, 500}

\* The token of a refresh or logout that succeeded is revoked, whoever revoked
\* it; a logout may leave one that has expired.
UsedUp ==
  \A c \in Clients :
    Answered(c) /\ call[c].kind \in {"refresh", "logout"} /\ call[c].answer = 200 =>
      call[c].token.jti \in
        revoked \cup (IF call[c].kind = "logout" THEN expired ELSE {})

\* A start that found no accounts and had no trouble with the database leaves
\* an account with the configured email, as settings.py:85 says, even when
\* registrations or other starts got between its steps (main.py:235-248).
FirstStartLeavesAccount ==
  \A c \in Clients :
    Answered(c) /\ call[c].kind = "bootstrap" /\ ~call[c].late /\ call[c].answer = 200 =>
      Taken(BootstrapEmail)
=============================================================================
