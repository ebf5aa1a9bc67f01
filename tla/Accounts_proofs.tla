--------------------------- MODULE Accounts_proofs --------------------------
(***************************************************************************)
(* What Accounts promises, for any number of clients, emails and requests. *)
(***************************************************************************)
EXTENDS Accounts, TLAPS

\* The steps a request of each kind takes.
Path ==
  [register  |-> {"lookup", "count", "insert", "issue", "answered"},
   login     |-> {"lookup", "issue", "answered"},
   refresh   |-> {"check", "owner", "again", "revoke", "issue", "answered"},
   logout    |-> {"again", "revoke", "answered"},
   me        |-> {"check", "owner", "answered"},
   users     |-> {"check", "owner", "users", "answered"},
   bootstrap |-> {"lookup", "insert", "answered"}]

Done(k, status) == k.at = "answered" /\ k.answer = status

\* What a request k knows of the accounts U, the revoked R and the expired X.
Sound(k, U, R, X) ==
  /\ k.at \in Path[k.kind]
  /\ k.late => U # {}
  /\ k.stale => k.token.jti \in R
  /\ k.kind = "register" /\ k.at = "insert" =>
       k.role \in Roles /\ (k.late => k.role = "user")
  /\ k.kind = "bootstrap" => k.role = "admin" /\ k.email = BootstrapEmail
  /\ k.kind \in {"refresh", "me", "users"} /\ k.stale =>
       k.at = "check" \/ Done(k, 401) \/ Done(k, 500)
  /\ k.kind = "refresh" /\ (k.at = "issue" \/ Done(k, 200)) => k.token.jti \in R
  /\ k.kind = "logout" /\ Done(k, 200) => k.token.jti \in R \cup X
  /\ k.kind = "bootstrap" /\ Done(k, 200) => \E u \in U : u.email = BootstrapEmail

AllSound == \A c \in Clients : call[c] = Idle \/ Sound(call[c], users, revoked, expired)

AccountsInv == TypeOK /\ OneAccountPerEmail /\ LaterAccountsAreUsers /\ AllSound

\* l is the request k at another step.
Continues(l, k) ==
  /\ l \in Call
  /\ l.kind = k.kind /\ l.email = k.email /\ l.token = k.token
  /\ l.stale = k.stale /\ l.late = k.late /\ l.password = k.password

-----------------------------------------------------------------------------
\* More accounts, revocations and expired tokens change nothing for a request.
LEMMA SoundGrows ==
  ASSUME NEW k, NEW U, NEW R, NEW X, NEW V, NEW S, NEW Y,
         U \subseteq V, R \subseteq S, X \subseteq Y, Sound(k, U, R, X)
  PROVE  Sound(k, V, S, Y)
BY DEF Sound

\* A request that is at a step has begun.
LEMMA UnderWay ==
  ASSUME TypeOK, NEW c \in Clients, call[c].at \in Steps
  PROVE  call[c] \in Call /\ call[c] # Idle
BY DEF TypeOK, Idle, Steps

\* Going to the next step leaves the rest of the request.
LEMMA GotoContinues ==
  ASSUME TypeOK, NEW c \in Clients, call[c] \in Call, NEW at \in Steps, Goto(c, at)
  PROVE  /\ Continues(call'[c], call[c])
         /\ call' = [call EXCEPT ![c] = call'[c]]
         /\ call'[c].at = at /\ call'[c].role = call[c].role
<1> DEFINE l == [call[c] EXCEPT !.at = at]
<1>1. call' = [call EXCEPT ![c] = l]
  BY DEF Goto
<1>2. call'[c] = l
  BY <1>1 DEF TypeOK
<1>3. Continues(l, call[c]) /\ l.at = at /\ l.role = call[c].role
  BY DEF Call, Continues
<1>4. QED
  BY <1>1, <1>2, <1>3

\* An answer leaves the rest of the request.
LEMMA AnswerContinues ==
  ASSUME TypeOK, NEW c \in Clients, call[c] \in Call, NEW status \in Nat,
         Answer(c, status)
  PROVE  /\ Continues(call'[c], call[c])
         /\ call' = [call EXCEPT ![c] = call'[c]]
         /\ Done(call'[c], status) /\ call'[c].role = call[c].role
<1> DEFINE l == [call[c] EXCEPT !.at = "answered", !.answer = status]
<1>1. call' = [call EXCEPT ![c] = l]
  BY DEF Answer
<1>2. call'[c] = l
  BY <1>1 DEF TypeOK
<1>3. Continues(l, call[c]) /\ Done(l, status) /\ l.role = call[c].role
  BY DEF Call, Continues, Done
<1>4. QED
  BY <1>1, <1>2, <1>3

\* A step of one request, sound afterwards, keeps all others sound.
LEMMA StepOfOne ==
  ASSUME TypeOK, AllSound, NEW c \in Clients,
         call' = [call EXCEPT ![c] = call'[c]], call'[c] \in Call,
         users \subseteq users', revoked \subseteq revoked', expired \subseteq expired',
         Sound(call'[c], users', revoked', expired')
  PROVE  AllSound' /\ call' \in [Clients -> Call \cup {Idle}]
<1>1. call' \in [Clients -> Call \cup {Idle}]
  BY DEF TypeOK
<1>2. ASSUME NEW d \in Clients
      PROVE  call'[d] = Idle \/ Sound(call'[d], users', revoked', expired')
  <2>1. CASE d = c
    BY <2>1
  <2>2. CASE d # c
    <3>1. call'[d] = call[d]
      BY <2>2 DEF TypeOK
    <3>2. call[d] = Idle \/ Sound(call[d], users, revoked, expired)
      BY DEF AllSound
    <3>3. QED
      BY <3>1, <3>2, SoundGrows
  <2>3. QED
    BY <2>1, <2>2
<1>3. QED
  BY <1>1, <1>2 DEF AllSound

\* The initial state satisfies the invariant.
LEMMA InitAccounts == Init => AccountsInv
<1>1. SUFFICES ASSUME Init PROVE AccountsInv
  OBVIOUS
<1>2. TypeOK
  BY <1>1, BoundsAssumption DEF Init, TypeOK
<1>3. QED
  BY <1>1, <1>2
  DEF Init, AccountsInv, OneAccountPerEmail, LaterAccountsAreUsers, AllSound

-----------------------------------------------------------------------------
(* Steps *)

\* The first step of each kind of request.
Opening ==
  [register |-> "lookup", login |-> "lookup", refresh |-> "check", logout |-> "again",
   me |-> "check", users |-> "check", bootstrap |-> "lookup"]

\* A request that begins keeps the invariant,
LEMMA BeginKeeps ==
  ASSUME AccountsInv, NEW c \in Clients, NEW kind \in Kinds, NEW email \in NormalEmails,
         NEW password \in Passwords, NEW role \in Roles \cup RequestedRoles \cup {None},
         NEW token \in Token,
         kind = "bootstrap" => role = "admin" /\ email = BootstrapEmail,
         Begin(c, kind, Opening[kind], email, password, role, token)
  PROVE  AccountsInv'
<1> DEFINE k == [kind |-> kind, at |-> Opening[kind], email |-> email,
                 password |-> password, role |-> role, token |-> token,
                 stale |-> token.jti \in revoked, late |-> users # {},
                 owner |-> 0, answer |-> 0]
<1>1. /\ call' = [call EXCEPT ![c] = k]
      /\ UNCHANGED <<users, revoked, tokens, expired, serial>>
      /\ requests' = requests + 1 /\ requests < MaxRequests
  BY DEF Begin
<1>2. k \in Call
  <2>1. Opening[kind] \in Steps
    BY DEF Opening, Kinds, Steps
  <2>2. QED
    BY <2>1 DEF Call
<1>3. Sound(k, users, revoked, expired)
  <2>1. Opening[kind] \in Path[kind] /\ Opening[kind] \in {"lookup", "check", "again"}
    BY DEF Opening, Path, Kinds
  <2>2. kind \in {"refresh", "me", "users"} => Opening[kind] = "check"
    BY DEF Opening
  <2>3. /\ k.at = Opening[kind] /\ k.kind = kind /\ k.email = email /\ k.role = role
        /\ k.token = token
    OBVIOUS
  <2>4. (k.stale => token.jti \in revoked) /\ (k.late => users # {})
    OBVIOUS
  <2> HIDE DEF k
  <2>5. QED
    BY <2>1, <2>2, <2>3, <2>4 DEF Sound, Done
<1>4. call'[c] = k
  BY <1>1 DEF AccountsInv, TypeOK
<1> HIDE DEF k
<1>5. AllSound' /\ call' \in [Clients -> Call \cup {Idle}]
  BY <1>1, <1>2, <1>3, <1>4, StepOfOne DEF AccountsInv
<1>6. requests' \in 0 .. MaxRequests
  BY <1>1, BoundsAssumption DEF AccountsInv, TypeOK
<1>7. QED
  BY <1>1, <1>5, <1>6
  DEF AccountsInv, TypeOK, OneAccountPerEmail, LaterAccountsAreUsers

\* of whatever kind it is;
LEMMA BeginningsKeep ==
  ASSUME AccountsInv, NEW c \in Clients,
         BeginRegister(c) \/ BeginLogin(c) \/ BeginWithToken(c) \/ BeginBootstrap(c)
  PROVE  AccountsInv'
<1>0. SomePassword \in Passwords /\ BootstrapEmail \in NormalEmails /\ NoToken \in Token
  BY InputsAssumption DEF SomePassword, NormalEmails, NoToken, Token
<1>1. CASE BeginRegister(c)
  <2>1. PICK e \in Emails, p \in Passwords, r \in RequestedRoles \cup {None} :
          Begin(c, "register", "lookup", Normal[e], p, r, NoToken)
    BY <1>1 DEF BeginRegister
  <2>2. Normal[e] \in NormalEmails /\ "register" \in Kinds /\ Opening["register"] = "lookup"
    BY DEF NormalEmails, Kinds, Opening
  <2>3. QED
    BY <1>0, <2>1, <2>2, BeginKeeps
<1>2. CASE BeginLogin(c)
  <2>1. PICK e \in Emails, p \in Passwords :
          Begin(c, "login", "lookup", Normal[e], p, None, NoToken)
    BY <1>2 DEF BeginLogin
  <2>2. Normal[e] \in NormalEmails /\ "login" \in Kinds /\ Opening["login"] = "lookup"
    BY DEF NormalEmails, Kinds, Opening
  <2>3. QED
    BY <1>0, <2>1, <2>2, BeginKeeps
<1>3. CASE BeginWithToken(c)
  <2>1. PICK t \in tokens, kind \in {"refresh", "logout", "me", "users"} :
          Begin(c, kind, IF kind = "logout" THEN "again" ELSE "check",
                BootstrapEmail, SomePassword, None, t)
    BY <1>3 DEF BeginWithToken
  <2>2. /\ t \in Token /\ kind \in Kinds /\ kind # "bootstrap"
        /\ Opening[kind] = IF kind = "logout" THEN "again" ELSE "check"
    BY DEF AccountsInv, TypeOK, Kinds, Opening
  <2>3. QED
    BY <1>0, <2>1, <2>2, BeginKeeps
<1>4. CASE BeginBootstrap(c)
  <2>1. "bootstrap" \in Kinds /\ Opening["bootstrap"] = "lookup" /\ "admin" \in Roles
    BY DEF Kinds, Opening, Roles
  <2>2. QED
    BY <1>0, <1>4, <2>1, BeginKeeps DEF BeginBootstrap
<1>5. QED
  BY <1>1, <1>2, <1>3, <1>4

\* A step that leaves the tables alone.
LEMMA QuietStep ==
  ASSUME AccountsInv, NEW c \in Clients,
         UNCHANGED <<users, revoked, tokens, expired, serial, requests>>,
         call' = [call EXCEPT ![c] = call'[c]], call'[c] \in Call,
         Sound(call'[c], users, revoked, expired)
  PROVE  AccountsInv'
<1>1. AllSound' /\ call' \in [Clients -> Call \cup {Idle}]
  BY StepOfOne DEF AccountsInv
<1>2. QED
  BY <1>1 DEF AccountsInv, TypeOK, OneAccountPerEmail, LaterAccountsAreUsers

\* so does the lookup of an email,
LEMMA LookupKeeps ==
  ASSUME AccountsInv, NEW c \in Clients, Lookup(c)
  PROVE  AccountsInv'
<1> DEFINE k == call[c]
           l == call'[c]
<1>1. /\ k \in Call /\ k # Idle /\ k.at = "lookup" /\ Sound(k, users, revoked, expired)
      /\ UNCHANGED <<users, revoked, tokens, expired, serial, requests>> /\ TypeOK
  BY UnderWay DEF Lookup, At, AccountsInv, AllSound, Steps
<1>2. k.kind \in {"register", "login", "bootstrap"}
  BY <1>1 DEF Sound, Path, Call, Kinds
<1>3. /\ Continues(l, k) /\ call' = [call EXCEPT ![c] = l]
      /\ l.role = k.role
      /\ \/ k.kind = "login" /\ (l.at = "issue" \/ Done(l, 401))
         \/ k.kind = "register" /\ (l.at = "count" \/ Done(l, 409))
         \/ k.kind = "bootstrap" /\ l.at = "insert"
         \/ k.kind = "bootstrap" /\ Done(l, 200) /\ Taken(k.email)
  <2>1. CASE k.kind = "login" /\ ~Done(l, 401)
    <3>1. CASE Answer(c, 401)
      BY <1>1, <2>1, <3>1, AnswerContinues
    <3>2. CASE ~Answer(c, 401)
      <4>1. PICK u \in users :
              call' = [call EXCEPT ![c].at = "issue", ![c].owner = u.id]
        BY <2>1, <3>2 DEF Lookup, Is
      <4>2. u.id \in Nat
        BY <1>1 DEF TypeOK, User
      <4> DEFINE m == [k EXCEPT !.at = "issue", !.owner = u.id]
      <4>3. call' = [call EXCEPT ![c] = m]
        BY <4>1
      <4>4. l = m
        BY <1>1, <4>3 DEF TypeOK
      <4>5. Continues(m, k) /\ m.at = "issue" /\ m.role = k.role
        BY <1>1, <4>2 DEF Call, Continues, Steps
      <4>6. QED
        BY <2>1, <4>3, <4>4, <4>5
    <3>3. QED
      BY <3>1, <3>2
  <2>2. CASE k.kind = "login" /\ Done(l, 401)
    <3>1. CASE Answer(c, 401)
      BY <1>1, <2>2, <3>1, AnswerContinues
    <3>2. CASE ~Answer(c, 401)
      <4>1. PICK u \in users :
              call' = [call EXCEPT ![c].at = "issue", ![c].owner = u.id]
        BY <2>2, <3>2 DEF Lookup, Is
      <4>2. l.at = "issue"
        BY <1>1, <4>1 DEF TypeOK, Call
      <4>3. QED
        BY <2>2, <4>2 DEF Done
    <3>3. QED
      BY <3>1, <3>2
  <2>3. CASE k.kind \in {"register", "bootstrap"} /\ Known(c)
    <3>1. Answer(c, IF k.kind = "register" THEN 409 ELSE 200) /\ Taken(k.email)
      BY <2>3 DEF Lookup, Is, Known
    <3>2. QED
      BY <1>1, <2>3, <3>1, AnswerContinues
  <2>4. CASE k.kind \in {"register", "bootstrap"} /\ ~Known(c)
    <3>1. Goto(c, IF k.kind = "register" THEN "count" ELSE "insert")
      BY <2>4 DEF Lookup, Is
    <3>2. "count" \in Steps /\ "insert" \in Steps
      BY DEF Steps
    <3>3. QED
      BY <1>1, <2>4, <3>1, <3>2, GotoContinues
  <2>5. QED
    BY <1>2, <2>1, <2>2, <2>3, <2>4
<1> HIDE DEF k, l
<1>4. Sound(l, users, revoked, expired)
  BY <1>1, <1>3 DEF Sound, Path, Continues, Done, Taken
<1>5. QED
  BY <1>1, <1>3, <1>4, QuietStep DEF Continues, l

\* the look for any account,
LEMMA CountKeeps ==
  ASSUME AccountsInv, NEW c \in Clients, Count(c)
  PROVE  AccountsInv'
<1> DEFINE k == call[c]
           l == [k EXCEPT !.at = "insert", !.role = GrantedRole(k.role)]
<1>1. /\ k \in Call /\ k.at = "count" /\ Sound(k, users, revoked, expired)
      /\ UNCHANGED <<users, revoked, tokens, expired, serial, requests>> /\ TypeOK
  BY UnderWay DEF Count, At, AccountsInv, AllSound, Steps
<1>2. k.kind = "register"
  BY <1>1 DEF Sound, Path, Call, Kinds
<1>3. GrantedRole(k.role) \in Roles /\ (users # {} => GrantedRole(k.role) = "user")
  BY DEF GrantedRole, Roles
<1>4. call' = [call EXCEPT ![c] = l]
  BY DEF Count
<1>5. call'[c] = l
  BY <1>1, <1>4 DEF TypeOK
<1>6. Continues(l, k) /\ l.at = "insert" /\ l.role = GrantedRole(k.role)
  BY <1>1, <1>3 DEF Call, Continues, Steps
<1> HIDE DEF l
<1>7. Sound(l, users, revoked, expired)
  BY <1>1, <1>2, <1>3, <1>6 DEF Sound, Path, Continues, Done
<1>8. QED
  BY <1>1, <1>4, <1>5, <1>6, <1>7, QuietStep DEF Continues

\* A commit adds an account whose email was free, or none.
LEMMA InsertKeeps ==
  ASSUME AccountsInv, NEW c \in Clients, Insert(c)
  PROVE  AccountsInv'
<1> DEFINE k == call[c]
           l == call'[c]
           new == [id |-> serial + 1, email |-> k.email, role |-> k.role,
                   password |-> k.password, late |-> k.late /\ k.kind = "register"]
<1>1. /\ k \in Call /\ k.at = "insert" /\ Sound(k, users, revoked, expired)
      /\ UNCHANGED <<revoked, tokens, expired, requests>> /\ TypeOK
  BY UnderWay DEF Insert, At, AccountsInv, AllSound, Steps
<1>2. k.kind \in {"register", "bootstrap"}
  BY <1>1 DEF Sound, Path, Call, Kinds
<1>3. CASE Taken(k.email)
  <2>1. /\ Answer(c, IF k.kind = "bootstrap" THEN 200 ELSE 500)
        /\ UNCHANGED <<users, serial>>
    BY <1>3 DEF Insert, Is
  <2>2. /\ Continues(l, k) /\ call' = [call EXCEPT ![c] = l] /\ l.role = k.role
        /\ Done(l, IF k.kind = "bootstrap" THEN 200 ELSE 500)
    BY <1>1, <2>1, AnswerContinues
  <2> HIDE DEF k, l
  <2>3. Sound(l, users, revoked, expired)
    BY <1>1, <1>2, <1>3, <2>2 DEF Sound, Path, Continues, Done, Taken
  <2>4. QED
    BY <1>1, <2>1, <2>2, <2>3, QuietStep DEF Continues, l
<1>4. CASE ~Taken(k.email)
  <2>1. /\ users' = users \cup {new} /\ serial' = serial + 1
        /\ IF k.kind = "bootstrap" THEN Answer(c, 200)
           ELSE call' = [call EXCEPT ![c].at = "issue", ![c].owner = serial + 1]
    BY <1>4 DEF Insert, Is
  <2>2. k.role \in Roles /\ (k.late /\ k.kind = "register" => k.role = "user")
    BY <1>1, <1>2 DEF Sound, Roles
  <2>3. new \in User
    BY <1>1, <2>2 DEF User, Call, TypeOK
  <2>4. /\ Continues(l, k) /\ call' = [call EXCEPT ![c] = l] /\ l.role = k.role
        /\ \/ k.kind = "bootstrap" /\ Done(l, 200)
           \/ k.kind = "register" /\ l.at = "issue"
    <3>1. CASE k.kind = "bootstrap"
      BY <1>1, <2>1, <3>1, AnswerContinues
    <3>2. CASE k.kind = "register"
      <4> DEFINE m == [k EXCEPT !.at = "issue", !.owner = serial + 1]
      <4>1. call' = [call EXCEPT ![c] = m]
        BY <2>1, <3>2
      <4>2. l = m
        BY <1>1, <4>1 DEF TypeOK
      <4>0. serial + 1 \in Nat
        BY <1>1 DEF TypeOK
      <4>3. Continues(m, k) /\ m.at = "issue" /\ m.role = k.role
        BY <1>1, <4>0 DEF Call, Continues, Steps
      <4>4. QED
        BY <3>2, <4>1, <4>2, <4>3
    <3>3. QED
      BY <1>2, <3>1, <3>2
  <2>5. new.email = k.email /\ new.role = k.role
    OBVIOUS
  <2>6. new.late => k.late /\ k.kind = "register"
    OBVIOUS
  <2> HIDE DEF k, l, new
  <2>7. Sound(l, users', revoked', expired')
    BY <1>1, <1>2, <2>1, <2>2, <2>4, <2>5 DEF Sound, Path, Continues, Done
  <2>8. AllSound' /\ call' \in [Clients -> Call \cup {Idle}]
    BY <1>1, <2>1, <2>4, <2>7, StepOfOne DEF AccountsInv, Continues, l
  <2>9. TypeOK'
    BY <1>1, <2>1, <2>3, <2>8 DEF TypeOK
  <2>10. OneAccountPerEmail'
    BY <1>4, <2>1, <2>5 DEF AccountsInv, OneAccountPerEmail, Taken
  <2>11. LaterAccountsAreUsers'
    BY <2>1, <2>2, <2>5, <2>6 DEF AccountsInv, LaterAccountsAreUsers
  <2>12. QED
    BY <2>8, <2>9, <2>10, <2>11 DEF AccountsInv
<1>5. QED
  BY <1>3, <1>4

\* the issue of tokens,
LEMMA IssueKeeps ==
  ASSUME AccountsInv, NEW c \in Clients, Issue(c)
  PROVE  AccountsInv'
<1> DEFINE k == call[c]
           l == call'[c]
           status == IF k.kind = "register" THEN 201 ELSE 200
<1>1. /\ k \in Call /\ k.at = "issue" /\ Sound(k, users, revoked, expired)
      /\ UNCHANGED <<users, revoked, expired, requests>> /\ TypeOK
      /\ serial' = serial + 2 /\ Answer(c, status)
  BY UnderWay DEF Issue, At, AccountsInv, AllSound, Steps, Is
<1>2. k.kind \in {"register", "login", "refresh"}
  BY <1>1 DEF Sound, Path, Call, Kinds
<1>3. /\ Continues(l, k) /\ call' = [call EXCEPT ![c] = l] /\ l.role = k.role
      /\ Done(l, status)
  BY <1>1, AnswerContinues
<1>4. tokens' \subseteq Token
  <2>1. /\ [jti |-> serial + 1, sub |-> k.owner, type |-> "access"] \in Token
        /\ [jti |-> serial + 2, sub |-> k.owner, type |-> "refresh"] \in Token
    BY <1>1 DEF Token, Call, TypeOK
  <2>2. QED
    BY <1>1, <2>1 DEF Issue, TypeOK
<1> HIDE DEF k, l
<1>5. Sound(l, users, revoked, expired)
  BY <1>1, <1>2, <1>3 DEF Sound, Path, Continues, Done
<1>6. AllSound' /\ call' \in [Clients -> Call \cup {Idle}]
  BY <1>1, <1>3, <1>5, StepOfOne DEF AccountsInv, Continues, l
<1>7. TypeOK'
  BY <1>1, <1>4, <1>6 DEF TypeOK
<1>8. QED
  BY <1>1, <1>6, <1>7 DEF AccountsInv, OneAccountPerEmail, LaterAccountsAreUsers

\* decode_token, the type and the revocation; a revoked token goes no further.
LEMMA CheckKeeps ==
  ASSUME AccountsInv, NEW c \in Clients, Check(c)
  PROVE  AccountsInv'
<1> DEFINE k == call[c]
           l == call'[c]
<1>1. /\ k \in Call /\ k.at = "check" /\ Sound(k, users, revoked, expired)
      /\ UNCHANGED <<users, revoked, tokens, expired, serial, requests>> /\ TypeOK
  BY UnderWay DEF Check, At, AccountsInv, AllSound, Steps
<1>2. k.kind \in {"refresh", "me", "users"}
  BY <1>1 DEF Sound, Path, Call, Kinds
<1>3. /\ Continues(l, k) /\ call' = [call EXCEPT ![c] = l] /\ l.role = k.role
      /\ Done(l, 401) \/ (l.at = "owner" /\ k.token.jti \notin revoked)
  <2>1. CASE Answer(c, 401)
    BY <1>1, <2>1, AnswerContinues
  <2>2. CASE ~Answer(c, 401)
    <3>1. Goto(c, "owner") /\ k.token.jti \notin revoked
      BY <2>2 DEF Check
    <3>2. "owner" \in Steps
      BY DEF Steps
    <3>3. QED
      BY <1>1, <3>1, <3>2, GotoContinues
  <2>3. QED
    BY <2>1, <2>2
<1> HIDE DEF k, l
<1>4. Sound(l, users, revoked, expired)
  BY <1>1, <1>2, <1>3 DEF Sound, Path, Continues, Done
<1>5. QED
  BY <1>1, <1>3, <1>4, QuietStep DEF Continues, l

\* the read of an account or of all,
LEMMA OwnerKeeps ==
  ASSUME AccountsInv, NEW c \in Clients, Owner(c) \/ ListUsers(c)
  PROVE  AccountsInv'
<1> DEFINE k == call[c]
           l == call'[c]
<1>1. /\ k \in Call /\ k.at \in {"owner", "users"} /\ Sound(k, users, revoked, expired)
      /\ UNCHANGED <<users, revoked, tokens, expired, serial, requests>> /\ TypeOK
  BY UnderWay DEF Owner, ListUsers, At, AccountsInv, AllSound, Steps
<1>2. k.kind \in {"refresh", "me", "users"} /\ (k.at = "users" => k.kind = "users")
  BY <1>1 DEF Sound, Path, Call, Kinds
<1>3. /\ Continues(l, k) /\ call' = [call EXCEPT ![c] = l] /\ l.role = k.role
      /\ \/ Done(l, 401)
         \/ k.kind \in {"me", "users"} /\ (Done(l, 200) \/ Done(l, 403))
         \/ k.kind = "users" /\ l.at = "users"
         \/ k.kind = "refresh" /\ l.at = "again"
  <2>1. CASE Answer(c, 401) \/ (k.kind \in {"me", "users"} /\ (Answer(c, 200) \/ Answer(c, 403)))
    BY <1>1, <2>1, AnswerContinues
  <2>2. CASE ~(Answer(c, 401) \/ (k.kind \in {"me", "users"} /\ (Answer(c, 200) \/ Answer(c, 403))))
    <3>1. Owner(c)
      BY <1>1, <1>2, <2>2 DEF Owner, ListUsers, At
    <3>2. PICK u \in users :
            /\ call' = [call EXCEPT ![c].owner = u.id,
                          ![c].at = IF k.kind = "users" THEN "users" ELSE "again"]
            /\ k.kind # "me"
      BY <1>1, <1>2, <2>2, <3>1 DEF Owner, Is
    <3>3. u.id \in Nat
      BY <1>1 DEF TypeOK, User
    <3> DEFINE at == IF k.kind = "users" THEN "users" ELSE "again"
               m == [k EXCEPT !.owner = u.id, !.at = at]
    <3>4. call' = [call EXCEPT ![c] = m]
      BY <3>2
    <3>5. l = m
      BY <1>1, <3>4 DEF TypeOK
    <3>6. Continues(m, k) /\ m.at = at /\ m.role = k.role
      BY <1>1, <3>3 DEF Call, Continues, Steps
    <3>7. QED
      BY <1>2, <3>2, <3>4, <3>5, <3>6
  <2>3. QED
    BY <2>1, <2>2
<1> HIDE DEF k, l
<1>4. Sound(l, users, revoked, expired)
  BY <1>1, <1>2, <1>3 DEF Sound, Path, Continues, Done
<1>5. QED
  BY <1>1, <1>3, <1>4, QuietStep DEF Continues, l

\* revoke_token's check,
LEMMA AgainKeeps ==
  ASSUME AccountsInv, NEW c \in Clients, Again(c)
  PROVE  AccountsInv'
<1> DEFINE k == call[c]
           l == call'[c]
<1>1. /\ k \in Call /\ k.at = "again" /\ Sound(k, users, revoked, expired)
      /\ UNCHANGED <<users, revoked, tokens, expired, serial, requests>> /\ TypeOK
  BY UnderWay DEF Again, At, AccountsInv, AllSound, Steps
<1>2. k.kind \in {"refresh", "logout"}
  BY <1>1 DEF Sound, Path, Call, Kinds
<1>3. /\ Continues(l, k) /\ call' = [call EXCEPT ![c] = l] /\ l.role = k.role
      /\ \/ k.kind = "logout" /\ k.token.jti \in expired \cup revoked /\ Done(l, 200)
         \/ k.kind = "refresh" /\ k.token.jti \in revoked /\ l.at = "issue"
         \/ l.at = "revoke"
  <2>1. CASE k.kind = "logout" /\ k.token.jti \in expired \cup revoked
    <3>1. Answer(c, 200)
      BY <2>1 DEF Again, Is
    <3>2. QED
      BY <1>1, <2>1, <3>1, AnswerContinues
  <2>2. CASE ~(k.kind = "logout" /\ k.token.jti \in expired \cup revoked)
    <3>1. Goto(c, IF k.token.jti \in revoked THEN "issue" ELSE "revoke")
      BY <2>2 DEF Again, Is
    <3>2. "issue" \in Steps /\ "revoke" \in Steps
      BY DEF Steps
    <3>3. CASE k.token.jti \in revoked
      BY <1>1, <1>2, <2>2, <3>1, <3>2, <3>3, GotoContinues
    <3>4. CASE k.token.jti \notin revoked
      BY <1>1, <3>1, <3>2, <3>4, GotoContinues
    <3>5. QED
      BY <3>3, <3>4
  <2>3. QED
    BY <2>1, <2>2
<1> HIDE DEF k, l
<1>4. Sound(l, users, revoked, expired)
  BY <1>1, <1>2, <1>3 DEF Sound, Path, Continues, Done
<1>5. QED
  BY <1>1, <1>3, <1>4, QuietStep DEF Continues, l

\* A commit revokes the token of the request, or fails.
LEMMA RevokeKeeps ==
  ASSUME AccountsInv, NEW c \in Clients, Revoke(c)
  PROVE  AccountsInv'
<1> DEFINE k == call[c]
           l == call'[c]
<1>1. /\ k \in Call /\ k.at = "revoke" /\ Sound(k, users, revoked, expired)
      /\ UNCHANGED <<users, tokens, expired, serial, requests>> /\ TypeOK
  BY UnderWay DEF Revoke, At, AccountsInv, AllSound, Steps
<1>2. k.kind \in {"refresh", "logout"}
  BY <1>1 DEF Sound, Path, Call, Kinds
<1>3. /\ Continues(l, k) /\ call' = [call EXCEPT ![c] = l] /\ l.role = k.role
      /\ \/ revoked' = revoked /\ Done(l, 500)
         \/ /\ revoked' = revoked \cup {k.token.jti}
            /\ \/ k.kind = "logout" /\ Done(l, 200)
               \/ k.kind = "refresh" /\ l.at = "issue"
  <2>1. CASE k.token.jti \in revoked
    <3>1. Answer(c, 500) /\ revoked' = revoked
      BY <2>1 DEF Revoke
    <3>2. QED
      BY <1>1, <3>1, AnswerContinues
  <2>2. CASE k.token.jti \notin revoked
    <3>1. /\ revoked' = revoked \cup {k.token.jti}
          /\ IF k.kind = "logout" THEN Answer(c, 200) ELSE Goto(c, "issue")
      BY <2>2 DEF Revoke, Is
    <3>2. CASE k.kind = "logout"
      BY <1>1, <3>1, <3>2, AnswerContinues
    <3>3. CASE k.kind = "refresh"
      <4>1. "issue" \in Steps
        BY DEF Steps
      <4>2. QED
        BY <1>1, <3>1, <3>3, <4>1, GotoContinues
    <3>4. QED
      BY <1>2, <3>2, <3>3
  <2>3. QED
    BY <2>1, <2>2
<1>4. revoked \subseteq revoked' /\ revoked' \subseteq Nat
  <2>1. k.token.jti \in Nat
    BY <1>1 DEF Call, Token
  <2>2. QED
    BY <1>1, <1>3, <2>1 DEF TypeOK
<1> HIDE DEF k, l
<1>5. Sound(l, users, revoked', expired)
  BY <1>1, <1>2, <1>3 DEF Sound, Path, Continues, Done
<1>6. AllSound' /\ call' \in [Clients -> Call \cup {Idle}]
  BY <1>1, <1>3, <1>4, <1>5, StepOfOne DEF AccountsInv, Continues, l
<1>7. TypeOK'
  BY <1>1, <1>4, <1>6 DEF TypeOK
<1>8. QED
  BY <1>1, <1>6, <1>7 DEF AccountsInv, OneAccountPerEmail, LaterAccountsAreUsers

\* a database that fails,
LEMMA FailKeeps ==
  ASSUME AccountsInv, NEW c \in Clients, Fail(c)
  PROVE  AccountsInv'
<1> DEFINE k == call[c]
           l == call'[c]
<1>1. /\ k \in Call /\ Sound(k, users, revoked, expired) /\ k.at \in Steps
      /\ UNCHANGED <<users, revoked, tokens, expired, serial, requests>> /\ TypeOK
      /\ Answer(c, 500)
  BY UnderWay DEF Fail, AccountsInv, AllSound
<1>2. /\ Continues(l, k) /\ call' = [call EXCEPT ![c] = l] /\ l.role = k.role
      /\ Done(l, 500)
  BY <1>1, AnswerContinues
<1>3. k.kind \in Kinds
  BY <1>1 DEF Call
<1> HIDE DEF k, l
<1>4. Sound(l, users, revoked, expired)
  BY <1>1, <1>2, <1>3 DEF Sound, Path, Continues, Done, Kinds
<1>5. QED
  BY <1>1, <1>2, <1>4, QuietStep DEF Continues, l

\* and a token that expires.
LEMMA ExpireKeeps ==
  ASSUME AccountsInv, Expire
  PROVE  AccountsInv'
<1>1. PICK t \in tokens :
        /\ expired' = expired \cup {t.jti}
        /\ UNCHANGED <<users, revoked, tokens, serial, call, requests>>
  BY DEF Expire
<1>2. t.jti \in Nat
  BY DEF AccountsInv, TypeOK, Token
<1>3. TypeOK'
  BY <1>1, <1>2 DEF AccountsInv, TypeOK
<1>4. AllSound'
  <2>1. ASSUME NEW c \in Clients
        PROVE  call'[c] = Idle \/ Sound(call'[c], users', revoked', expired')
    BY <1>1, SoundGrows DEF AccountsInv, AllSound
  <2>2. QED
    BY <2>1 DEF AllSound
<1>5. QED
  BY <1>1, <1>3, <1>4 DEF AccountsInv, OneAccountPerEmail, LaterAccountsAreUsers

\* The invariant is inductive.
LEMMA StepKeeps ==
  ASSUME AccountsInv, [Next]_vars
  PROVE  AccountsInv'
<1>1. CASE UNCHANGED vars
  BY <1>1
  DEF vars, AccountsInv, TypeOK, OneAccountPerEmail, LaterAccountsAreUsers, AllSound
<1>2. ASSUME NEW c \in Clients, Step(c)
      PROVE  AccountsInv'
  BY <1>2, LookupKeeps, CountKeeps, InsertKeeps, IssueKeeps, CheckKeeps, OwnerKeeps,
     AgainKeeps, RevokeKeeps DEF Step
<1>3. QED
  BY <1>1, <1>2, BeginningsKeep, FailKeeps, ExpireKeeps DEF Next

-----------------------------------------------------------------------------
(* What follows *)

\* The types, for every execution of Accounts.
THEOREM AccountTypes == Spec => []TypeOK
<1>1. AccountsInv => TypeOK
  BY DEF AccountsInv
<1>2. AccountsInv /\ [Next]_vars => AccountsInv'
  BY StepKeeps
<1>3. QED
  BY InitAccounts, <1>1, <1>2, PTL DEF Spec

\* register looks for the email first and commits later; the unique column
\* decides between two that overlap.
THEOREM OneAccount == Spec => []OneAccountPerEmail
<1>1. AccountsInv => OneAccountPerEmail
  BY DEF AccountsInv
<1>2. AccountsInv /\ [Next]_vars => AccountsInv'
  BY StepKeeps
<1>3. QED
  BY InitAccounts, <1>1, <1>2, PTL DEF Spec

\* Registrations that overlap may all be "first"; one that begins after an
\* account is there never is.
THEOREM LaterOnesAreUsers == Spec => []LaterAccountsAreUsers
<1>1. AccountsInv => LaterAccountsAreUsers
  BY DEF AccountsInv
<1>2. AccountsInv /\ [Next]_vars => AccountsInv'
  BY StepKeeps
<1>3. QED
  BY InitAccounts, <1>1, <1>2, PTL DEF Spec

\* A token that was revoked before a request is refused by it.
THEOREM RevokedRefused == Spec => []RevokedIsRefused
<1>1. AccountsInv => RevokedIsRefused
  BY DEF AccountsInv, AllSound, RevokedIsRefused, Answered, Sound, Done, Idle
<1>2. AccountsInv /\ [Next]_vars => AccountsInv'
  BY StepKeeps
<1>3. QED
  BY InitAccounts, <1>1, <1>2, PTL DEF Spec

\* A refresh or logout that succeeds leaves its token revoked.
THEOREM TokenUsedUp == Spec => []UsedUp
<1>1. AccountsInv => UsedUp
  BY DEF AccountsInv, AllSound, UsedUp, Answered, Sound, Done, Idle
<1>2. AccountsInv /\ [Next]_vars => AccountsInv'
  BY StepKeeps
<1>3. QED
  BY InitAccounts, <1>1, <1>2, PTL DEF Spec

\* A start that found no accounts and met no trouble leaves one with the
\* configured email, whatever else makes accounts meanwhile.
THEOREM FirstStartDone == Spec => []FirstStartLeavesAccount
<1>1. AccountsInv => FirstStartLeavesAccount
  BY DEF AccountsInv, AllSound, FirstStartLeavesAccount, Answered, Sound, Done, Idle, Taken
<1>2. AccountsInv /\ [Next]_vars => AccountsInv'
  BY StepKeeps
<1>3. QED
  BY InitAccounts, <1>1, <1>2, PTL DEF Spec
=============================================================================
