---------------------------- MODULE AccountProofs ----------------------------
(***************************************************************************)
(* Theorems about Accounts, for every set of addresses and spellings,      *)
(* browsers, token lives and answer times, and whatever an operator may    *)
(* do.                                                                     *)
(***************************************************************************)
EXTENDS Accounts, TLAPS

----------------------------------------------------------------------------
(***************************************************************************)
(* The inductive invariant.  Accounts are stored under canonical addresses *)
(* only.  A token expires at most Expiry from now, a login has read its    *)
(* row by now, and both were given an admin's role either by a row that    *)
(* still is one or no later than the address lost it.                      *)
(***************************************************************************)
IsAdmin(u, e) == u[e] # NoAccount /\ u[e].role = "admin"

CanonicalInv == \A e \in Spelling : Exists(e) => Canonical[e] = e

LoginInv ==
  \A b \in Browser : login[b] # NoLogin =>
    /\ login[b].at <= now
    /\ login[b].role = "admin" =>
         IsAdmin(users, login[b].email) \/ login[b].at <= lostAdmin[login[b].email]

TokenInv ==
  \A b \in Browser : session[b] # SignedOut =>
    /\ session[b].exp <= now + Expiry
    /\ session[b].role = "admin" =>
         \/ IsAdmin(users, session[b].email)
         \/ session[b].exp <= lostAdmin[session[b].email] + ApiTimeout + Expiry

AccountsInv == AccountsTypeOK /\ CanonicalInv /\ LoginInv /\ TokenInv

Tokens == [role : Role, email : Spelling, exp : Nat]
Logins == [role : Role, email : Spelling, at : 0..MaxTime]

LEMMA Settings ==
  /\ Expiry \in Nat /\ Expiry > 0 /\ ApiTimeout \in Nat /\ MaxTime \in Nat
  /\ LongAgo \in Int
  /\ AdminEmail \in Spelling /\ AdminKey \in Spelling /\ AdminPassword \in Password
  /\ Canonical[AdminKey] = AdminKey
BY AccountAssumption DEF ValidSettings, LongAgo, AdminKey

LEMMA StoredIsCanonical ==
  ASSUME NEW s \in Spelling
  PROVE  Stored(s) \in Spelling /\ Canonical[Stored(s)] = Stored(s)
BY AccountAssumption DEF Stored

\* The absent values are none of the present ones.
LEMMA Absent ==
  /\ NoAccount \notin Account /\ NoLogin \notin Logins /\ SignedOut \notin Tokens
BY DEF NoAccount, NoLogin, SignedOut, Account, Logins, Tokens, Role

\* INSERT ... ON CONFLICT DO NOTHING: accounts stay, and at most one is added.
LEMMA InsertUserProperties ==
  ASSUME users \in [Spelling -> Account \cup {NoAccount}],
         NEW e \in Spelling, NEW r \in Account
  PROVE  LET u == InsertUser(e, r)
         IN /\ u \in [Spelling -> Account \cup {NoAccount}]
            /\ \A f \in Spelling : users[f] # NoAccount => u[f] = users[f]
            /\ \A f \in Spelling : f # e => u[f] = users[f]
            /\ u[e] = users[e] \/ u[e] = r
BY DEF InsertUser, Exists

LEMMA AccountsInitInv == AccountsInit => AccountsInv
<1> SUFFICES ASSUME AccountsInit PROVE AccountsInv
  OBVIOUS
<1>1. AccountsTypeOK
  <2>1. now \in 0..MaxTime /\ tables \in BOOLEAN /\ api \in {"down", "up"}
    <3>1. now = 0 /\ tables = FALSE /\ api = "down"
      BY DEF AccountsInit
    <3>2. now \in 0..MaxTime /\ api \in {"down", "up"}
      BY <3>1, Settings
    <3>3. tables \in BOOLEAN
      BY <3>1
    <3>4. QED
      BY <3>2, <3>3
  <2>2. /\ users \in [Spelling -> Account \cup {NoAccount}]
        /\ login \in [Browser -> {NoLogin} \cup Logins]
        /\ session \in [Browser -> {SignedOut} \cup Tokens]
    BY DEF AccountsInit
  <2>3. lostAdmin \in [Spelling -> Int]
    BY Settings DEF AccountsInit
  <2>4. QED
    BY <2>1, <2>2, <2>3 DEF AccountsTypeOK, Logins, Tokens
<1>2. CanonicalInv /\ LoginInv /\ TokenInv
  BY DEF AccountsInit, CanonicalInv, LoginInv, TokenInv, Exists
<1>3. QED
  BY <1>1, <1>2 DEF AccountsInv

----------------------------------------------------------------------------
\* When users and lostAdmin change as they do in every step, the tokens and
\* logins that the step leaves alone keep their invariant.
AdminsKept ==
  \A e \in Spelling :
    \/ (IsAdmin(users, e) => IsAdmin(users', e)) /\ lostAdmin'[e] = lostAdmin[e]
    \/ lostAdmin'[e] = now

LEMMA KeepLogins ==
  ASSUME AccountsInv, now' = now \/ now' = now + 1, AdminsKept,
         NEW b \in Browser, login'[b] = login[b], login[b] # NoLogin
  PROVE  /\ login'[b].at <= now'
         /\ login'[b].role = "admin" =>
              \/ IsAdmin(users', login'[b].email)
              \/ login'[b].at <= lostAdmin'[login'[b].email]
<1>1. login[b] \in Logins
  BY DEF AccountsInv, AccountsTypeOK, Logins
<1>2. /\ now \in Int /\ login[b].at \in Int /\ login[b].email \in Spelling
      /\ login[b].at <= now
  BY <1>1, Settings DEF AccountsInv, AccountsTypeOK, LoginInv, Logins
<1>3. PICK e \in Spelling : e = login[b].email
  BY <1>2
<1>4. login[b].role = "admin" =>
        IsAdmin(users, e) \/ login[b].at <= lostAdmin[e]
  BY <1>3 DEF AccountsInv, LoginInv
<1>5. \/ (IsAdmin(users, e) => IsAdmin(users', e)) /\ lostAdmin'[e] = lostAdmin[e]
      \/ lostAdmin'[e] = now
  BY DEF AdminsKept
<1>6. QED
  BY <1>2, <1>3, <1>4, <1>5

LEMMA KeepTokens ==
  ASSUME AccountsInv, now' = now \/ now' = now + 1, AdminsKept,
         NEW b \in Browser, session'[b] = session[b], session[b] # SignedOut
  PROVE  /\ session'[b].exp <= now' + Expiry
         /\ session'[b].role = "admin" =>
              \/ IsAdmin(users', session'[b].email)
              \/ session'[b].exp <=
                   lostAdmin'[session'[b].email] + ApiTimeout + Expiry
<1>1. session[b] \in Tokens
  BY DEF AccountsInv, AccountsTypeOK, Tokens
<1>2. /\ now \in Int /\ session[b].exp \in Int /\ session[b].email \in Spelling
      /\ session[b].exp <= now + Expiry /\ Expiry \in Nat /\ ApiTimeout \in Nat
  BY <1>1, Settings DEF AccountsInv, AccountsTypeOK, TokenInv, Tokens
<1>3. PICK e \in Spelling : e = session[b].email
  BY <1>2
<1>4. session[b].role = "admin" =>
        IsAdmin(users, e) \/ session[b].exp <= lostAdmin[e] + ApiTimeout + Expiry
  BY <1>3 DEF AccountsInv, TokenInv
<1>5. \/ (IsAdmin(users, e) => IsAdmin(users', e)) /\ lostAdmin'[e] = lostAdmin[e]
      \/ lostAdmin'[e] = now
  BY DEF AdminsKept
<1>6. QED
  BY <1>2, <1>3, <1>4, <1>5

\* Steps that end or start no login and no token, and steps that end some.
LEMMA KeepBoth ==
  ASSUME AccountsInv, now' = now \/ now' = now + 1, AdminsKept,
         \A b \in Browser : login'[b] \in {login[b], NoLogin},
         \A b \in Browser : session'[b] \in {session[b], SignedOut}
  PROVE  LoginInv' /\ TokenInv'
<1>1. LoginInv'
  BY KeepLogins DEF LoginInv
<1>2. TokenInv'
  BY KeepTokens DEF TokenInv
<1>3. QED
  BY <1>1, <1>2

----------------------------------------------------------------------------
\* Which actions change which variable.
LEMMA Frame ==
  ASSUME [AccountsNext]_accountVars
  PROVE  /\ now' = now \/ Tick
         /\ tables' = tables \/ Start
         /\ UNCHANGED api \/ Start \/ StartUnprepared \/ Stop
         /\ \/ UNCHANGED users \/ Start
            \/ \E s \in Spelling, p \in Password : Register(s, p)
            \/ \E e \in Spelling, r \in Role : SetRole(e, r)
            \/ \E e \in Spelling : DeleteAccount(e)
         /\ \/ UNCHANGED login \/ Stop
            \/ \E b \in Browser, s \in Spelling, p \in Password : LoginRead(b, s, p)
            \/ \E b \in Browser : LoginAnswer(b) \/ LoginFails(b)
         /\ \/ UNCHANGED session
            \/ \E b \in Browser :
                 LoginAnswer(b) \/ LogOut(b) \/ ExpiredRequest(b) \/ AccountGone(b)
         /\ \/ UNCHANGED lostAdmin
            \/ \E e \in Spelling, r \in Role : SetRole(e, r)
            \/ \E e \in Spelling : DeleteAccount(e)
<1>1. CASE UNCHANGED accountVars
  BY <1>1 DEF accountVars
<1>2. CASE ApiStep
  BY <1>2 DEF ApiStep, Start, StartUnprepared, Stop, Register
<1>3. ASSUME NEW b \in Browser, BrowserStep(b)
      PROVE  /\ UNCHANGED <<now, users, tables, api, lostAdmin>>
             /\ \/ UNCHANGED login
                \/ \E s \in Spelling, p \in Password : LoginRead(b, s, p)
                \/ LoginAnswer(b) \/ LoginFails(b)
             /\ \/ UNCHANGED session
                \/ LoginAnswer(b) \/ LogOut(b) \/ ExpiredRequest(b) \/ AccountGone(b)
  BY <1>3 DEF BrowserStep, LoginRead, LoginAnswer, LoginFails, LogOut,
     ExpiredRequest, AccountGone
<1>4. ASSUME NEW e \in Spelling, OperatorStep(e)
      PROVE  /\ UNCHANGED <<now, tables, api, login, session>>
             /\ DeleteAccount(e) \/ \E r \in Role : SetRole(e, r)
  BY <1>4 DEF OperatorStep, DeleteAccount, SetRole
<1>5. CASE Tick
  BY <1>5 DEF Tick
<1>6. QED
  BY <1>1, <1>2, <1>3, <1>4, <1>5 DEF AccountsNext

\* Every step keeps the types.
LEMMA AccountsTypeStep ==
  ASSUME AccountsTypeOK, [AccountsNext]_accountVars
  PROVE  AccountsTypeOK'
<1> USE Settings
<1>0. /\ users \in [Spelling -> Account \cup {NoAccount}]
      /\ login \in [Browser -> {NoLogin} \cup Logins]
      /\ session \in [Browser -> {SignedOut} \cup Tokens]
      /\ lostAdmin \in [Spelling -> Int] /\ now \in 0..MaxTime /\ now \in Int
  BY DEF AccountsTypeOK, Logins, Tokens
<1> SUFFICES /\ now' \in 0..MaxTime
             /\ users' \in [Spelling -> Account \cup {NoAccount}]
             /\ tables' \in BOOLEAN
             /\ api' \in {"down", "up"}
             /\ login' \in [Browser -> {NoLogin} \cup Logins]
             /\ session' \in [Browser -> {SignedOut} \cup Tokens]
             /\ lostAdmin' \in [Spelling -> Int]
  BY DEF AccountsTypeOK, Logins, Tokens
<1>1. now' \in 0..MaxTime
  BY <1>0, Frame DEF Tick
<1>3. tables' \in BOOLEAN
  <2>1. CASE Start
    <3>1. tables' = TRUE
      BY <2>1 DEF Start
    <3>2. QED
      BY <3>1
  <2>2. CASE tables' = tables
    BY <2>2 DEF AccountsTypeOK
  <2>3. QED
    BY <2>1, <2>2, Frame
<1>4. api' \in {"down", "up"}
  <2>1. CASE UNCHANGED api
    BY <2>1 DEF AccountsTypeOK
  <2>2. QED
    BY <2>1, Frame DEF Start, StartUnprepared, Stop
<1>5. lostAdmin' \in [Spelling -> Int]
  BY <1>0, Frame DEF SetRole, DeleteAccount
<1>6. users' \in [Spelling -> Account \cup {NoAccount}]
  <2>1. CASE Start
    <3>1. [role |-> "admin", password |-> AdminPassword] \in Account
      BY DEF Account, Role
    <3>2. QED
      BY <1>0, <2>1, <3>1, InsertUserProperties DEF Start
  <2>2. ASSUME NEW s \in Spelling, NEW p \in Password, Register(s, p)
        PROVE  users' \in [Spelling -> Account \cup {NoAccount}]
    <3>1. [role |-> NewUserRole, password |-> p] \in Account
      BY DEF Account, Role, NewUserRole
    <3>2. Stored(s) \in Spelling
      BY StoredIsCanonical
    <3>3. QED
      BY <1>0, <2>2, <3>1, <3>2, InsertUserProperties DEF Register
  <2>3. ASSUME NEW e \in Spelling, NEW r \in Role, SetRole(e, r)
        PROVE  users' \in [Spelling -> Account \cup {NoAccount}]
    <3>1. users[e] \in Account
      BY <1>0, <2>3 DEF SetRole, Exists
    <3>2. [users[e] EXCEPT !.role = r] \in Account
      BY <3>1 DEF Account
    <3>3. users' = [users EXCEPT ![e] = [users[e] EXCEPT !.role = r]]
      BY <1>0, <2>3 DEF SetRole
    <3>4. QED
      BY <1>0, <3>2, <3>3
  <2>4. ASSUME NEW e \in Spelling, DeleteAccount(e)
        PROVE  users' \in [Spelling -> Account \cup {NoAccount}]
    BY <1>0, <2>4 DEF DeleteAccount
  <2>5. CASE UNCHANGED users
    BY <1>0, <2>5
  <2>6. QED
    BY <2>1, <2>2, <2>3, <2>4, <2>5, Frame
<1>7. login' \in [Browser -> {NoLogin} \cup Logins]
  <2>1. ASSUME NEW b \in Browser, NEW s \in Spelling, NEW p \in Password,
               LoginRead(b, s, p)
        PROVE  login' \in [Browser -> {NoLogin} \cup Logins]
    <3>1. Stored(s) \in Spelling
      BY StoredIsCanonical
    <3>2. users[Stored(s)] \in Account
      BY <1>0, <2>1, <3>1 DEF LoginRead, Exists
    <3>3. [role |-> users[Stored(s)].role, email |-> Stored(s), at |-> now]
            \in Logins
      BY <1>0, <3>1, <3>2 DEF Account, Logins
    <3>4. QED
      BY <1>0, <2>1, <3>3 DEF LoginRead
  <2>2. ASSUME NEW b \in Browser, login' = [login EXCEPT ![b] = NoLogin]
        PROVE  login' \in [Browser -> {NoLogin} \cup Logins]
    BY <1>0, <2>2
  <2>3. CASE login' = [b \in Browser |-> NoLogin] \/ login' = login
    BY <1>0, <2>3
  <2>4. QED
    BY <2>1, <2>2, <2>3, Frame DEF Stop, LoginAnswer, LoginFails
<1>8. session' \in [Browser -> {SignedOut} \cup Tokens]
  <2>1. ASSUME NEW b \in Browser, LoginAnswer(b)
        PROVE  session' \in [Browser -> {SignedOut} \cup Tokens]
    <3>1. login[b] \in Logins
      BY <1>0, <2>1 DEF LoginAnswer, StillWaits
    <3>2. [role |-> login[b].role, email |-> login[b].email, exp |-> ExpiresAt]
            \in Tokens
      BY <1>0, <3>1 DEF Logins, Tokens, ExpiresAt
    <3>3. QED
      BY <1>0, <2>1, <3>2 DEF LoginAnswer
  <2>2. ASSUME NEW b \in Browser, SignOut(b)
        PROVE  session' \in [Browser -> {SignedOut} \cup Tokens]
    BY <1>0, <2>2 DEF SignOut
  <2>3. CASE UNCHANGED session
    BY <1>0, <2>3
  <2>4. QED
    BY <2>1, <2>2, <2>3, Frame DEF LogOut, ExpiredRequest, AccountGone
<1>9. QED
  BY <1>1, <1>3, <1>4, <1>5, <1>6, <1>7, <1>8

----------------------------------------------------------------------------
\* No step takes the admin's role from an address without dating that, and
\* no step stores a spelling that is not canonical.
LEMMA UsersStep ==
  ASSUME AccountsInv, [AccountsNext]_accountVars
  PROVE  AdminsKept /\ CanonicalInv'
<1>0. users \in [Spelling -> Account \cup {NoAccount}] /\ lostAdmin \in [Spelling -> Int]
  BY DEF AccountsInv, AccountsTypeOK
<1>1. ASSUME NEW e \in Spelling, NEW row \in Account, Canonical[e] = e,
             users' = InsertUser(e, row), lostAdmin' = lostAdmin
      PROVE  AdminsKept /\ CanonicalInv'
  <2>1. \A f \in Spelling : users[f] # NoAccount => users'[f] = users[f]
    BY <1>0, <1>1, InsertUserProperties
  <2>2. \A f \in Spelling : f # e => users'[f] = users[f]
    BY <1>0, <1>1, InsertUserProperties
  <2>3. AdminsKept
    BY <1>1, <2>1 DEF AdminsKept, IsAdmin
  <2>4. CanonicalInv'
    BY <1>1, <2>2 DEF CanonicalInv, AccountsInv, Exists
  <2>5. QED
    BY <2>3, <2>4
<1>2. CASE Start
  <2>1. [role |-> "admin", password |-> AdminPassword] \in Account
    BY Settings DEF Account, Role
  <2>2. QED
    BY <1>1, <1>2, <2>1, Settings, AccountAssumption DEF Start, AdminKey
<1>3. ASSUME NEW s \in Spelling, NEW p \in Password, Register(s, p)
      PROVE  AdminsKept /\ CanonicalInv'
  <2>1. [role |-> NewUserRole, password |-> p] \in Account
    BY DEF Account, Role, NewUserRole
  <2>2. Stored(s) \in Spelling /\ Canonical[Stored(s)] = Stored(s)
    BY StoredIsCanonical
  <2>3. QED
    BY <1>1, <1>3, <2>1, <2>2 DEF Register
<1>4. ASSUME NEW e \in Spelling, NEW r \in Role, SetRole(e, r)
      PROVE  AdminsKept /\ CanonicalInv'
  <2>1. users[e] \in Account
    BY <1>0, <1>4 DEF SetRole, Exists
  <2>2. users' = [users EXCEPT ![e] = [users[e] EXCEPT !.role = r]]
    BY <1>0, <1>4 DEF SetRole
  <2>3. [users[e] EXCEPT !.role = r] \in Account /\ [users[e] EXCEPT !.role = r].role = r
    BY <2>1 DEF Account
  <2>4. users'[e] # NoAccount /\ users'[e].role = r
    BY <1>0, <2>2, <2>3, Absent
  <2>5. \A f \in Spelling : f # e => users'[f] = users[f] /\ lostAdmin'[f] = lostAdmin[f]
    BY <1>0, <1>4, <2>2 DEF SetRole
  <2>6. (r = "admin" /\ lostAdmin'[e] = lostAdmin[e]) \/ lostAdmin'[e] = now
    BY <1>0, <1>4 DEF SetRole, Role
  <2>7. AdminsKept
    BY <2>4, <2>5, <2>6 DEF AdminsKept, IsAdmin
  <2>8. CanonicalInv'
    BY <1>4, <2>5 DEF CanonicalInv, AccountsInv, Exists, SetRole
  <2>9. QED
    BY <2>7, <2>8
<1>5. ASSUME NEW e \in Spelling, DeleteAccount(e)
      PROVE  AdminsKept /\ CanonicalInv'
  <2>1. /\ users'[e] = NoAccount
        /\ \A f \in Spelling : f # e =>
             users'[f] = users[f] /\ lostAdmin'[f] = lostAdmin[f]
        /\ IF users[e].role = "admin" THEN lostAdmin'[e] = now
                                      ELSE lostAdmin'[e] = lostAdmin[e]
    BY <1>0, <1>5 DEF DeleteAccount
  <2>2. AdminsKept
    BY <2>1 DEF AdminsKept, IsAdmin
  <2>3. CanonicalInv'
    BY <2>1 DEF CanonicalInv, AccountsInv, Exists
  <2>4. QED
    BY <2>2, <2>3
<1>6. CASE UNCHANGED <<users, lostAdmin>>
  BY <1>6 DEF AdminsKept, IsAdmin, CanonicalInv, AccountsInv, Exists
<1>7. QED
  BY <1>2, <1>3, <1>4, <1>5, <1>6, Frame

----------------------------------------------------------------------------
\* A login reads its row now, and a token is dated before the browser has
\* stopped waiting: both keep the invariant.  Every other step starts neither.
LEMMA AccountsInvStep ==
  ASSUME AccountsInv, [AccountsNext]_accountVars
  PROVE  AccountsInv'
<1>1. AccountsTypeOK'
  BY AccountsTypeStep DEF AccountsInv
<1>2. AdminsKept /\ CanonicalInv'
  BY UsersStep
<1>3. now \in Int /\ (now' = now \/ now' = now + 1)
  BY Frame, Settings DEF Tick, AccountsInv, AccountsTypeOK
<1>4. /\ login \in [Browser -> {NoLogin} \cup Logins]
      /\ session \in [Browser -> {SignedOut} \cup Tokens]
      /\ users \in [Spelling -> Account \cup {NoAccount}]
      /\ lostAdmin \in [Spelling -> Int]
  BY DEF AccountsInv, AccountsTypeOK, Logins, Tokens
<1>5. ASSUME NEW b \in Browser, NEW s \in Spelling, NEW p \in Password, LoginRead(b, s, p)
      PROVE  LoginInv' /\ TokenInv'
  <2>1. /\ now' = now /\ users' = users /\ session' = session
        /\ \A c \in Browser \ {b} : login'[c] = login[c]
        /\ login'[b] = [role |-> users[Stored(s)].role, email |-> Stored(s), at |-> now]
        /\ users[Stored(s)] # NoAccount
    BY <1>4, <1>5 DEF LoginRead, Exists
  <2>2. login'[b].at = now /\ login'[b].email = Stored(s)
        /\ login'[b].role = users[Stored(s)].role
    BY <2>1
  <2>3. /\ login'[b].at <= now'
        /\ login'[b].role = "admin" => IsAdmin(users', login'[b].email)
    BY <1>3, <2>1, <2>2 DEF IsAdmin
  <2>4. LoginInv'
    BY <1>2, <1>3, <2>1, <2>3, KeepLogins DEF LoginInv
  <2>5. TokenInv'
    BY <1>2, <1>3, <2>1, KeepTokens DEF TokenInv
  <2>6. QED
    BY <2>4, <2>5
<1>6. ASSUME NEW b \in Browser, LoginAnswer(b)
      PROVE  LoginInv' /\ TokenInv'
  <2>1. /\ now' = now /\ users' = users /\ lostAdmin' = lostAdmin
        /\ \A c \in Browser : login'[c] \in {login[c], NoLogin}
        /\ \A c \in Browser \ {b} : session'[c] = session[c]
        /\ session'[b] = [role |-> login[b].role, email |-> login[b].email,
                          exp |-> now + Expiry]
        /\ login[b] # NoLogin /\ now <= login[b].at + ApiTimeout
    BY <1>4, <1>6 DEF LoginAnswer, StillWaits, ExpiresAt
  <2>2. session'[b].exp = now + Expiry /\ session'[b].email = login[b].email
        /\ session'[b].role = login[b].role
    BY <2>1
  <2>3. login[b] \in Logins
    BY <1>4, <2>1
  <2>4. login[b].at \in Int /\ login[b].email \in Spelling
        /\ Expiry \in Int /\ ApiTimeout \in Int
    BY <2>3, Settings DEF Logins
  <2>5. lostAdmin[login[b].email] \in Int
    BY <1>4, <2>4
  <2>6. login[b].role = "admin" =>
          IsAdmin(users, login[b].email) \/ login[b].at <= lostAdmin[login[b].email]
    BY <2>1 DEF AccountsInv, LoginInv
  <2>7. now + Expiry <= login[b].at + ApiTimeout + Expiry
    BY <1>3, <2>1, <2>4
  <2>8. login[b].at <= lostAdmin[login[b].email] =>
          now + Expiry <= lostAdmin[login[b].email] + ApiTimeout + Expiry
    BY <1>3, <2>4, <2>5, <2>7
  <2>9. /\ session'[b].exp <= now' + Expiry
        /\ session'[b].role = "admin" =>
             \/ IsAdmin(users', session'[b].email)
             \/ session'[b].exp <= lostAdmin'[session'[b].email] + ApiTimeout + Expiry
    <3>1. session'[b].exp <= now' + Expiry
      BY <1>3, <2>1, <2>2, <2>4
    <3>2. QED
      BY <2>1, <2>2, <2>6, <2>8, <3>1
  <2>10. TokenInv'
    BY <1>2, <1>3, <2>1, <2>9, KeepTokens DEF TokenInv
  <2>11. LoginInv'
    BY <1>2, <1>3, <2>1, KeepLogins DEF LoginInv
  <2>12. QED
    BY <2>10, <2>11
<1>7. ASSUME \A b \in Browser : login'[b] \in {login[b], NoLogin},
             \A b \in Browser : session'[b] \in {session[b], SignedOut}
      PROVE  LoginInv' /\ TokenInv'
  BY <1>2, <1>3, <1>7, KeepBoth
<1>8. ASSUME \A b \in Browser, s \in Spelling, p \in Password : ~LoginRead(b, s, p),
             \A b \in Browser : ~LoginAnswer(b)
      PROVE  /\ \A b \in Browser : login'[b] \in {login[b], NoLogin}
             /\ \A b \in Browser : session'[b] \in {session[b], SignedOut}
  <2>1. \/ UNCHANGED login
        \/ login' = [c \in Browser |-> NoLogin]
        \/ \E b \in Browser : login' = [login EXCEPT ![b] = NoLogin]
    BY <1>8, Frame DEF Stop, LoginFails
  <2>2. UNCHANGED session \/ \E b \in Browser : session' = [session EXCEPT ![b] = SignedOut]
    BY <1>8, Frame DEF LogOut, ExpiredRequest, AccountGone, SignOut
  <2>3. \A b \in Browser : login'[b] \in {login[b], NoLogin}
    BY <1>4, <2>1
  <2>4. \A b \in Browser : session'[b] \in {session[b], SignedOut}
    BY <1>4, <2>2
  <2>5. QED
    BY <2>3, <2>4
<1>9. LoginInv' /\ TokenInv'
  BY <1>5, <1>6, <1>7, <1>8
<1>10. QED
  BY <1>1, <1>2, <1>9 DEF AccountsInv

\* The invariant holds in every state, whoever registers, signs in, restarts
\* the api or edits the table.
THEOREM AccountsInvariance == AccountsSpec => []AccountsInv
BY AccountsInitInv, AccountsInvStep, PTL DEF AccountsSpec

----------------------------------------------------------------------------
\* Every variable of Accounts keeps its type: what a login has read and a
\* token says are a role and an address of the table.
THEOREM AccountTypes == AccountsSpec => []AccountsTypeOK
<1>1. AccountsInv => AccountsTypeOK
  BY DEF AccountsInv
<1>2. QED
  BY <1>1, AccountsInvariance, PTL

\* Whatever spellings people type and the seed admin is configured with, no
\* two stored addresses are spellings of one.
THEOREM OneAccount == AccountsSpec => []OneAccountPerAddress
<1>1. AccountsInv => OneAccountPerAddress
  BY DEF AccountsInv, CanonicalInv, OneAccountPerAddress
<1>2. QED
  BY <1>1, AccountsInvariance, PTL

\* A token that is still valid was dated after the row of an admin was read.
LEMMA AdminsLately ==
  AccountsInv => DemotedLosesPower
<1>1. SUFFICES ASSUME AccountsInv, NEW b \in Browser, Valid(b),
                      session[b].role = "admin"
               PROVE  AdminLately(session[b].email)
  BY DEF DemotedLosesPower
<1>2. session[b] \in Tokens /\ now < session[b].exp
  BY <1>1 DEF Valid, AccountsInv, AccountsTypeOK, Tokens
<1>3. /\ session[b].exp \in Int /\ session[b].email \in Spelling
      /\ now \in Int /\ Expiry \in Int /\ ApiTimeout \in Int
  BY <1>1, <1>2, Settings DEF Tokens, AccountsInv, AccountsTypeOK
<1>4. lostAdmin[session[b].email] \in Int
  BY <1>1, <1>3 DEF AccountsInv, AccountsTypeOK
<1>5. \/ IsAdmin(users, session[b].email)
      \/ session[b].exp <= lostAdmin[session[b].email] + ApiTimeout + Expiry
  BY <1>1 DEF AccountsInv, TokenInv, Valid
<1>6. session[b].exp <= lostAdmin[session[b].email] + ApiTimeout + Expiry =>
        now < lostAdmin[session[b].email] + ApiTimeout + Expiry
  BY <1>2, <1>3, <1>4
<1>7. QED
  BY <1>5, <1>6 DEF AdminLately, IsAdmin, Exists

\* Whoever holds a valid admin's token is an admin, or was one within the
\* token's life and the longest wait for a login's answer.
THEOREM PowersEnd == AccountsSpec => []DemotedLosesPower
BY AdminsLately, AccountsInvariance, PTL

\* Neither a registration nor a start of the api changes an account there is,
\* and the only admin they create is the seed's.
THEOREM KeepWhatTheyAre == AccountsSpec => AccountsKeepWhatTheyAre
<1>1. ASSUME AccountsInv, [AccountsNext]_accountVars, ApiStep, NEW e \in Spelling
      PROVE  /\ Exists(e) => users'[e] = users[e]
             /\ users'[e] # users[e] /\ users'[e].role = "admin" =>
                  e = Canonical[AdminEmail]
  <2>0. users \in [Spelling -> Account \cup {NoAccount}]
    BY <1>1 DEF AccountsInv, AccountsTypeOK
  <2>1. CASE Start
    <3>1. [role |-> "admin", password |-> AdminPassword] \in Account
      BY Settings DEF Account, Role
    <3>2. QED
      BY <2>0, <2>1, <3>1, Settings, InsertUserProperties DEF Start, AdminKey, Exists
  <2>2. ASSUME NEW s \in Spelling, NEW p \in Password, Register(s, p)
        PROVE  /\ Exists(e) => users'[e] = users[e]
               /\ users'[e] # users[e] => users'[e].role # "admin"
    <3>1. /\ [role |-> NewUserRole, password |-> p] \in Account
          /\ [role |-> NewUserRole, password |-> p].role # "admin"
      BY DEF Account, Role, NewUserRole
    <3>2. Stored(s) \in Spelling
      BY StoredIsCanonical
    <3>3. users' = InsertUser(Stored(s), [role |-> NewUserRole, password |-> p])
      BY <2>2 DEF Register
    <3>4. QED
      BY <2>0, <3>1, <3>2, <3>3, InsertUserProperties DEF Exists
  <2>3. CASE StartUnprepared \/ Stop
    BY <2>3 DEF StartUnprepared, Stop
  <2>4. QED
    BY <1>1, <2>1, <2>2, <2>3 DEF ApiStep
<1>2. AccountsInv /\ [AccountsNext]_accountVars =>
        [ApiStep => \A e \in Spelling :
           /\ Exists(e) => users'[e] = users[e]
           /\ users'[e] # users[e] /\ users'[e].role = "admin" =>
                e = Canonical[AdminEmail]]_users
  BY <1>1
<1>3. QED
  BY <1>2, AccountsInvariance, PTL DEF AccountsKeepWhatTheyAre, AccountsSpec

----------------------------------------------------------------------------
\* SeedIsNotTaken, and before there are tables there is no account.
SeedInv == SeedIsNotTaken /\ (~tables => \A e \in Spelling : ~Exists(e))

\* An account of the seed's address that is an admin's stays one, or what took
\* the role away was dated; nothing takes that date back.
LEMMA SeedStays ==
  ASSUME AccountsInv, [AccountsNext]_accountVars, NEW e \in Spelling,
         IsAdmin(users, e) \/ lostAdmin[e] # LongAgo
  PROVE  IsAdmin(users', e) \/ lostAdmin'[e] # LongAgo
<1>1. now \in Int /\ now >= 0 /\ now # LongAgo
  BY Settings DEF AccountsInv, AccountsTypeOK, LongAgo
<1>2. \/ (IsAdmin(users, e) => IsAdmin(users', e)) /\ lostAdmin'[e] = lostAdmin[e]
      \/ lostAdmin'[e] = now
  BY UsersStep DEF AdminsKept
<1>3. QED
  BY <1>1, <1>2

LEMMA SeedStep ==
  ASSUME AccountsInv, SeedInv, [AccountsNext]_accountVars
  PROVE  SeedInv'
<1> DEFINE seed == Canonical[AdminEmail]
<1>0. seed \in Spelling /\ AdminKey = seed
  BY Settings DEF AdminKey
<1>1. users \in [Spelling -> Account \cup {NoAccount}]
  BY DEF AccountsInv, AccountsTypeOK
<1>2. CASE tables
  <2>1. tables'
    BY <1>2, Frame DEF Start
  <2>2. IsAdmin(users, seed) \/ lostAdmin[seed] # LongAgo
    BY <1>2 DEF SeedInv, SeedIsNotTaken, IsAdmin, Exists
  <2>3. IsAdmin(users', seed) \/ lostAdmin'[seed] # LongAgo
    BY <1>0, <2>2, SeedStays
  <2>4. QED
    BY <2>1, <2>3 DEF SeedInv, SeedIsNotTaken, IsAdmin, Exists
<1>3. CASE ~tables /\ Start
  <2>1. ~Exists(seed)
    BY <1>0, <1>3 DEF SeedInv
  <2>2. users'[seed] = [role |-> "admin", password |-> AdminPassword]
    BY <1>0, <1>1, <1>3, <2>1 DEF Start, InsertUser
  <2>3. [role |-> "admin", password |-> AdminPassword] \in Account
    BY Settings DEF Account, Role
  <2>4. IsAdmin(users', seed) /\ tables'
    BY <1>3, <2>2, <2>3, Absent DEF IsAdmin, Start
  <2>5. QED
    BY <2>4 DEF SeedInv, SeedIsNotTaken, IsAdmin, Exists
<1>4. CASE ~tables /\ ~Start
  <2>1. tables' = tables
    BY <1>4, Frame
  <2>2. users' = users
    BY <1>1, <1>4, Frame DEF Register, SetRole, DeleteAccount, SeedInv
  <2>3. QED
    BY <1>4, <2>1, <2>2 DEF SeedInv, SeedIsNotTaken, Exists
<1>5. QED
  BY <1>2, <1>3, <1>4

\* From the first start that reaches Postgres the seed's address is an
\* admin's until an operator changes that: nobody else can register it.
THEOREM SeedKeepsItsAddress == AccountsSpec => []SeedIsNotTaken
<1>1. AccountsInit => SeedInv
  BY DEF AccountsInit, SeedInv, SeedIsNotTaken, Exists
<1>2. AccountsInv /\ SeedInv /\ [AccountsNext]_accountVars => SeedInv'
  BY SeedStep
<1>3. SeedInv => SeedIsNotTaken
  BY DEF SeedInv
<1>4. QED
  BY <1>1, <1>2, <1>3, AccountsInvariance, PTL DEF AccountsSpec

=============================================================================
