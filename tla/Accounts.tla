------------------------------ MODULE Accounts ------------------------------
(***************************************************************************)
(* Accounts and sign-in: the api's users table with its seed admin         *)
(* (api/main.py, api/db.py), its stateless tokens (api/tokens.py), and     *)
(* what each browser session of the dashboard holds of them                *)
(* (dashboard/app.py, dashboard/ui.py).  The api runs its handlers on a    *)
(* thread pool: a login reads the user's row and issues a token from that  *)
(* row later, and everything else may happen in between.                   *)
(*                                                                         *)
(* People type addresses in several spellings; an account is stored under  *)
(* one of them.  Time is counted in ticks.                                 *)
(***************************************************************************)
EXTENDS Integers

CONSTANTS
  Spelling,      \* the ways in which addresses are typed
  Canonical,     \* a spelling trimmed and lower-cased
  AdminEmail,    \* API_ADMIN_EMAIL
  Password,      \* passwords
  AdminPassword, \* API_ADMIN_PASSWORD
  Browser,       \* browser sessions of the dashboard
  Expiry,        \* JWT_EXPIRY_SECONDS
  ApiTimeout,    \* the dashboard's API_TIMEOUT_SECONDS
  MaxTime,       \* bound: the tick at which the clock stops
  Operator       \* what an operator may do to users in the database

OperatorKinds == {"promote", "demote", "delete"}

\* What load_config lets through, when it names a seed admin.
ValidSettings ==
  /\ Expiry \in Nat \ {0}
  /\ AdminEmail \in Spelling
  /\ AdminPassword \in Password

ASSUME AccountAssumption ==
  /\ Canonical \in [Spelling -> Spelling]
  /\ \A s \in Spelling : Canonical[Canonical[s]] = Canonical[s]
  /\ ValidSettings
  /\ ApiTimeout \in Nat \ {0}
  /\ MaxTime \in Nat
  /\ Operator \subseteq OperatorKinds

VARIABLES
  now,       \* the clock
  users,     \* Postgres: the row of users stored under each spelling
  tables,    \* Postgres: apply_schema has run once
  api,       \* the api: "down", or "up" and answering
  login,     \* the login each browser is waiting for, with the row it read
  session,   \* each browser's st.session_state: token, role and email
  lostAdmin  \* history: when an address last stopped being an admin's, or
             \* LongAgo

accountVars == <<now, users, tables, api, login, session, lostAdmin>>

----------------------------------------------------------------------------
Role == {"user", "admin"}
Account == [role : Role, password : Password]
NoAccount == [role |-> "none"]
Exists(e) == users[e] # NoAccount

\* Before any token that is still valid was dated.
LongAgo == -(ApiTimeout + Expiry)

NoLogin == [role |-> "none"]
SignedOut == [role |-> "none"]

\* The Email type of the api's requests, and strip().lower() elsewhere.
Stored(s) == Canonical[s]

\* Mutant: ON CONFLICT (email) DO UPDATE.
Upsert(e, row) == [users EXCEPT ![e] = row]

\* INSERT INTO users ... ON CONFLICT (email) DO NOTHING.
InsertUser(e, row) ==
  [users EXCEPT ![e] = IF Exists(e) THEN @ ELSE row]

\* decode_token: the signature always matches, the expiry is compared with
\* the clock, and neither the role nor the account is looked up again.
Valid(b) == session[b] # SignedOut /\ now < session[b].exp

----------------------------------------------------------------------------
AccountsInit ==
  /\ now = 0
  /\ users = [e \in Spelling |-> NoAccount]
  /\ tables = FALSE
  /\ api = "down"
  /\ login = [b \in Browser |-> NoLogin]
  /\ session = [b \in Browser |-> SignedOut]
  /\ lostAdmin = [e \in Spelling |-> LongAgo]

\* Mutant: the seed admin is stored under the spelling of the setting.
AdminKeyAsSet == AdminEmail

\* prepare_database lower-cases the configured address itself.
AdminKey == Canonical[AdminEmail]

\* Mutant: the schema is committed before the seed is inserted, which may fail.
StartInTwo ==
  /\ api = "down"
  /\ api' = "up"
  /\ tables' = TRUE
  /\ \/ users' = InsertUser(AdminKey, [role |-> "admin", password |-> AdminPassword])
     \/ UNCHANGED users
  /\ UNCHANGED <<now, login, session, lostAdmin>>

\* lifespan: one transaction creates the tables and seeds the admin, unless
\* the address already has an account.
Start ==
  /\ api = "down"
  /\ api' = "up"
  /\ tables' = TRUE
  /\ users' = InsertUser(AdminKey, [role |-> "admin", password |-> AdminPassword])
  /\ UNCHANGED <<now, login, session, lostAdmin>>

\* Postgres is away: the error is printed, and the api serves without tables
\* or without its admin until it is started again.
StartUnprepared ==
  /\ api = "down"
  /\ api' = "up"
  /\ UNCHANGED <<now, users, tables, login, session, lostAdmin>>

\* The container stops; the requests it was working on are not answered.
Stop ==
  /\ api = "up"
  /\ api' = "down"
  /\ login' = [b \in Browser |-> NoLogin]
  /\ UNCHANGED <<now, users, tables, session, lostAdmin>>

\* Mutant: a role that the table's CHECK does not know.
UnknownRole == "member"

NewUserRole == "user"

\* POST /auth/register from the form of a signed-out browser, or from any
\* other client: 201, or 409 when the address has an account.
Register(s, p) ==
  /\ api = "up" /\ tables
  /\ users' = InsertUser(Stored(s), [role |-> NewUserRole, password |-> p])
  /\ UNCHANGED <<now, tables, api, login, session, lostAdmin>>

\* POST /auth/login: read_user finds a row whose password verifies.  The row
\* is not read again.  A wrong password or an unknown address answers 401 and
\* changes nothing.
LoginRead(b, s, p) ==
  /\ api = "up" /\ tables
  /\ session[b] = SignedOut /\ login[b] = NoLogin
  /\ Exists(Stored(s)) /\ users[Stored(s)].password = p
  /\ login' = [login EXCEPT ![b] =
                 [role |-> users[Stored(s)].role, email |-> Stored(s), at |-> now]]
  /\ UNCHANGED <<now, users, tables, api, session, lostAdmin>>

\* The browser waits ApiTimeout for its answer.
StillWaits(b) == login[b] # NoLogin /\ now <= login[b].at + ApiTimeout

\* Mutant: a token of twice the configured life.
ExpiresLate == now + 2 * Expiry

ExpiresAt == now + Expiry

\* create_token, and render_login keeping token, role and address.
LoginAnswer(b) ==
  /\ StillWaits(b)
  /\ session' = [session EXCEPT ![b] =
                   [role  |-> login[b].role,
                    email |-> login[b].email,
                    exp   |-> ExpiresAt]]
  /\ login' = [login EXCEPT ![b] = NoLogin]
  /\ UNCHANGED <<now, users, tables, api, lostAdmin>>

\* The call times out, or its answer is an error: nobody is signed in.
LoginFails(b) ==
  /\ login[b] # NoLogin
  /\ login' = [login EXCEPT ![b] = NoLogin]
  /\ UNCHANGED <<now, users, tables, api, session, lostAdmin>>

SignOut(b) == session' = [session EXCEPT ![b] = SignedOut]

\* "Log out" in the sidebar.
LogOut(b) ==
  /\ session[b] # SignedOut
  /\ SignOut(b)
  /\ UNCHANGED <<now, users, tables, api, login, lostAdmin>>

\* Any request with a token that has expired: 401, and end_dead_session.
ExpiredRequest(b) ==
  /\ api = "up"
  /\ session[b] # SignedOut /\ ~Valid(b)
  /\ SignOut(b)
  /\ UNCHANGED <<now, users, tables, api, login, lostAdmin>>

\* A request that needs the account of a valid token, which is gone: 401 too.
AccountGone(b) ==
  /\ api = "up"
  /\ Valid(b) /\ ~Exists(session[b].email)
  /\ SignOut(b)
  /\ UNCHANGED <<now, users, tables, api, login, lostAdmin>>

\* An operator edits a role in the database: the api has no call for it.
SetRole(e, r) ==
  /\ Exists(e) /\ users[e].role # r
  /\ IF r = "admin" THEN "promote" \in Operator ELSE "demote" \in Operator
  /\ users' = [users EXCEPT ![e].role = r]
  /\ lostAdmin' = IF r = "user" THEN [lostAdmin EXCEPT ![e] = now] ELSE lostAdmin
  /\ UNCHANGED <<now, tables, api, login, session>>

\* An operator deletes an account.
DeleteAccount(e) ==
  /\ "delete" \in Operator
  /\ Exists(e)
  /\ users' = [users EXCEPT ![e] = NoAccount]
  /\ lostAdmin' = IF users[e].role = "admin"
                  THEN [lostAdmin EXCEPT ![e] = now] ELSE lostAdmin
  /\ UNCHANGED <<now, tables, api, login, session>>

Tick ==
  /\ now < MaxTime
  /\ now' = now + 1
  /\ UNCHANGED <<users, tables, api, login, session, lostAdmin>>

----------------------------------------------------------------------------
ApiStep ==
  \/ Start \/ StartUnprepared \/ Stop
  \/ \E s \in Spelling, p \in Password : Register(s, p)

BrowserStep(b) ==
  \/ \E s \in Spelling, p \in Password : LoginRead(b, s, p)
  \/ LoginAnswer(b) \/ LoginFails(b)
  \/ LogOut(b) \/ ExpiredRequest(b) \/ AccountGone(b)

OperatorStep(e) == DeleteAccount(e) \/ \E r \in Role : SetRole(e, r)

AccountsNext ==
  \/ ApiStep
  \/ \E b \in Browser : BrowserStep(b)
  \/ \E e \in Spelling : OperatorStep(e)
  \/ Tick

AccountsSpec == AccountsInit /\ [][AccountsNext]_accountVars

----------------------------------------------------------------------------
AccountsTypeOK ==
  /\ now \in 0..MaxTime
  /\ users \in [Spelling -> Account \cup {NoAccount}]
  /\ tables \in BOOLEAN
  /\ api \in {"down", "up"}
  /\ login \in [Browser -> {NoLogin} \cup
                  [role : Role, email : Spelling, at : 0..MaxTime]]
  /\ session \in [Browser -> {SignedOut} \cup
                    [role : Role, email : Spelling, exp : Nat]]
  /\ lostAdmin \in [Spelling -> Int]

\* One address, one account, whoever types it and however the seed admin is
\* configured (main.py: "without the lower-casing one person could hold two
\* accounts"): no two stored addresses differ only in case or blanks.
OneAccountPerAddress ==
  \A e, f \in Spelling :
    Exists(e) /\ Exists(f) /\ Canonical[e] = Canonical[f] => e = f

\* The address is an admin's, or was within the time a token may live.
AdminLately(e) ==
  \/ Exists(e) /\ users[e].role = "admin"
  \/ now < lostAdmin[e] + ApiTimeout + Expiry

\* A token's lifetime bounds how long a demoted or deleted admin keeps the
\* old powers (config.py, MAX_EXPIRY_SECONDS).  The role is read before the
\* token is dated, so the wait for a login's answer adds to it.
DemotedLosesPower ==
  \A b \in Browser :
    Valid(b) /\ session[b].role = "admin" => AdminLately(session[b].email)

\* Nobody takes the seed's address before the seed: whenever there are tables
\* to register in, that address is an admin's, however often the api started
\* without Postgres and whoever registered meanwhile, unless an operator has
\* demoted or deleted it (prepare_database: schema and seed commit together).
SeedIsNotTaken ==
  LET seed == Canonical[AdminEmail]
  IN tables => \/ Exists(seed) /\ users[seed].role = "admin"
               \/ lostAdmin[seed] # LongAgo

\* Whoever registers again and however often the api starts, an account
\* keeps its password and its role; only the seed's address can become an
\* admin's without an operator.
AccountsKeepWhatTheyAre ==
  [][ApiStep => \A e \in Spelling :
       /\ Exists(e) => users'[e] = users[e]
       /\ users'[e] # users[e] /\ users'[e].role = "admin" => e = Canonical[AdminEmail]]_users

=============================================================================
