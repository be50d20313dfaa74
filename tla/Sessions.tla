------------------------------ MODULE Sessions ------------------------------
(***************************************************************************)
(* The sessions of the admin console: accounts created and deleted by the   *)
(* vendor, logins, refresh tokens that are consumed and replaced, logouts.  *)
(* Every handler is a sequence of separately committed statements, so any   *)
(* other handler may act between two of them.  The vendor console keeps     *)
(* its sessions with the same statements, for accounts that never go away.  *)
(* Passwords are left out: the check of one is a login that goes on or not. *)
(***************************************************************************)
EXTENDS Integers, FiniteSets

CONSTANTS
  Emails,     \* addresses
  Tenants,    \* tenants the vendor creates accounts for
  Handlers,   \* requests in flight at the same time
  MaxUsers,   \* bound: admin_users rows ever inserted
  MaxTokens,  \* bound: refresh_tokens rows ever inserted
  MaxCalls,   \* bound: requests ever made
  MaxFaults   \* bound: handlers cut short

ASSUME BoundsAssumption ==
  /\ MaxUsers \in Nat
  /\ MaxTokens \in Nat
  /\ MaxCalls \in Nat
  /\ MaxFaults \in Nat

VARIABLES
  users,     \* admin_users: a row of each id, or NoUser
  nextUser,  \* the next id (uuid4: never drawn twice)
  tokens,    \* refresh_tokens: the user_id of each token, 0 without a row
  expired,   \* tokens past expires_at
  nextToken, \* the next token (token_urlsafe: never drawn twice)
  handler,   \* what each request is about to do
  signedIn,  \* addresses an access token was issued for
  calls,     \* requests made so far, to bound them
  faults,    \* handlers cut short so far, to bound them
  login,     \* history: the login each token descends from, named by its first token
  owner,     \* history: the user who logged in
  ended      \* history: logins whose token some logout deleted

accounts == <<users, nextUser>>
store    == <<tokens, expired, nextToken>>
bounds   == <<calls, faults>>
history  == <<login, owner, ended>>
vars     == <<accounts, store, handler, signedIn, bounds, history>>

UserIds  == 1..MaxUsers
TokenIds == 1..MaxTokens
NoUser   == [email |-> "none", tenant |-> "none"]

IsUser(u)      == u \in UserIds /\ users[u] # NoUser
UsersWith(e)   == {u \in UserIds : users[u].email = e}
Live(k)        == tokens[k] # 0

\* What a request keeps between two statements
Doing(pc, user, chain, email, tenant) ==
  [pc |-> pc, user |-> user, chain |-> chain, email |-> email, tenant |-> tenant]

Idle == Doing("idle", 0, 0, "none", "none")

Init ==
  /\ users = [u \in UserIds |-> NoUser]
  /\ nextUser = 1
  /\ tokens = [k \in TokenIds |-> 0]
  /\ expired = {}
  /\ nextToken = 1
  /\ handler = [h \in Handlers |-> Idle]
  /\ signedIn = {}
  /\ calls = 0
  /\ faults = 0
  /\ login = [k \in TokenIds |-> 0]
  /\ owner = [k \in TokenIds |-> 0]
  /\ ended = {}

At(h, pc) == handler[h].pc = pc
Return(h) == handler' = [handler EXCEPT ![h] = Idle]

\* A request arrives and goes on with the record r.
Begin(h, r) ==
  /\ At(h, "idle") /\ calls < MaxCalls
  /\ calls' = calls + 1
  /\ handler' = [handler EXCEPT ![h] = r]
  /\ UNCHANGED faults

----------------------------------------------------------------------------
(* Accounts: create_user, delete_tenant.                                    *)

\* create_user: 409 for a known address; hashing the password takes a while.
CreateUser(h, e, t) ==
  /\ UsersWith(e) = {}
  /\ Begin(h, Doing("insert_user", 0, 0, e, t))
  /\ UNCHANGED <<accounts, store, signedIn, history>>

\* Variant: two values of the INSERT are swapped.
AddUserSwapped(h) ==
  /\ users' = [users EXCEPT ![nextUser] = [email |-> handler[h].tenant, tenant |-> handler[h].email]]
  /\ nextUser' = nextUser + 1

AddUser(h) ==
  /\ users' = [users EXCEPT ![nextUser] = [email |-> handler[h].email, tenant |-> handler[h].tenant]]
  /\ nextUser' = nextUser + 1

\* Variant: admin_users.email without UNIQUE.
InsertUserNoUnique(h) ==
  /\ At(h, "insert_user") /\ nextUser <= MaxUsers
  /\ AddUser(h)
  /\ Return(h)
  /\ UNCHANGED <<store, signedIn, bounds, history>>

\* The INSERT; the address is UNIQUE, the second of two creations answers 500.
InsertUser(h) ==
  /\ At(h, "insert_user") /\ nextUser <= MaxUsers
  /\ IF UsersWith(handler[h].email) = {} THEN AddUser(h) ELSE UNCHANGED accounts
  /\ Return(h)
  /\ UNCHANGED <<store, signedIn, bounds, history>>

\* Variant: refresh_tokens.user_id without ON DELETE CASCADE and its constraint.
DeleteUsersDetached(T) ==
  /\ users' = [u \in UserIds |-> IF u \in T THEN NoUser ELSE users[u]]
  /\ UNCHANGED tokens

\* The tokens go with their users (ON DELETE CASCADE).
DeleteUsers(T) ==
  /\ users' = [u \in UserIds |-> IF u \in T THEN NoUser ELSE users[u]]
  /\ tokens' = [k \in TokenIds |-> IF tokens[k] \in T THEN 0 ELSE tokens[k]]

\* delete_tenant_data, for the users; the quota row is Provisioning's.
DeleteTenantData(t) ==
  /\ calls < MaxCalls
  /\ calls' = calls + 1
  /\ DeleteUsers({u \in UserIds : users[u].tenant = t})
  /\ UNCHANGED <<nextUser, expired, nextToken, handler, signedIn, faults, history>>

----------------------------------------------------------------------------
(* Sessions: login, refresh, logout.                                        *)

\* get_user_by_email and the password check of login.
Login(h, u) ==
  /\ IsUser(u)
  /\ Begin(h, Doing("issue", u, 0, users[u].email, "none"))
  /\ UNCHANGED <<accounts, store, signedIn, history>>

\* Variant: the token is read and stays in the table.
ReadRefreshToken(k) == UNCHANGED tokens

\* DELETE ... RETURNING: of several requests with one token one gets the row.
ConsumeRefreshToken(k) == tokens' = [tokens EXCEPT ![k] = 0]

\* refresh; an unknown, consumed or expired token answers 401.
Refresh(h, k) ==
  /\ Live(k) /\ k \notin expired
  /\ Begin(h, Doing("lookup", tokens[k], login[k], "none", "none"))
  /\ ConsumeRefreshToken(k)
  /\ UNCHANGED <<accounts, expired, nextToken, signedIn, history>>

\* get_user_by_id: an account deleted since answers 401, and the token is gone.
LookUpUser(h) ==
  /\ At(h, "lookup")
  /\ IF IsUser(handler[h].user)
       THEN handler' = [handler EXCEPT ![h] =
              Doing("issue", @.user, @.chain, users[@.user].email, "none")]
       ELSE Return(h)
  /\ UNCHANGED <<accounts, store, signedIn, bounds, history>>

\* The new row; its login is that of the token it replaces, or itself.
AddToken(h) ==
  LET root == IF handler[h].chain = 0 THEN nextToken ELSE handler[h].chain IN
  /\ tokens' = [tokens EXCEPT ![nextToken] = handler[h].user]
  /\ nextToken' = nextToken + 1
  /\ login' = [login EXCEPT ![nextToken] = root]
  /\ owner' = IF handler[h].chain = 0 THEN [owner EXCEPT ![nextToken] = handler[h].user] ELSE owner
  /\ signedIn' = signedIn \cup {handler[h].email}

\* insert_refresh_token: the foreign key refuses a user deleted since (500).
InsertRefreshToken(h) ==
  /\ At(h, "issue") /\ nextToken <= MaxTokens
  /\ IF IsUser(handler[h].user)
       THEN AddToken(h)
       ELSE UNCHANGED <<tokens, nextToken, login, owner, signedIn>>
  /\ Return(h)
  /\ UNCHANGED <<accounts, expired, bounds, ended>>

\* logout finds the account by the address in the access token, which outlives
\* refresh tokens, logouts and accounts.
Logout(h, e, u) ==
  /\ e \in signedIn /\ u \in UsersWith(e)
  /\ Begin(h, Doing("logout", u, 0, "none", "none"))
  /\ UNCHANGED <<accounts, store, signedIn, history>>

TokensOf(u) == {k \in TokenIds : tokens[k] = u}

\* Variant: only the newest session of the user is ended.
DeleteNewestToken(u) ==
  tokens' = [k \in TokenIds |->
    IF k \in TokensOf(u) /\ \A j \in TokensOf(u) : j <= k THEN 0 ELSE tokens[k]]

DeleteRefreshTokens(u) ==
  tokens' = [k \in TokenIds |-> IF k \in TokensOf(u) THEN 0 ELSE tokens[k]]

LogoutDelete(h) ==
  /\ At(h, "logout")
  /\ DeleteRefreshTokens(handler[h].user)
  /\ ended' = ended \cup {login[k] : k \in TokensOf(handler[h].user)}
  /\ Return(h)
  /\ UNCHANGED <<accounts, expired, nextToken, signedIn, bounds, login, owner>>

\* Thirty days pass for a token; nothing removes its row.
Expire(k) ==
  /\ Live(k) /\ k \notin expired
  /\ expired' = expired \cup {k}
  /\ UNCHANGED <<accounts, tokens, nextToken, handler, signedIn, bounds, history>>

\* The instance goes away or a statement raises: what was consumed stays consumed.
Abort(h) ==
  /\ faults < MaxFaults /\ ~At(h, "idle")
  /\ faults' = faults + 1
  /\ Return(h)
  /\ UNCHANGED <<accounts, store, signedIn, calls, history>>

Next ==
  \/ \E h \in Handlers :
       \/ \E e \in Emails, t \in Tenants : CreateUser(h, e, t)
       \/ \E u \in UserIds : Login(h, u)
       \/ \E k \in TokenIds : Refresh(h, k)
       \/ \E e \in Emails, u \in UserIds : Logout(h, e, u)
       \/ InsertUser(h) \/ LookUpUser(h) \/ InsertRefreshToken(h) \/ LogoutDelete(h) \/ Abort(h)
  \/ \E t \in Tenants : DeleteTenantData(t)
  \/ \E k \in TokenIds : Expire(k)

Spec == Init /\ [][Next]_vars

----------------------------------------------------------------------------
(* Properties.                                                              *)

UserType    == [email : Emails \cup {"none"}, tenant : Tenants \cup {"none"}]
HandlerType == [pc : {"idle", "insert_user", "issue", "lookup", "logout"}, user : 0..MaxUsers,
                chain : 0..MaxTokens, email : Emails \cup {"none"}, tenant : Tenants \cup {"none"}]

\* The type of every variable.  An address has one account at a time, however many
\* creations of it overlap, and every token belongs to an account that exists, the
\* one that logged in, however many accounts the address has had since.
TypeOK ==
  /\ users \in [UserIds -> UserType]
  /\ nextUser \in 1..(MaxUsers + 1)
  /\ tokens \in [TokenIds -> 0..MaxUsers]
  /\ expired \subseteq TokenIds
  /\ nextToken \in 1..(MaxTokens + 1)
  /\ handler \in [Handlers -> HandlerType]
  /\ signedIn \subseteq Emails
  /\ calls \in Nat /\ faults \in Nat
  /\ login \in [TokenIds -> 0..MaxTokens]
  /\ owner \in [TokenIds -> 0..MaxUsers]
  /\ ended \subseteq TokenIds
  /\ \A u, v \in UserIds : IsUser(u) /\ IsUser(v) /\ users[u].email = users[v].email => u = v
  /\ \A k \in TokenIds : Live(k) => IsUser(tokens[k]) /\ tokens[k] = owner[login[k]]

\* Requests that hold a consumed token and owe its login a new one.
Refreshing(h) == handler[h].pc \in {"lookup", "issue"} /\ handler[h].chain # 0

\* A login has one token at a time, in the table or between the two steps of a
\* refresh: however often a token is presented, and by however many requests at
\* once, consume_refresh_token lets one of them replace it.
OneTokenPerLogin ==
  /\ \A k, j \in TokenIds : Live(k) /\ Live(j) /\ login[k] = login[j] => k = j
  /\ \A h \in Handlers, k \in TokenIds : Refreshing(h) /\ Live(k) => handler[h].chain # login[k]
  /\ \A h, g \in Handlers :
       Refreshing(h) /\ Refreshing(g) /\ handler[h].chain = handler[g].chain => h = g

\* A login whose token a logout found in the table is over: no token of it is
\* left, and no refresh in flight brings it back.  (A login whose refresh had
\* consumed the token just before the logout goes on: the table did not show it.)
EndedLoginsStayEnded ==
  /\ \A k \in TokenIds : Live(k) => login[k] \notin ended
  /\ \A h \in Handlers : Refreshing(h) => handler[h].chain \notin ended

=============================================================================
