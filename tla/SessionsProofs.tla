--------------------------- MODULE SessionsProofs ---------------------------
(***************************************************************************)
(* The safety properties of Sessions, for any number of requests, accounts  *)
(* and tokens.  They hold together: that a login has one token at a time is *)
(* what lets a logout end it, and both rest on tokens being numbered in the *)
(* order in which they are issued.                                          *)
(***************************************************************************)
EXTENDS Sessions, TLAPS

\* A token that was issued descends from one that was issued.
Numbered ==
  /\ \A k \in TokenIds : Live(k) => k < nextToken /\ login[k] \in TokenIds /\ login[k] < nextToken
  /\ \A u \in UserIds : IsUser(u) => u < nextUser /\ users[u].email \in Emails
  /\ \A c \in ended : c < nextToken

\* What a request between two statements knows.
Knows(h) ==
  /\ handler[h].pc \in {"lookup", "issue", "logout"} => handler[h].user \in UserIds
  /\ handler[h].pc \in {"insert_user", "issue"} => handler[h].email \in Emails
  /\ handler[h].pc = "lookup" => handler[h].chain # 0
  /\ Refreshing(h) => /\ handler[h].chain < nextToken
                      /\ handler[h].user = owner[handler[h].chain]

\* The inductive invariant.
Inv ==
  /\ TypeOK
  /\ OneTokenPerLogin
  /\ EndedLoginsStayEnded
  /\ Numbered
  /\ \A h \in Handlers : Knows(h)

\* A request takes a new record; the others keep theirs.
LEMMA HandlerMove ==
  ASSUME TypeOK, NEW h \in Handlers, NEW r \in HandlerType,
         handler' = [handler EXCEPT ![h] = r]
  PROVE  /\ handler' \in [Handlers -> HandlerType]
         /\ handler'[h] = r
         /\ \A g \in Handlers : g # h => handler'[g] = handler[g]
  BY DEF TypeOK

\* What a request keeps is of its type.
LEMMA DoingType ==
  ASSUME NEW p \in {"idle", "insert_user", "issue", "lookup", "logout"}, NEW u \in 0..MaxUsers,
         NEW c \in 0..MaxTokens, NEW e \in Emails \cup {"none"}, NEW t \in Tenants \cup {"none"}
  PROVE  /\ Doing(p, u, c, e, t) \in HandlerType
         /\ Doing(p, u, c, e, t).pc = p
         /\ Doing(p, u, c, e, t).user = u
         /\ Doing(p, u, c, e, t).chain = c
         /\ Doing(p, u, c, e, t).email = e
  BY DEF HandlerType, Doing

\* A step that leaves accounts, tokens and history alone keeps the invariant when
\* the one request that moves knows what it must and refreshes nothing new.
LEMMA QuietMove ==
  ASSUME Inv, NEW h \in Handlers, NEW r \in HandlerType,
         handler' = [handler EXCEPT ![h] = r],
         r.pc \in {"lookup", "issue", "logout"} => r.user \in UserIds,
         r.pc \in {"insert_user", "issue"} => r.email \in Emails,
         r.pc = "lookup" => r.chain # 0,
         r.pc \in {"lookup", "issue"} /\ r.chain # 0 =>
           Refreshing(h) /\ r.chain = handler[h].chain /\ r.user = handler[h].user,
         UNCHANGED <<accounts, store, history>>,
         signedIn' \subseteq Emails, calls' \in Nat, faults' \in Nat
  PROVE  Inv'
PROOF
  <1>1. /\ handler' \in [Handlers -> HandlerType]
        /\ handler'[h] = r
        /\ \A g \in Handlers : g # h => handler'[g] = handler[g]
    BY HandlerMove DEF Inv
  <1> USE DEF Inv, accounts, store, history
  <1>2. TypeOK'
    BY <1>1 DEF TypeOK, Live, IsUser
  <1>3. \A g \in Handlers : Refreshing(g)' =>
          Refreshing(g) /\ handler'[g].chain = handler[g].chain
            /\ handler'[g].user = handler[g].user
    BY <1>1 DEF Refreshing
  <1>4. OneTokenPerLogin'
    BY <1>3 DEF OneTokenPerLogin, Live
  <1>5. EndedLoginsStayEnded'
    BY <1>3 DEF EndedLoginsStayEnded, Live
  <1>6. Numbered'
    BY DEF Numbered, Live, IsUser
  <1>7. \A g \in Handlers : Knows(g)'
    <2> TAKE g \in Handlers
    <2>1. handler'[g].pc \in {"lookup", "issue", "logout"} => handler'[g].user \in UserIds
      BY <1>1 DEF Knows, UserIds
    <2>2. /\ handler'[g].pc \in {"insert_user", "issue"} => handler'[g].email \in Emails
          /\ handler'[g].pc = "lookup" => handler'[g].chain # 0
      BY <1>1 DEF Knows
    <2>3. Refreshing(g)' => /\ handler'[g].chain < nextToken'
                            /\ handler'[g].user = owner'[handler'[g].chain]
      BY <1>3 DEF Knows
    <2> QED BY <2>1, <2>2, <2>3 DEF Knows, UserIds
  <1> QED BY <1>2, <1>4, <1>5, <1>6, <1>7

-----------------------------------------------------------------------------
(* One lemma for each group of actions.                                      *)

\* The initial state satisfies the invariant.
LEMMA InitInv == ASSUME Init PROVE Inv
PROOF
  <1> USE BoundsAssumption DEF Init
  <1>1. TypeOK
    BY DEF TypeOK, UserType, HandlerType, Idle, Doing, NoUser, UserIds, TokenIds, Live, IsUser
  <1>2. \A h \in Handlers : ~Refreshing(h)
    BY DEF Refreshing, Idle, Doing
  <1>3. \A k \in TokenIds : ~Live(k)
    BY DEF Live
  <1>4. \A u \in UserIds : ~IsUser(u)
    BY DEF IsUser
  <1>5. \A h \in Handlers : Knows(h)
    BY <1>2 DEF Knows, Idle, Doing
  <1> QED
    BY <1>1, <1>2, <1>3, <1>4, <1>5
    DEF Inv, OneTokenPerLogin, EndedLoginsStayEnded, Numbered

\* Requests that begin without touching a token.
LEMMA BeginStep ==
  ASSUME Inv, NEW h \in Handlers,
         \/ \E e \in Emails, t \in Tenants : CreateUser(h, e, t)
         \/ \E u \in UserIds : Login(h, u)
         \/ \E e \in Emails, u \in UserIds : Logout(h, e, u)
  PROVE  Inv'
PROOF
  <1>0. 0 \in 0..MaxUsers /\ 0 \in 0..MaxTokens /\ UserIds \subseteq 0..MaxUsers
    BY BoundsAssumption DEF UserIds
  <1>t. /\ signedIn \subseteq Emails /\ calls \in Nat /\ calls + 1 \in Nat /\ faults \in Nat
        /\ \A u \in UserIds : IsUser(u) => users[u].email \in Emails
    BY DEF Inv, TypeOK, Numbered
  <1>1. ASSUME NEW e \in Emails, NEW t \in Tenants, CreateUser(h, e, t)
        PROVE  Inv'
    <2> DEFINE r == Doing("insert_user", 0, 0, e, t)
    <2>1. r \in HandlerType /\ r.pc = "insert_user" /\ r.email = e
      BY <1>0, DoingType
    <2>2. handler' = [handler EXCEPT ![h] = r]
      BY <1>1 DEF CreateUser, Begin
    <2>3. /\ UNCHANGED <<accounts, store, history>>
          /\ signedIn' = signedIn /\ calls' = calls + 1 /\ faults' = faults
      BY <1>1 DEF CreateUser, Begin
    <2> HIDE DEF r
    <2> QED BY <1>t, <2>1, <2>2, <2>3, QuietMove
  <1>2. ASSUME NEW u \in UserIds, Login(h, u)
        PROVE  Inv'
    <2> DEFINE r == Doing("issue", u, 0, users[u].email, "none")
    <2>0. users[u].email \in Emails
      BY <1>2, <1>t DEF Login
    <2>1. r \in HandlerType /\ r.pc = "issue" /\ r.user = u /\ r.chain = 0 /\ r.email \in Emails
      BY <1>0, <2>0, DoingType
    <2>2. handler' = [handler EXCEPT ![h] = r]
      BY <1>2 DEF Login, Begin
    <2>3. /\ UNCHANGED <<accounts, store, history>>
          /\ signedIn' = signedIn /\ calls' = calls + 1 /\ faults' = faults
      BY <1>2 DEF Login, Begin
    <2> HIDE DEF r
    <2> QED BY <1>t, <2>1, <2>2, <2>3, QuietMove
  <1>3. ASSUME NEW e \in Emails, NEW u \in UserIds, Logout(h, e, u)
        PROVE  Inv'
    <2> DEFINE r == Doing("logout", u, 0, "none", "none")
    <2>1. r \in HandlerType /\ r.pc = "logout" /\ r.user = u
      BY <1>0, DoingType
    <2>2. handler' = [handler EXCEPT ![h] = r]
      BY <1>3 DEF Logout, Begin
    <2>3. /\ UNCHANGED <<accounts, store, history>>
          /\ signedIn' = signedIn /\ calls' = calls + 1 /\ faults' = faults
      BY <1>3 DEF Logout, Begin
    <2> HIDE DEF r
    <2> QED BY <1>t, <2>1, <2>2, <2>3, QuietMove
  <1> QED BY <1>1, <1>2, <1>3

\* A request that ends, whatever it was about, takes nothing with it.
LEMMA ReturnStep ==
  ASSUME Inv, NEW h \in Handlers, Return(h),
         UNCHANGED <<accounts, store, history>>, signedIn' = signedIn, calls' = calls,
         faults' \in Nat
  PROVE  Inv'
PROOF
  <1>0. 0 \in 0..MaxUsers /\ 0 \in 0..MaxTokens
    BY BoundsAssumption
  <1>1. Idle \in HandlerType /\ Idle.pc = "idle"
    BY <1>0, DoingType DEF Idle
  <1>2. handler' = [handler EXCEPT ![h] = Idle]
    BY DEF Return
  <1>3. signedIn' \subseteq Emails /\ calls' \in Nat
    BY DEF Inv, TypeOK
  <1> QED BY <1>1, <1>2, <1>3, QuietMove

\* The account is read again before a token is issued.
LEMMA LookUpStep ==
  ASSUME Inv, NEW h \in Handlers, LookUpUser(h)
  PROVE  Inv'
PROOF
  <1>0. /\ UNCHANGED <<accounts, store, history>>
        /\ signedIn' = signedIn /\ calls' = calls /\ faults' = faults
    BY DEF LookUpUser, bounds
  <1>t. signedIn \subseteq Emails /\ calls \in Nat /\ faults \in Nat
    BY DEF Inv, TypeOK
  <1>1. CASE IsUser(handler[h].user)
    <2> DEFINE u == handler[h].user
               c == handler[h].chain
               r == Doing("issue", u, c, users[u].email, "none")
    <2>1. handler[h] \in HandlerType /\ u \in UserIds /\ users[u] \in UserType
      BY <1>1 DEF Inv, TypeOK, IsUser
    <2>2. u \in 0..MaxUsers /\ c \in 0..MaxTokens /\ users[u].email \in Emails
      BY <1>1, <2>1 DEF HandlerType, Inv, Numbered
    <2>3. r \in HandlerType /\ r.pc = "issue" /\ r.user = u /\ r.chain = c /\ r.email \in Emails
      BY <2>2, DoingType
    <2>4. handler' = [handler EXCEPT ![h] = r]
      BY <1>1 DEF LookUpUser
    <2>5. Refreshing(h)
      BY DEF LookUpUser, Refreshing, At, Inv, Knows
    <2> HIDE DEF r
    <2> QED BY <1>0, <1>t, <2>1, <2>3, <2>4, <2>5, QuietMove
  <1>2. CASE ~IsUser(handler[h].user)
    BY <1>0, <1>t, <1>2, ReturnStep DEF LookUpUser
  <1> QED BY <1>1, <1>2

\* After a return the other requests are as they were.
LEMMA ReturnMove ==
  ASSUME Inv, NEW h \in Handlers, Return(h)
  PROVE  /\ handler' \in [Handlers -> HandlerType]
         /\ handler'[h].pc = "idle"
         /\ \A g \in Handlers : g # h => handler'[g] = handler[g]
         /\ \A g \in Handlers : Refreshing(g)' => Refreshing(g) /\ g # h /\ handler'[g] = handler[g]
PROOF
  <1>0. 0 \in 0..MaxUsers /\ 0 \in 0..MaxTokens
    BY BoundsAssumption
  <1>1. Idle \in HandlerType /\ Idle.pc = "idle"
    BY <1>0, DoingType DEF Idle
  <1>2. handler' = [handler EXCEPT ![h] = Idle]
    BY DEF Return
  <1>3. /\ handler' \in [Handlers -> HandlerType]
        /\ handler'[h] = Idle
        /\ \A g \in Handlers : g # h => handler'[g] = handler[g]
    BY <1>1, <1>2, HandlerMove DEF Inv
  <1> QED BY <1>1, <1>3 DEF Refreshing

\* The second creation of an address finds the first one's row.
LEMMA InsertUserStep ==
  ASSUME Inv, NEW h \in Handlers, InsertUser(h)
  PROVE  Inv'
PROOF
  <1>0. /\ Return(h) /\ At(h, "insert_user") /\ nextUser <= MaxUsers
        /\ UNCHANGED <<tokens, expired, nextToken, signedIn, calls, faults, login, owner, ended>>
    BY DEF InsertUser, store, bounds, history
  <1>1. CASE UsersWith(handler[h].email) # {}
    <2>1. UNCHANGED accounts
      BY <1>1 DEF InsertUser
    <2>2. faults' \in Nat
      BY <1>0 DEF Inv, TypeOK
    <2> QED BY <1>0, <2>1, <2>2, ReturnStep DEF store, history
  <1>2. CASE UsersWith(handler[h].email) = {}
    <2> DEFINE e == handler[h].email
               n == nextUser
    <2>m. /\ handler' \in [Handlers -> HandlerType]
          /\ handler'[h].pc = "idle"
          /\ \A g \in Handlers : g # h => handler'[g] = handler[g]
          /\ \A g \in Handlers : Refreshing(g)' => Refreshing(g) /\ g # h /\ handler'[g] = handler[g]
      BY <1>0, ReturnMove
    <2>1. /\ n \in UserIds /\ n \in 1..(MaxUsers + 1) /\ n + 1 \in 1..(MaxUsers + 1)
          /\ users \in [UserIds -> UserType]
      BY <1>0, BoundsAssumption DEF Inv, TypeOK, UserIds
    <2>2. /\ e \in Emails
          /\ [email |-> e, tenant |-> handler[h].tenant] \in UserType
      BY <1>0 DEF Inv, Knows, At, TypeOK, HandlerType, UserType
    <2>3. /\ users' = [users EXCEPT ![n] = [email |-> e, tenant |-> handler[h].tenant]]
          /\ nextUser' = n + 1
      BY <1>2 DEF InsertUser, AddUser
    <2>4. /\ users' \in [UserIds -> UserType]
          /\ users'[n].email = e
          /\ \A u \in UserIds : u # n => users'[u] = users[u]
      BY <2>1, <2>2, <2>3
    <2>5. \A u \in UserIds : users[u].email # e
      BY <1>2 DEF UsersWith
    <2>6. \A u \in UserIds : IsUser(u) => u # n
      BY <2>1 DEF Inv, Numbered, UserIds
    <2>7. \A u \in UserIds : u # n => (IsUser(u)' <=> IsUser(u))
      BY <2>4 DEF IsUser
    <2>8. \A u, v \in UserIds : IsUser(u)' /\ IsUser(v)' /\ users'[u].email = users'[v].email => u = v
      BY <2>4, <2>5, <2>7 DEF Inv, TypeOK
    <2>9. \A k \in TokenIds : Live(k)' => IsUser(tokens[k])' /\ tokens'[k] = owner'[login'[k]]
      <3> SUFFICES ASSUME NEW k \in TokenIds, Live(k)
                   PROVE  IsUser(tokens[k])' /\ tokens[k] = owner[login[k]]
        BY <1>0 DEF Live
      <3>1. IsUser(tokens[k]) /\ tokens[k] = owner[login[k]]
        BY DEF Inv, TypeOK
      <3>2. tokens[k] \in UserIds
        BY <3>1 DEF IsUser
      <3> QED BY <1>0, <2>4, <2>6, <3>1, <3>2 DEF IsUser
    <2>10. TypeOK'
      BY <1>0, <2>m, <2>1, <2>3, <2>4, <2>8, <2>9 DEF Inv, TypeOK
    <2>11. OneTokenPerLogin'
      BY <1>0, <2>m DEF Inv, OneTokenPerLogin, Live
    <2>12. EndedLoginsStayEnded'
      BY <1>0, <2>m DEF Inv, EndedLoginsStayEnded, Live
    <2>13. \A u \in UserIds : IsUser(u)' => u < nextUser' /\ users'[u].email \in Emails
      <3> SUFFICES ASSUME NEW u \in UserIds, IsUser(u)'
                   PROVE  u < n + 1 /\ users'[u].email \in Emails
        BY <2>3
      <3>1. CASE u = n
        BY <2>1, <2>2, <2>4, <3>1
      <3>2. CASE u # n
        <4>1. u < n /\ users[u].email \in Emails
          BY <2>7, <3>2 DEF Inv, Numbered
        <4> QED BY <4>1, <2>1, <2>4, <3>2 DEF UserIds
      <3> QED BY <3>1, <3>2
    <2>14. Numbered'
      BY <1>0, <2>13 DEF Inv, Numbered, Live
    <2>15. \A g \in Handlers : Knows(g)'
      BY <1>0, <2>m DEF Inv, Knows
    <2> QED BY <2>10, <2>11, <2>12, <2>14, <2>15 DEF Inv
  <1> QED BY <1>1, <1>2

\* The tokens of deleted accounts go with them, so no token loses its owner.
LEMMA DeleteTenantStep ==
  ASSUME Inv, NEW t \in Tenants, DeleteTenantData(t)
  PROVE  Inv'
PROOF
  <1> DEFINE T == {u \in UserIds : users[u].tenant = t}
  <1>0. /\ users' = [u \in UserIds |-> IF u \in T THEN NoUser ELSE users[u]]
        /\ tokens' = [k \in TokenIds |-> IF tokens[k] \in T THEN 0 ELSE tokens[k]]
        /\ calls' = calls + 1
        /\ UNCHANGED <<nextUser, expired, nextToken, handler, signedIn, faults, login, owner, ended>>
    BY DEF DeleteTenantData, DeleteUsers, history
  <1>1. NoUser \in UserType /\ 0 \in 0..MaxUsers
    BY BoundsAssumption DEF UserType, NoUser
  <1>2. /\ users \in [UserIds -> UserType] /\ tokens \in [TokenIds -> 0..MaxUsers]
        /\ calls \in Nat
    BY DEF Inv, TypeOK
  <1>3. T \subseteq UserIds /\ 0 \notin T
    BY DEF UserIds
  <1> HIDE DEF T
  <1>4. users' \in [UserIds -> UserType] /\ tokens' \in [TokenIds -> 0..MaxUsers]
    BY <1>0, <1>1, <1>2
  <1>5. \A u \in UserIds : IsUser(u)' <=> IsUser(u) /\ u \notin T
    BY <1>0 DEF IsUser
  <1>6. \A u \in UserIds : IsUser(u)' => users'[u] = users[u]
    BY <1>0 DEF IsUser
  <1>7. \A k \in TokenIds : Live(k)' => Live(k) /\ tokens'[k] = tokens[k] /\ tokens[k] \notin T
    BY <1>0 DEF Live
  <1>8. \A u, v \in UserIds : IsUser(u)' /\ IsUser(v)' /\ users'[u].email = users'[v].email => u = v
    BY <1>5, <1>6 DEF Inv, TypeOK
  <1>9. \A k \in TokenIds : Live(k)' => IsUser(tokens[k])' /\ tokens'[k] = owner'[login'[k]]
    <2> SUFFICES ASSUME NEW k \in TokenIds, Live(k)'
                 PROVE  IsUser(tokens[k])' /\ tokens'[k] = owner[login[k]]
      BY <1>0
    <2>1. Live(k) /\ tokens'[k] = tokens[k] /\ tokens[k] \notin T
      BY <1>7
    <2>2. IsUser(tokens[k]) /\ tokens[k] = owner[login[k]]
      BY <2>1 DEF Inv, TypeOK
    <2>3. users'[tokens[k]] = users[tokens[k]] /\ tokens[k] \in UserIds
      BY <1>0, <2>1, <2>2 DEF IsUser
    <2> QED BY <2>1, <2>2, <2>3 DEF IsUser
  <1>10. TypeOK'
    BY <1>0, <1>2, <1>4, <1>8, <1>9 DEF Inv, TypeOK
  <1>11. OneTokenPerLogin'
    BY <1>0, <1>7 DEF Inv, OneTokenPerLogin, Refreshing
  <1>12. EndedLoginsStayEnded'
    BY <1>0, <1>7 DEF Inv, EndedLoginsStayEnded, Refreshing
  <1>13. Numbered'
    BY <1>0, <1>5, <1>6, <1>7 DEF Inv, Numbered
  <1>14. \A g \in Handlers : Knows(g)'
    BY <1>0 DEF Inv, Knows, Refreshing
  <1> QED BY <1>10, <1>11, <1>12, <1>13, <1>14 DEF Inv

\* A login that is found in the table ends, and nobody else holds it.
LEMMA LogoutStep ==
  ASSUME Inv, NEW h \in Handlers, LogoutDelete(h)
  PROVE  Inv'
PROOF
  <1> DEFINE u == handler[h].user
             L == {login[k] : k \in TokensOf(u)}
  <1>0. /\ Return(h) /\ At(h, "logout")
        /\ tokens' = [k \in TokenIds |-> IF k \in TokensOf(u) THEN 0 ELSE tokens[k]]
        /\ ended' = ended \cup L
        /\ UNCHANGED <<users, nextUser, expired, nextToken, signedIn, calls, faults, login, owner>>
    BY DEF LogoutDelete, DeleteRefreshTokens, accounts, bounds
  <1>m. /\ handler' \in [Handlers -> HandlerType]
        /\ handler'[h].pc = "idle"
        /\ \A g \in Handlers : g # h => handler'[g] = handler[g]
        /\ \A g \in Handlers : Refreshing(g)' => Refreshing(g) /\ g # h /\ handler'[g] = handler[g]
    BY <1>0, ReturnMove
  <1>1. u \in UserIds /\ u # 0
    BY <1>0 DEF At, Inv, Knows, UserIds
  <1>2. \A k \in TokensOf(u) : k \in TokenIds /\ Live(k)
    BY <1>1 DEF TokensOf, Live
  <1>3. tokens \in [TokenIds -> 0..MaxUsers] /\ 0 \in 0..MaxUsers
    BY BoundsAssumption DEF Inv, TypeOK
  <1>4. tokens' \in [TokenIds -> 0..MaxUsers]
    BY <1>0, <1>3
  <1>5. \A k \in TokenIds : Live(k)' => Live(k) /\ tokens'[k] = tokens[k] /\ k \notin TokensOf(u)
    BY <1>0 DEF Live
  <1>6. \A c \in L : c \in TokenIds /\ c < nextToken
    BY <1>2 DEF Inv, Numbered
  <1>7. \A k \in TokenIds : Live(k)' => login[k] \notin L
    BY <1>2, <1>5 DEF Inv, OneTokenPerLogin
  <1>8. \A g \in Handlers : Refreshing(g) => handler[g].chain \notin L
    BY <1>2 DEF Inv, OneTokenPerLogin
  <1> HIDE DEF L
  <1>9. \A k \in TokenIds : Live(k)' => IsUser(tokens[k])' /\ tokens'[k] = owner'[login'[k]]
    BY <1>0, <1>5 DEF Inv, TypeOK, IsUser
  <1>10. TypeOK'
    BY <1>0, <1>m, <1>4, <1>6, <1>9 DEF Inv, TypeOK, IsUser
  <1>11. OneTokenPerLogin'
    BY <1>0, <1>m, <1>5 DEF Inv, OneTokenPerLogin
  <1>12. EndedLoginsStayEnded'
    BY <1>0, <1>m, <1>5, <1>7, <1>8 DEF Inv, EndedLoginsStayEnded
  <1>13. Numbered'
    BY <1>0, <1>5, <1>6 DEF Inv, Numbered, IsUser
  <1>14. \A g \in Handlers : Knows(g)'
    BY <1>0, <1>m DEF Inv, Knows
  <1> QED BY <1>10, <1>11, <1>12, <1>13, <1>14 DEF Inv

\* The request that consumed a token holds its login, alone.
LEMMA RefreshStep ==
  ASSUME Inv, NEW h \in Handlers, NEW k \in TokenIds, Refresh(h, k)
  PROVE  Inv'
PROOF
  <1> DEFINE r == Doing("lookup", tokens[k], login[k], "none", "none")
  <1>0. /\ Live(k)
        /\ handler' = [handler EXCEPT ![h] = r]
        /\ tokens' = [tokens EXCEPT ![k] = 0]
        /\ calls' = calls + 1
        /\ UNCHANGED <<users, nextUser, expired, nextToken, signedIn, faults, login, owner, ended>>
    BY DEF Refresh, Begin, ConsumeRefreshToken, accounts, history
  <1>1. /\ tokens[k] \in UserIds /\ tokens[k] \in 0..MaxUsers /\ tokens[k] = owner[login[k]]
        /\ login[k] \in TokenIds /\ login[k] \in 0..MaxTokens /\ login[k] # 0
        /\ login[k] < nextToken /\ login[k] \notin ended
    BY <1>0 DEF Inv, TypeOK, IsUser, Numbered, EndedLoginsStayEnded, TokenIds
  <1>2. r \in HandlerType /\ r.pc = "lookup" /\ r.user = tokens[k] /\ r.chain = login[k]
    BY <1>1, DoingType
  <1> HIDE DEF r
  <1>3. /\ handler' \in [Handlers -> HandlerType]
        /\ handler'[h] = r
        /\ \A g \in Handlers : g # h => handler'[g] = handler[g]
    BY <1>0, <1>2, HandlerMove DEF Inv
  <1>4. /\ tokens \in [TokenIds -> 0..MaxUsers] /\ 0 \in 0..MaxUsers /\ calls \in Nat
    BY BoundsAssumption DEF Inv, TypeOK
  <1>5. tokens' \in [TokenIds -> 0..MaxUsers]
    BY <1>0, <1>4
  <1>6. \A j \in TokenIds : Live(j)' => Live(j) /\ tokens'[j] = tokens[j] /\ j # k
    BY <1>0, <1>4 DEF Live
  <1>7. \A g \in Handlers : Refreshing(g)' /\ g # h => Refreshing(g)
    BY <1>3 DEF Refreshing
  <1>8. TypeOK'
    BY <1>0, <1>3, <1>4, <1>5, <1>6 DEF Inv, TypeOK, IsUser
  <1>9. OneTokenPerLogin'
    <2>1. \A i, j \in TokenIds : Live(i)' /\ Live(j)' /\ login'[i] = login'[j] => i = j
      BY <1>0, <1>6 DEF Inv, OneTokenPerLogin
    <2>2. ASSUME NEW g \in Handlers, NEW j \in TokenIds, Refreshing(g)', Live(j)'
          PROVE  handler'[g].chain # login'[j]
      <3>1. CASE g = h
        BY <1>0, <1>2, <1>3, <1>6, <2>2, <3>1 DEF Inv, OneTokenPerLogin
      <3>2. CASE g # h
        BY <1>0, <1>3, <1>6, <1>7, <2>2, <3>2 DEF Inv, OneTokenPerLogin
      <3> QED BY <3>1, <3>2
    <2>3. ASSUME NEW g \in Handlers, Refreshing(g)', g # h
          PROVE  handler'[g].chain # login[k]
      BY <1>0, <1>3, <1>7, <2>3 DEF Inv, OneTokenPerLogin
    <2>4. ASSUME NEW g \in Handlers, NEW f \in Handlers, Refreshing(g)', Refreshing(f)',
                 handler'[g].chain = handler'[f].chain
          PROVE  g = f
      <3>1. CASE g = h \/ f = h
        BY <1>2, <1>3, <2>3, <2>4, <3>1
      <3>2. CASE g # h /\ f # h
        BY <1>3, <1>7, <2>4, <3>2 DEF Inv, OneTokenPerLogin
      <3> QED BY <3>1, <3>2
    <2> QED BY <2>1, <2>2, <2>4 DEF OneTokenPerLogin
  <1>10. EndedLoginsStayEnded'
    <2>1. \A j \in TokenIds : Live(j)' => login'[j] \notin ended'
      BY <1>0, <1>6 DEF Inv, EndedLoginsStayEnded
    <2>2. \A g \in Handlers : Refreshing(g)' => handler'[g].chain \notin ended'
      BY <1>0, <1>1, <1>2, <1>3, <1>7 DEF Inv, EndedLoginsStayEnded
    <2> QED BY <2>1, <2>2 DEF EndedLoginsStayEnded
  <1>11. Numbered'
    BY <1>0, <1>6 DEF Inv, Numbered, IsUser
  <1>12. \A g \in Handlers : Knows(g)'
    <2> TAKE g \in Handlers
    <2>1. CASE g = h
      BY <1>0, <1>1, <1>2, <1>3, <2>1 DEF Knows
    <2>2. CASE g # h
      BY <1>0, <1>3, <1>7, <2>2 DEF Inv, Knows
    <2> QED BY <2>1, <2>2
  <1> QED BY <1>8, <1>9, <1>10, <1>11, <1>12 DEF Inv

\* The new token of a login: the first one, or the one that replaces the token
\* the request consumed.
LEMMA InsertTokenStep ==
  ASSUME Inv, NEW h \in Handlers, InsertRefreshToken(h)
  PROVE  Inv'
PROOF
  <1> DEFINE u == handler[h].user
             c == handler[h].chain
             n == nextToken
             root == IF c = 0 THEN n ELSE c
  <1>0. /\ Return(h) /\ At(h, "issue") /\ n <= MaxTokens
        /\ UNCHANGED <<users, nextUser, expired, calls, faults, ended>>
    BY DEF InsertRefreshToken, accounts, bounds
  <1>1. CASE ~IsUser(u)
    <2>1. UNCHANGED <<tokens, nextToken, login, owner, signedIn>>
      BY <1>1 DEF InsertRefreshToken
    <2>2. faults' \in Nat
      BY <1>0 DEF Inv, TypeOK
    <2> QED BY <1>0, <2>1, <2>2, ReturnStep DEF accounts, store, history
  <1>2. CASE IsUser(u)
    <2>0. /\ tokens' = [tokens EXCEPT ![n] = u]
          /\ nextToken' = n + 1
          /\ login' = [login EXCEPT ![n] = root]
          /\ owner' = IF c = 0 THEN [owner EXCEPT ![n] = u] ELSE owner
          /\ signedIn' = signedIn \cup {handler[h].email}
      BY <1>2 DEF InsertRefreshToken, AddToken
    <2>m. /\ handler' \in [Handlers -> HandlerType]
          /\ handler'[h].pc = "idle"
          /\ \A g \in Handlers : g # h => handler'[g] = handler[g]
          /\ \A g \in Handlers : Refreshing(g)' => Refreshing(g) /\ g # h /\ handler'[g] = handler[g]
      BY <1>0, ReturnMove
    <2>1. /\ n \in TokenIds /\ n \in Nat /\ n # 0 /\ n \in 0..MaxTokens /\ n + 1 \in 1..(MaxTokens + 1)
          /\ u \in 0..MaxUsers /\ u \in UserIds /\ u # 0 /\ c \in 0..MaxTokens
          /\ handler[h].email \in Emails
      <3>1. n \in 1..(MaxTokens + 1) /\ handler[h] \in HandlerType /\ handler[h].email \in Emails
        BY <1>0 DEF Inv, TypeOK, Knows, At
      <3>2. u \in UserIds /\ c \in 0..MaxTokens
        BY <1>2, <3>1 DEF IsUser, HandlerType
      <3> QED BY <1>0, <3>1, <3>2, BoundsAssumption DEF TokenIds, UserIds
    <2>2. c # 0 => /\ Refreshing(h) /\ c < n /\ u = owner[c] /\ c \notin ended
                   /\ \A j \in TokenIds : Live(j) => login[j] # c
                   /\ \A g \in Handlers : Refreshing(g) /\ g # h => handler[g].chain # c
      <3> SUFFICES ASSUME c # 0
                   PROVE  /\ Refreshing(h) /\ c < n /\ u = owner[c] /\ c \notin ended
                          /\ \A j \in TokenIds : Live(j) => login[j] # c
                          /\ \A g \in Handlers : Refreshing(g) /\ g # h => handler[g].chain # c
        OBVIOUS
      <3>1. Refreshing(h)
        BY <1>0 DEF At, Refreshing
      <3>2. c < n /\ u = owner[c] /\ c \notin ended
        BY <3>1 DEF Inv, Knows, EndedLoginsStayEnded
      <3>3. \A j \in TokenIds : Live(j) => login[j] # c
        BY <3>1 DEF Inv, OneTokenPerLogin
      <3>4. \A g \in Handlers : Refreshing(g) /\ g # h => handler[g].chain # c
        BY <3>1 DEF Inv, OneTokenPerLogin
      <3> QED BY <3>1, <3>2, <3>3, <3>4
    <2>3. /\ \A j \in TokenIds : Live(j) => j < n /\ login[j] \in TokenIds /\ login[j] < n
          /\ \A g \in Handlers : Refreshing(g) => handler[g].chain < n
          /\ \A e \in ended : e < n
          /\ ended \subseteq TokenIds
      BY DEF Inv, Numbered, Knows, TypeOK
    <2>4. /\ tokens \in [TokenIds -> 0..MaxUsers] /\ login \in [TokenIds -> 0..MaxTokens]
          /\ owner \in [TokenIds -> 0..MaxUsers] /\ signedIn \subseteq Emails
          /\ handler \in [Handlers -> HandlerType]
      BY DEF Inv, TypeOK
    <2>5. /\ root \in TokenIds /\ root \in 0..MaxTokens /\ root < n + 1
          /\ \A j \in TokenIds : Live(j) => login[j] # root
          /\ \A g \in Handlers : Refreshing(g) /\ g # h => handler[g].chain # root
          /\ root \notin ended
      <3>1. CASE c = 0
        <4>1. root = n
          BY <3>1
        <4>2. \A j \in TokenIds : Live(j) => login[j] # n
          BY <2>1, <2>3 DEF TokenIds
        <4>3. \A g \in Handlers : Refreshing(g) => handler[g].chain # n
          <5> TAKE g \in Handlers
          <5>1. handler[g].chain \in 0..MaxTokens
            BY <2>4 DEF HandlerType
          <5> QED BY <5>1, <2>1, <2>3
        <4>4. n \notin ended
          BY <2>1, <2>3
        <4> QED BY <4>1, <4>2, <4>3, <4>4, <2>1
      <3>2. CASE c # 0
        <4>1. root = c
          BY <3>2
        <4>2. c \in TokenIds /\ c < n + 1
          BY <2>1, <2>2, <3>2 DEF TokenIds
        <4> QED BY <4>1, <4>2, <2>1, <2>2, <3>2
      <3> QED BY <3>1, <3>2
    <2>6. /\ owner' \in [TokenIds -> 0..MaxUsers]
          /\ owner'[root] = u
          /\ \A i \in TokenIds : i < n => owner'[i] = owner[i]
      <3>1. CASE c = 0
        BY <2>0, <2>1, <2>4, <3>1 DEF TokenIds
      <3>2. CASE c # 0
        BY <2>0, <2>2, <2>4, <3>2
      <3> QED BY <3>1, <3>2
    <2> HIDE DEF root
    <2>7. /\ tokens' \in [TokenIds -> 0..MaxUsers] /\ login' \in [TokenIds -> 0..MaxTokens]
          /\ tokens'[n] = u /\ login'[n] = root
          /\ \A j \in TokenIds : j # n => tokens'[j] = tokens[j] /\ login'[j] = login[j]
      BY <2>0, <2>1, <2>4, <2>5
    <2>8. /\ \A j \in TokenIds : Live(j)' /\ j # n => Live(j)
          /\ \A j \in TokenIds : Live(j) => j # n
      BY <2>1, <2>3, <2>7 DEF Live, TokenIds
    <2>9. \A j \in TokenIds : Live(j)' => IsUser(tokens[j])' /\ tokens'[j] = owner'[login'[j]]
      <3> TAKE j \in TokenIds
      <3>1. CASE j = n
        BY <1>0, <1>2, <2>6, <2>7, <3>1 DEF IsUser
      <3>2. CASE j # n
        <4> SUFFICES ASSUME Live(j)'
                     PROVE  IsUser(tokens[j])' /\ tokens'[j] = owner'[login'[j]]
          OBVIOUS
        <4>1. Live(j) /\ tokens'[j] = tokens[j] /\ login'[j] = login[j]
          BY <2>7, <2>8, <3>2
        <4>2. IsUser(tokens[j]) /\ tokens[j] = owner[login[j]]
          BY <4>1 DEF Inv, TypeOK
        <4>3. owner'[login[j]] = owner[login[j]]
          BY <4>1, <2>3, <2>6
        <4> QED BY <1>0, <4>1, <4>2, <4>3 DEF IsUser
      <3> QED BY <3>1, <3>2
    <2>10. TypeOK'
      <3>1. signedIn' \subseteq Emails
        BY <2>0, <2>1, <2>4
      <3> QED BY <1>0, <2>0, <2>m, <2>1, <2>6, <2>7, <2>9, <3>1 DEF Inv, TypeOK, IsUser
    <2>11. OneTokenPerLogin'
      <3>1. ASSUME NEW i \in TokenIds, NEW j \in TokenIds, Live(i)', Live(j)', login'[i] = login'[j]
            PROVE  i = j
        <4>1. CASE i = n \/ j = n
          BY <2>5, <2>7, <2>8, <3>1, <4>1
        <4>2. CASE i # n /\ j # n
          BY <2>7, <2>8, <3>1, <4>2 DEF Inv, OneTokenPerLogin
        <4> QED BY <4>1, <4>2
      <3>2. ASSUME NEW g \in Handlers, NEW j \in TokenIds, Refreshing(g)', Live(j)'
            PROVE  handler'[g].chain # login'[j]
        <4>1. CASE j = n
          BY <2>m, <2>5, <2>7, <3>2, <4>1
        <4>2. CASE j # n
          BY <2>m, <2>7, <2>8, <3>2, <4>2 DEF Inv, OneTokenPerLogin
        <4> QED BY <4>1, <4>2
      <3>3. \A f, g \in Handlers :
              Refreshing(f)' /\ Refreshing(g)' /\ handler'[f].chain = handler'[g].chain => f = g
        BY <2>m DEF Inv, OneTokenPerLogin
      <3> QED BY <3>1, <3>2, <3>3 DEF OneTokenPerLogin
    <2>12. EndedLoginsStayEnded'
      <3>1. ASSUME NEW j \in TokenIds, Live(j)'
            PROVE  login'[j] \notin ended'
        <4>1. CASE j = n
          BY <1>0, <2>5, <2>7, <4>1
        <4>2. CASE j # n
          BY <1>0, <2>7, <2>8, <3>1, <4>2 DEF Inv, EndedLoginsStayEnded
        <4> QED BY <4>1, <4>2
      <3>2. \A g \in Handlers : Refreshing(g)' => handler'[g].chain \notin ended'
        BY <1>0, <2>m DEF Inv, EndedLoginsStayEnded
      <3> QED BY <3>1, <3>2 DEF EndedLoginsStayEnded
    <2>13. Numbered'
      <3>1. ASSUME NEW j \in TokenIds, Live(j)'
            PROVE  j < n + 1 /\ login'[j] \in TokenIds /\ login'[j] < n + 1
        <4>1. CASE j = n
          BY <2>1, <2>5, <2>7, <4>1
        <4>2. CASE j # n
          <5>1. j < n /\ login'[j] \in TokenIds /\ login'[j] < n
            BY <2>3, <2>7, <2>8, <3>1, <4>2
          <5> QED BY <5>1, <2>1 DEF TokenIds
        <4> QED BY <4>1, <4>2
      <3>2. \A e \in ended : e < n + 1
        BY <2>1, <2>3 DEF TokenIds
      <3>3. \A v \in UserIds : IsUser(v)' => v < nextUser' /\ users'[v].email \in Emails
        BY <1>0 DEF Inv, Numbered, IsUser
      <3> QED BY <1>0, <2>0, <3>1, <3>2, <3>3 DEF Numbered
    <2>14. \A g \in Handlers : Knows(g)'
      <3> TAKE g \in Handlers
      <3>1. CASE g = h
        BY <2>m, <3>1 DEF Knows, Refreshing
      <3>2. CASE g # h
        <4>1. handler'[g] = handler[g] /\ Knows(g) /\ handler[g] \in HandlerType
          BY <2>m, <2>4, <3>2 DEF Inv
        <4>2. ASSUME Refreshing(g)
              PROVE  /\ handler[g].chain < n + 1
                     /\ handler[g].user = owner'[handler[g].chain]
          <5>1. handler[g].chain \in TokenIds /\ handler[g].chain < n
            BY <2>3, <4>1, <4>2 DEF HandlerType, Refreshing, TokenIds
          <5>2. handler[g].user = owner[handler[g].chain]
            BY <4>1, <4>2 DEF Knows
          <5> QED BY <5>1, <5>2, <2>1, <2>6 DEF TokenIds
        <4> QED BY <2>0, <4>1, <4>2 DEF Knows, Refreshing
      <3> QED BY <3>1, <3>2
    <2> QED BY <2>10, <2>11, <2>12, <2>13, <2>14 DEF Inv
  <1> QED BY <1>1, <1>2

\* Every step keeps the invariant.
LEMMA NextInv == ASSUME Inv, [Next]_vars PROVE Inv'
PROOF
  <1>1. ASSUME NEW h \in Handlers,
               \/ \E e \in Emails, t \in Tenants : CreateUser(h, e, t)
               \/ \E u \in UserIds : Login(h, u)
               \/ \E e \in Emails, u \in UserIds : Logout(h, e, u)
        PROVE  Inv'
    BY <1>1, BeginStep
  <1>2. ASSUME NEW h \in Handlers, NEW k \in TokenIds, Refresh(h, k)
        PROVE  Inv'
    BY <1>2, RefreshStep
  <1>3. ASSUME NEW h \in Handlers, InsertUser(h)
        PROVE  Inv'
    BY <1>3, InsertUserStep
  <1>4. ASSUME NEW h \in Handlers, LookUpUser(h)
        PROVE  Inv'
    BY <1>4, LookUpStep
  <1>5. ASSUME NEW h \in Handlers, InsertRefreshToken(h)
        PROVE  Inv'
    BY <1>5, InsertTokenStep
  <1>6. ASSUME NEW h \in Handlers, LogoutDelete(h)
        PROVE  Inv'
    BY <1>6, LogoutStep
  <1>7. ASSUME NEW h \in Handlers, Abort(h)
        PROVE  Inv'
    <2>1. /\ Return(h) /\ UNCHANGED <<accounts, store, history>>
          /\ signedIn' = signedIn /\ calls' = calls /\ faults' = faults + 1
      BY <1>7 DEF Abort
    <2>2. faults' \in Nat
      BY <2>1 DEF Inv, TypeOK
    <2> QED BY <2>1, <2>2, ReturnStep
  <1>8. ASSUME NEW t \in Tenants, DeleteTenantData(t)
        PROVE  Inv'
    BY <1>8, DeleteTenantStep
  <1>9. ASSUME NEW k \in TokenIds, Expire(k)
        PROVE  Inv'
    <2>1. /\ expired' = expired \cup {k}
          /\ UNCHANGED <<users, nextUser, tokens, nextToken, handler, signedIn, calls, faults, login, owner, ended>>
      BY <1>9 DEF Expire, accounts, bounds, history
    <2> QED
      BY <2>1 DEF Inv, TypeOK, OneTokenPerLogin, EndedLoginsStayEnded, Numbered, Knows, Refreshing,
                  Live, IsUser
  <1>10. CASE UNCHANGED vars
    BY <1>10 DEF vars, accounts, store, bounds, history, Inv, TypeOK, OneTokenPerLogin,
                 EndedLoginsStayEnded, Numbered, Knows, Refreshing, Live, IsUser
  <1> QED BY <1>1, <1>2, <1>3, <1>4, <1>5, <1>6, <1>7, <1>8, <1>9, <1>10 DEF Next

-----------------------------------------------------------------------------
(* The theorems.                                                             *)

\* Every variable keeps its type, an address has one account at a time and a token
\* belongs to the account that logged in, whatever creations, deletions and
\* requests overlap.
THEOREM TypeCorrect == Spec => []TypeOK
PROOF
  <1>1. Inv => TypeOK
    BY DEF Inv
  <1> QED BY InitInv, NextInv, <1>1, PTL DEF Spec

\* However many requests present a token at once, one of them replaces it.
THEOREM LoginHasOneToken == Spec => []OneTokenPerLogin
PROOF
  <1>1. Inv => OneTokenPerLogin
    BY DEF Inv
  <1> QED BY InitInv, NextInv, <1>1, PTL DEF Spec

\* A login that a logout found in the table has no token any more, and no request
\* in flight brings one back.
THEOREM LogoutEndsLogins == Spec => []EndedLoginsStayEnded
PROOF
  <1>1. Inv => EndedLoginsStayEnded
    BY DEF Inv
  <1> QED BY InitInv, NextInv, <1>1, PTL DEF Spec

=============================================================================
