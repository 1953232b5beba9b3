------------------------------ MODULE EdgeProofs ------------------------------
(***************************************************************************)
(* Proofs about the services around the trading path, for any users,       *)
(* requests, trades and faults.                                            *)
(*                                                                         *)
(* Auth: the tokens a session is made of are used once, users have wallets *)
(* before sessions, and only an administrator ends a suspension.           *)
(* Portfolio: it implements PositionKeeping, its accounts add up, and it   *)
(* refuses no sale without a cause.                                        *)
(* Admin: an operation on a wallet that is COMPLETED has been done.        *)
(* MarketData: a candle is made of the trades of its interval.             *)
(* Notification: a party of an event is told of it once.                   *)
(* TradeHistory: who pages through a history sees each trade once.         *)
(* Gateway: the hub's indices agree, and no client skips a trade.          *)
(***************************************************************************)
EXTENDS Auth, Portfolio, Admin, MarketData, Notification, TradeHistory, Gateway, Sums, TLAPS

-----------------------------------------------------------------------------
(***************************************************************************)
(* Auth.                                                                   *)
(***************************************************************************)
\* The operations, the statements and the statuses of Auth by name.
Ops      == {"none", "verify", "reset", "login", "refresh", "logout", "suspend", "change",
             "google", "signup", "link", "connect"}
Steps    == {"none", "code", "wallet", "status", "session", "track", "revoke", "rotate", "password",
             "existing", "lookup", "create", "mark", "lock", "bind", "consume"}
Statuses == {"NONE", "PENDING_VERIFICATION", "VERIFIED", "SUSPENDED"}

Accounts == [status : Statuses, password : BOOLEAN, failed : Nat, locked : BOOLEAN]
Tokens   == [user : Users, status : {"ACTIVE", "ROTATED", "REVOKED"}, from : Nat, via : Ops \X Nat]
Links    == [user : Users, sub : Subs, state : {"ACTIVE", "CONSUMED", "EXPIRED"}]
Records  == [op : Ops, at : Steps, user : Users \cup {NoUser}, arg : Nat]

\* The variables the proofs speak of hold values of their kinds.
AuthTyped ==
  /\ accounts \in [Users -> Accounts]
  /\ identities \in [Subs -> Users \cup {NoUser}]
  /\ tokens \in Seq(Tokens) /\ links \in Seq(Links)
  /\ requests \in [Requests -> Records]

\* Operations that must not open a session for a user without wallets.
FailClosed == {"verify", "google", "signup", "link"}

\* What a handler under way has established by the statement it is at.
Sound(q) ==
  /\ q.at # "none" => q.user \in Users
  /\ q.at \in {"lookup", "create"} => q.op = "signup" /\ \E s \in Subs : GoogleEmail[s] = q.user
  /\ q.at = "wallet" => q.op \in FailClosed \cup {"connect"}
  /\ q.at \in {"lock", "consume"} => q.op = "link"
  /\ q.at = "session" => q.op \in FailClosed \cup {"login"}
  /\ q.at = "status" => q.op = "verify"
  /\ q.at = "existing" => q.op = "google"
  /\ q.at = "mark" => q.op = "signup"
  /\ q.at = "rotate" => q.op = "refresh" /\ q.arg \in DOMAIN tokens
  /\ q.op = "link" /\ q.at # "track" => q.arg \in DOMAIN links
  /\ q.at \in {"status", "mark", "consume"} => q.user \in funded
  /\ q.at = "session" /\ q.op \in FailClosed => q.user \in funded

\* A token that another came from is rotated, and one that came from a link token
\* leaves that consumed.
TokensTraced ==
  \A t \in DOMAIN tokens :
    /\ tokens[t].from # 0 => tokens[t].from \in DOMAIN tokens /\ tokens[tokens[t].from].status = "ROTATED"
    /\ tokens[t].via[1] = "link" => tokens[t].via[2] \in DOMAIN links /\ links[tokens[t].via[2]].state = "CONSUMED"

\* Request r has consumed a link token and has yet to open the session.
Opening(r) == requests[r].op = "link" /\ requests[r].at = "session"

\* It has consumed it alone, and no session has come of it.
LinksSpentOnce ==
  \A r \in Requests : Opening(r) =>
    /\ links[requests[r].arg].state = "CONSUMED"
    /\ \A t \in DOMAIN tokens : tokens[t].via # <<"link", requests[r].arg>>
    /\ \A o \in Requests : o # r /\ Opening(o) => requests[o].arg # requests[r].arg

RequestsSound == \A r \in Requests : Sound(requests[r])

AuthInv == AuthTyped /\ RequestsSound /\ TokensTraced /\ LinksSpentOnce /\ SessionsSound
-----------------------------------------------------------------------------
LEMMA AppendedTo ==
  ASSUME NEW S, NEW s \in Seq(S), NEW e \in S
  PROVE  /\ Append(s, e) \in Seq(S)
         /\ DOMAIN Append(s, e) = DOMAIN s \cup {Len(s) + 1}
         /\ Len(s) + 1 \notin DOMAIN s
         /\ Append(s, e)[Len(s) + 1] = e
         /\ \A i \in DOMAIN s : Append(s, e)[i] = s[i]
  OBVIOUS

\* Codes, tokens and wallets only come, so that what a handler has established stays.
LEMMA SoundStays ==
  ASSUME NEW q, Sound(q), UNCHANGED <<tokens, links>>, funded \subseteq funded'
  PROVE  Sound(q)'
  BY DEF Sound

\* A step in which one request goes on to q.
LEMMA RequestGoesOn ==
  ASSUME requests \in [Requests -> Records], RequestsSound,
         NEW r \in Requests, NEW q \in Records, Sound(q)',
         requests' = [requests EXCEPT ![r] = q],
         DOMAIN tokens \subseteq DOMAIN tokens', DOMAIN links \subseteq DOMAIN links', funded \subseteq funded'
  PROVE  requests' \in [Requests -> Records] /\ RequestsSound'
<1>1. requests' \in [Requests -> Records] /\ requests'[r] = q
  OBVIOUS
<1>2. ASSUME NEW o \in Requests PROVE Sound(requests[o])'
  <2>1. CASE o = r
    <3>1. requests'[o] = q BY <2>1, <1>1
    <3>2. QED BY <3>1 DEF Sound
  <2>2. CASE o # r
    <3>1. requests'[o] = requests[o] /\ Sound(requests[o]) BY <2>2 DEF RequestsSound
    <3>2. QED BY <3>1 DEF Sound
  <2>3. QED BY <2>1, <2>2
<1>3. QED BY <1>1, <1>2 DEF RequestsSound

\* Where tokens and links stay, the invariant is a matter of the requests alone.
LEMMA SessionsStay ==
  ASSUME AuthInv, AuthTyped', RequestsSound', UNCHANGED <<tokens, links>>, funded \subseteq funded',
         \A r \in Requests : Opening(r)' => Opening(r) /\ requests'[r] = requests[r]
  PROVE  AuthInv'
<1>1. TokensTraced' /\ SessionsSound'
  BY DEF AuthInv, TokensTraced, SessionsSound, UsedOnce, WalletBeforeSession
<1>2. LinksSpentOnce'
  <2> SUFFICES ASSUME NEW r \in Requests, Opening(r)' PROVE
        /\ links'[requests'[r].arg].state = "CONSUMED"
        /\ \A t \in DOMAIN tokens' : tokens'[t].via # <<"link", requests'[r].arg>>
        /\ \A o \in Requests : o # r /\ Opening(o)' => requests'[o].arg # requests'[r].arg
    BY DEF LinksSpentOnce
  <2>1. Opening(r) /\ requests'[r] = requests[r]
    OBVIOUS
  <2>2. QED BY <2>1 DEF AuthInv, LinksSpentOnce
<1>3. QED BY <1>1, <1>2 DEF AuthInv

\* A handler goes on to q, which has no session to open yet on a link token.
LEMMA HandlerGoesOn ==
  ASSUME AuthInv, NEW r \in Requests, NEW q \in Records, Sound(q)',
         ~(q.op = "link" /\ q.at = "session"),
         requests' = [requests EXCEPT ![r] = q],
         UNCHANGED <<tokens, links>>, funded \subseteq funded',
         accounts' \in [Users -> Accounts], identities' \in [Subs -> Users \cup {NoUser}]
  PROVE  AuthInv'
<1>1. requests' \in [Requests -> Records] /\ RequestsSound'
  BY RequestGoesOn DEF AuthInv, AuthTyped, Steps
<1>2. AuthTyped'
  BY <1>1 DEF AuthInv, AuthTyped
<1>3. ASSUME NEW o \in Requests, Opening(o)' PROVE Opening(o) /\ requests'[o] = requests[o]
  <2>1. requests'[r] = q BY DEF AuthInv, AuthTyped
  <2>2. o # r BY <1>3, <2>1 DEF Opening
  <2>3. requests'[o] = requests[o] BY <2>2 DEF AuthInv, AuthTyped
  <2>4. QED BY <1>3, <2>3 DEF Opening
<1>4. QED BY <1>1, <1>2, <1>3, SessionsStay

\* No handler is concerned.
LEMMA HandlersRest ==
  ASSUME AuthInv, UNCHANGED <<requests, tokens, links>>, funded \subseteq funded',
         accounts' \in [Users -> Accounts], identities' \in [Subs -> Users \cup {NoUser}]
  PROVE  AuthInv'
<1>1. AuthTyped' BY DEF AuthInv, AuthTyped
<1>2. RequestsSound' BY DEF AuthInv, RequestsSound, Sound
<1>3. ASSUME NEW o \in Requests, Opening(o)' PROVE Opening(o) /\ requests'[o] = requests[o]
  BY <1>3 DEF Opening
<1>4. QED BY <1>1, <1>2, <1>3, SessionsStay

\* The record a request begins as, goes on to, or ends as.
LEMMA Goes ==
  ASSUME AuthTyped, NEW r \in Requests
  PROVE  /\ Idle \in Records /\ Sound(Idle)
         /\ \A op \in Ops, at \in Steps, u \in Users, arg \in Nat :
              [op |-> op, at |-> at, user |-> u, arg |-> arg] \in Records
         /\ \A step \in Steps :
              LET q == [requests[r] EXCEPT !.at = step]
              IN /\ GoOn(r, step) => requests' = [requests EXCEPT ![r] = q]
                 /\ q \in Records
                 /\ q.op = requests[r].op /\ q.at = step /\ q.user = requests[r].user /\ q.arg = requests[r].arg
         /\ End(r) => requests' = [requests EXCEPT ![r] = Idle]
<1>1. Idle \in Records /\ Sound(Idle)
  BY DEF Idle, Records, Sound, Ops, Steps
<1>2. requests[r] \in Records
  BY DEF AuthTyped
<1>3. QED BY <1>1, <1>2 DEF AuthTyped, Records, GoOn, End

\* Neither a request nor anything of a session or an identity changes.
LEMMA AccountsOnly ==
  ASSUME AuthInv, UNCHANGED <<requests, tokens, links, funded, identities>>,
         accounts' \in [Users -> Accounts]
  PROVE  AuthInv'
  BY HandlersRest DEF AuthInv, AuthTyped

\* Handlers of one step, the reconciler's claim and the clock.
LEMMA WithoutRequest ==
  ASSUME AuthInv, NEW u \in Users
  PROVE  /\ Register(u) \/ ResendVerificationCode(u) \/ ForgotPassword(u) => AuthInv'
         /\ \A p \in Purposes : WrongCode(p, u) => AuthInv'
         /\ UnsuspendUser(u) \/ LockPasses(u) \/ EventDue(u) => AuthInv'
         /\ \A w \in Reconcilers : Claim(w, u) => AuthInv'
<1>1. accounts \in [Users -> Accounts]
  BY DEF AuthInv, AuthTyped
<1>2. ASSUME Register(u) PROVE AuthInv'
  <2>1. accounts' \in [Users -> Accounts] BY <1>1, <1>2 DEF Register, NoAccount, Accounts, Statuses
  <2>2. QED BY <2>1, <1>2, AccountsOnly DEF Register, AtOnce
<1>3. ASSUME ResendVerificationCode(u) \/ ForgotPassword(u) PROVE AuthInv'
  BY <1>1, <1>3, AccountsOnly DEF ResendVerificationCode, ForgotPassword, AtOnce
<1>4. ASSUME NEW p \in Purposes, WrongCode(p, u) PROVE AuthInv'
  BY <1>1, <1>4, AccountsOnly DEF WrongCode, AtOnce
<1>5. ASSUME UnsuspendUser(u) PROVE AuthInv'
  <2>1. accounts' \in [Users -> Accounts] BY <1>1, <1>5 DEF UnsuspendUser, Accounts, Statuses
  <2>2. QED BY <2>1, <1>5, AccountsOnly DEF UnsuspendUser, AtOnce
<1>6. ASSUME LockPasses(u) PROVE AuthInv'
  <2>1. accounts' \in [Users -> Accounts] BY <1>1, <1>6 DEF LockPasses, Accounts, Statuses
  <2>2. QED BY <2>1, <1>6, AccountsOnly DEF LockPasses
<1>7. ASSUME EventDue(u) PROVE AuthInv'
  BY <1>1, <1>7, AccountsOnly DEF EventDue
<1>8. ASSUME NEW w \in Reconcilers, Claim(w, u) PROVE AuthInv'
  BY <1>1, <1>8, AccountsOnly DEF Claim
<1>9. QED BY <1>2, <1>3, <1>4, <1>5, <1>6, <1>7, <1>8

LEMMA ByReconciler ==
  ASSUME AuthInv, NEW w \in Reconcilers, Reconcile(w) \/ ReconcilerStops(w)
  PROVE  AuthInv'
<1>1. accounts \in [Users -> Accounts] /\ identities \in [Subs -> Users \cup {NoUser}]
  BY DEF AuthInv, AuthTyped
<1>2. CASE Reconcile(w)
  <2>1. funded \subseteq funded' BY <1>2 DEF Reconcile
  <2>2. QED BY <1>1, <1>2, <2>1, HandlersRest DEF Reconcile
<1>3. CASE ReconcilerStops(w)
  BY <1>1, <1>3, AccountsOnly DEF ReconcilerStops
<1>4. QED BY <1>2, <1>3

\* A request that begins, whatever becomes of the accounts.
LEMMA Begins ==
  ASSUME AuthInv, NEW r \in Requests, NEW u \in Users,
         NEW op \in Ops, NEW at \in Steps, NEW arg \in Nat, Begin(r, op, at, u, arg),
         Sound([op |-> op, at |-> at, user |-> u, arg |-> arg]), at # "session" \/ op # "link",
         UNCHANGED <<tokens, links, funded, identities>>, accounts' \in [Users -> Accounts]
  PROVE  AuthInv'
<1> DEFINE q == [op |-> op, at |-> at, user |-> u, arg |-> arg]
<1>1. q \in Records /\ q.op = op /\ q.at = at BY DEF Records
<1>2. requests' = [requests EXCEPT ![r] = q] BY DEF Begin
<1>3. identities' \in [Subs -> Users \cup {NoUser}] BY DEF AuthInv, AuthTyped
<1> HIDE DEF q
<1>4. Sound(q) BY DEF q
<1>5. Sound(q)' BY <1>4 DEF Sound
<1>6. QED BY <1>1, <1>2, <1>3, <1>5, HandlerGoesOn

LEMMA ByUserBegins ==
  ASSUME AuthInv, NEW r \in Requests, NEW u \in Users, ByUser(r, u)
  PROVE  AuthInv'
<1>1. accounts \in [Users -> Accounts] /\ accounts[u].failed + 1 \in Nat
  BY DEF AuthInv, AuthTyped, Accounts
<1>2. CASE Login(r, u)
  <2>1. CASE Begin(r, "login", "session", u, 0)
    <3>1. Sound([op |-> "login", at |-> "session", user |-> u, arg |-> 0]) BY DEF Sound, FailClosed
    <3>2. QED BY <1>1, <1>2, <2>1, <3>1, Begins DEF Login, Ops, Steps
  <2>2. CASE Begin(r, "login", "track", u, accounts[u].failed + 1)
    <3>1. Sound([op |-> "login", at |-> "track", user |-> u, arg |-> accounts[u].failed + 1]) BY DEF Sound
    <3>2. QED BY <1>1, <1>2, <2>2, <3>1, Begins DEF Login, Ops, Steps
  <2>3. QED BY <1>2, <2>1, <2>2 DEF Login
<1>3. CASE LogoutAll(r, u)
  <2>1. Sound([op |-> "logout", at |-> "revoke", user |-> u, arg |-> 0]) BY DEF Sound
  <2>2. QED BY <1>1, <1>3, <2>1, Begins DEF LogoutAll, Ops, Steps
<1>4. CASE ChangePassword(r, u)
  <2>1. Sound([op |-> "change", at |-> "password", user |-> u, arg |-> 0]) BY DEF Sound
  <2>2. QED BY <1>1, <1>4, <2>1, Begins DEF ChangePassword, Ops, Steps
<1>5. ASSUME NEW p \in Purposes, RightCode(r, p, u) PROVE AuthInv'
  <2> DEFINE op == IF p = "register" THEN "verify" ELSE "reset"
  <2>1. op \in Ops /\ op # "link" BY DEF Ops
  <2>2. Begin(r, op, "code", u, 0) BY <1>5 DEF RightCode
  <2> HIDE DEF op
  <2>3. Sound([op |-> op, at |-> "code", user |-> u, arg |-> 0]) BY <2>1 DEF Sound
  <2>4. QED BY <1>1, <1>5, <2>1, <2>2, <2>3, Begins DEF RightCode, Ops, Steps
<1>6. ASSUME NEW t \in DOMAIN tokens, tokens[t].user = u, RefreshToken(r, t) PROVE AuthInv'
  <2>1. t \in Nat BY DEF AuthInv, AuthTyped
  <2>2. CASE Begin(r, "refresh", "revoke", u, t)
    <3>1. Sound([op |-> "refresh", at |-> "revoke", user |-> u, arg |-> t]) BY DEF Sound
    <3>2. QED BY <1>1, <1>6, <2>1, <2>2, <3>1, Begins DEF RefreshToken, Ops, Steps
  <2>3. CASE Begin(r, "refresh", "rotate", u, t)
    <3>1. Sound([op |-> "refresh", at |-> "rotate", user |-> u, arg |-> t]) BY DEF Sound
    <3>2. QED BY <1>1, <1>6, <2>1, <2>3, <3>1, Begins DEF RefreshToken, Ops, Steps
  <2>4. QED BY <1>6, <2>2, <2>3 DEF RefreshToken
<1>7. QED BY <1>2, <1>3, <1>4, <1>5, <1>6 DEF ByUser

LEMMA ByAdminBegins ==
  ASSUME AuthInv, NEW r \in Requests, NEW u \in Users, ByAdmin(r, u)
  PROVE  AuthInv'
<1>1. accounts \in [Users -> Accounts]
  BY DEF AuthInv, AuthTyped
<1>2. CASE InvalidateUserSessions(r, u)
  BY <1>2, ByUserBegins DEF InvalidateUserSessions, ByUser
<1>3. CASE SuspendUser(r, u)
  <2>1. accounts' \in [Users -> Accounts] BY <1>1, <1>3 DEF SuspendUser, Accounts, Statuses
  <2>2. Sound([op |-> "suspend", at |-> "revoke", user |-> u, arg |-> 0]) BY DEF Sound
  <2>3. QED BY <1>3, <2>1, <2>2, Begins DEF SuspendUser, Ops, Steps
<1>4. CASE UnsuspendUser(u)
  BY <1>4, WithoutRequest
<1>5. QED BY <1>2, <1>3, <1>4 DEF ByAdmin

LEMMA ByGoogleBegins ==
  ASSUME AuthInv, NEW r \in Requests, NEW u \in Users, ByGoogle(r, u)
  PROVE  AuthInv'
<1>1. accounts \in [Users -> Accounts] /\ accounts[u].failed + 1 \in Nat
  BY DEF AuthInv, AuthTyped, Accounts
<1>2. CASE ConnectGoogleAccount(r, u)
  <2>1. Sound([op |-> "connect", at |-> "bind", user |-> u, arg |-> 0]) BY DEF Sound
  <2>2. QED BY <1>1, <1>2, <2>1, Begins DEF ConnectGoogleAccount, Ops, Steps
<1>3. ASSUME NEW s \in Subs, GoogleEmail[s] = u, GoogleLogin(r, s) PROVE AuthInv'
  <2>1. CASE Linked(s)
    <3>1. identities[s] \in Users BY <2>1 DEF Linked, AuthInv, AuthTyped
    <3>2. Sound([op |-> "google", at |-> "existing", user |-> identities[s], arg |-> 0]) BY <3>1 DEF Sound
    <3>3. Begin(r, "google", "existing", identities[s], 0) BY <1>3, <2>1 DEF GoogleLogin
    <3>4. QED BY <1>1, <1>3, <3>1, <3>2, <3>3, Begins DEF GoogleLogin, Ops, Steps
  <2>2. CASE ~Linked(s)
    <3>1. Sound([op |-> "signup", at |-> "lookup", user |-> u, arg |-> 0]) BY <1>3 DEF Sound
    <3>2. Begin(r, "signup", "lookup", u, 0) BY <1>3, <2>2 DEF GoogleLogin
    <3>3. QED BY <1>1, <1>3, <3>1, <3>2, Begins DEF GoogleLogin, Ops, Steps
  <2>3. QED BY <2>1, <2>2
<1>4. ASSUME NEW l \in DOMAIN links, links[l].user = u, LinkGoogleAccount(r, l) PROVE AuthInv'
  <2>1. l \in Nat BY DEF AuthInv, AuthTyped
  <2>2. CASE Begin(r, "link", "lock", u, l)
    <3>1. Sound([op |-> "link", at |-> "lock", user |-> u, arg |-> l]) BY DEF Sound
    <3>2. QED BY <1>1, <1>4, <2>1, <2>2, <3>1, Begins DEF LinkGoogleAccount, Ops, Steps
  <2>3. CASE Begin(r, "link", "track", u, accounts[u].failed + 1)
    <3>1. Sound([op |-> "link", at |-> "track", user |-> u, arg |-> accounts[u].failed + 1]) BY DEF Sound
    <3>2. QED BY <1>1, <1>4, <2>3, <3>1, Begins DEF LinkGoogleAccount, Ops, Steps
  <2>4. QED BY <1>4, <2>2, <2>3 DEF LinkGoogleAccount
<1>5. QED BY <1>2, <1>3, <1>4 DEF ByGoogle
-----------------------------------------------------------------------------
(***************************************************************************)
(* The statements of a handler under way.                                  *)
(***************************************************************************)
\* Its last statement, or the end of a request that is abandoned.
LEMMA Ends ==
  ASSUME AuthInv, NEW r \in Requests, End(r), UNCHANGED <<tokens, links>>, funded \subseteq funded',
         accounts' \in [Users -> Accounts], identities' \in [Subs -> Users \cup {NoUser}]
  PROVE  AuthInv'
<1>1. Idle \in Records /\ Sound(Idle) /\ requests' = [requests EXCEPT ![r] = Idle]
  BY Goes DEF AuthInv
<1>2. ~(Idle.op = "link" /\ Idle.at = "session")
  BY DEF Idle
<1>3. Sound(Idle)' BY <1>1 DEF Sound
<1>4. QED BY <1>1, <1>2, <1>3, HandlerGoesOn

\* A statement that is followed by another.
LEMMA GoesOn ==
  ASSUME AuthInv, NEW r \in Requests, NEW step \in Steps, GoOn(r, step),
         requests[r].op = "link" => step # "session",
         Sound([requests[r] EXCEPT !.at = step]), UNCHANGED <<tokens, links>>, funded \subseteq funded',
         accounts' \in [Users -> Accounts], identities' \in [Subs -> Users \cup {NoUser}]
  PROVE  AuthInv'
<1>1. PICK q : q = [requests[r] EXCEPT !.at = step]
  OBVIOUS
<1>2. q \in Records /\ q.op = requests[r].op /\ q.at = step /\ requests' = [requests EXCEPT ![r] = q]
  BY <1>1, Goes DEF AuthInv
<1>3. Sound(q)'
  <2>1. Sound(q) BY <1>1
  <2>2. QED BY <2>1, SoundStays
<1>4. QED BY <1>2, <1>3, HandlerGoesOn

\* Statements that concern codes, accounts and events.
LEMMA StatementsOnAccounts ==
  ASSUME AuthInv, NEW r \in Requests,
         ConsumeCode(r) \/ VerifyEmail(r) \/ TrackFailedLogin(r) \/ UpdatePassword(r)
           \/ ExistingUserSession(r) \/ MarkProcessed(r) \/ LockLink(r) \/ Abandon(r)
  PROVE  AuthInv'
<1> DEFINE q(step) == [requests[r] EXCEPT !.at = step]
<1>1. /\ accounts \in [Users -> Accounts] /\ identities \in [Subs -> Users \cup {NoUser}]
      /\ requests[r] \in Records /\ Sound(requests[r])
  BY DEF AuthInv, AuthTyped, RequestsSound
<1>2. CASE ConsumeCode(r)
  <2>1. requests[r].op = "verify" => Sound(q("wallet"))
    BY <1>1, <1>2 DEF ConsumeCode, At, Sound, Records, FailClosed
  <2>2. Sound(q("password"))
    BY <1>1, <1>2 DEF ConsumeCode, At, Sound, Records
  <2>3. CASE requests[r].op = "verify"
    BY <1>1, <1>2, <2>1, <2>3, GoesOn DEF ConsumeCode, Steps
  <2>4. CASE requests[r].op # "verify"
    BY <1>1, <1>2, <2>2, <2>4, GoesOn DEF ConsumeCode, Steps
  <2>5. QED BY <2>3, <2>4
<1>3. CASE VerifyEmail(r)
  <2>1. requests[r].op = "verify" /\ Sound(q("session"))
    BY <1>1, <1>3 DEF VerifyEmail, At, Sound, Records, FailClosed
  <2>2. accounts' \in [Users -> Accounts]
    BY <1>1, <1>3 DEF VerifyEmail, Accounts, Statuses
  <2>3. CASE GoOn(r, "session")
    BY <1>1, <1>3, <2>1, <2>2, <2>3, GoesOn DEF VerifyEmail, Steps
  <2>4. CASE End(r)
    BY <1>1, <1>3, <2>2, <2>4, Ends DEF VerifyEmail
  <2>5. QED BY <1>3, <2>3, <2>4 DEF VerifyEmail
<1>4. CASE TrackFailedLogin(r)
  <2> DEFINE locks == requests[r].arg >= MaxFailed
             u == requests[r].user
  <2>1. locks \in BOOLEAN
    OBVIOUS
  <2>2. accounts' = [accounts EXCEPT ![u].failed = requests[r].arg, ![u].locked = locks] /\ requests[r].arg \in Nat
    BY <1>1, <1>4 DEF TrackFailedLogin, Records
  <2> HIDE DEF locks
  <2>3. accounts' \in [Users -> Accounts]
    BY <1>1, <2>1, <2>2 DEF Accounts
  <2>4. QED BY <1>1, <1>4, <2>3, Ends DEF TrackFailedLogin
<1>5. CASE UpdatePassword(r)
  <2>1. accounts' \in [Users -> Accounts]
    BY <1>1, <1>5 DEF UpdatePassword, Accounts, Statuses
  <2>2. Sound(q("revoke"))
    BY <1>1, <1>5 DEF UpdatePassword, At, Sound, Records
  <2>3. QED BY <1>1, <1>5, <2>1, <2>2, GoesOn DEF UpdatePassword, Steps
<1>6. CASE ExistingUserSession(r)
  <2>1. Sound(q("wallet"))
    BY <1>1, <1>6 DEF ExistingUserSession, At, Sound, Records, FailClosed
  <2>2. QED BY <1>1, <1>6, <2>1, GoesOn, Ends DEF ExistingUserSession, Steps
<1>7. CASE MarkProcessed(r)
  <2>1. requests[r].op = "signup" /\ Sound(q("session"))
    BY <1>1, <1>7 DEF MarkProcessed, At, Sound, Records, FailClosed
  <2>2. QED BY <1>1, <1>7, <2>1, GoesOn DEF MarkProcessed, Steps
<1>8. CASE LockLink(r)
  <2>1. Sound(q("bind"))
    BY <1>1, <1>8 DEF LockLink, At, Sound, Records
  <2>2. QED BY <1>1, <1>8, <2>1, GoesOn, Ends DEF LockLink, Steps
<1>9. CASE Abandon(r)
  BY <1>1, <1>9, Ends DEF Abandon
<1>10. QED BY <1>2, <1>3, <1>4, <1>5, <1>6, <1>7, <1>8, <1>9

\* Statements that concern identities and wallets.
LEMMA StatementsOnWallets ==
  ASSUME AuthInv, NEW r \in Requests,
         InitializeWallet(r) \/ CreateUserWithIdentity(r) \/ BindIdentity(r)
  PROVE  AuthInv'
<1> DEFINE q(step) == [requests[r] EXCEPT !.at = step]
<1>1. /\ accounts \in [Users -> Accounts] /\ identities \in [Subs -> Users \cup {NoUser}]
      /\ requests[r] \in Records /\ Sound(requests[r])
  BY DEF AuthInv, AuthTyped, RequestsSound
<1>2. CASE InitializeWallet(r)
  <2>1. funded \subseteq funded' /\ requests[r].at = "wallet" /\ requests[r].op \in FailClosed \cup {"connect"}
    BY <1>1, <1>2 DEF InitializeWallet, At, Sound
  <2>2. CASE End(r)
    BY <1>1, <1>2, <2>1, <2>2, Ends DEF InitializeWallet
  <2>3. CASE funded' = funded \cup {requests[r].user} /\ requests[r].op \in FailClosed /\ GoOn(r, AfterWallet[requests[r].op])
    <3> DEFINE step == AfterWallet[requests[r].op]
    <3>1. requests[r].op \in FailClosed BY <2>3
    <3>2. /\ step \in {"status", "session", "mark", "consume"}
          /\ step = "status" => requests[r].op = "verify"
          /\ step = "mark" => requests[r].op = "signup"
          /\ step = "consume" <=> requests[r].op = "link"
      BY <3>1 DEF AfterWallet, FailClosed
    <3> HIDE DEF step
    <3>3. PICK later : later = q(step)
      OBVIOUS
    <3>4. /\ later \in Records /\ requests' = [requests EXCEPT ![r] = later]
          /\ later.at = step /\ later.op = requests[r].op
          /\ later.user = requests[r].user /\ later.arg = requests[r].arg
      BY <1>1, <2>3, <3>2, <3>3 DEF Records, GoOn, Steps, step
    <3>5. later.user \in Users /\ later.user \in funded'
      BY <1>1, <2>1, <2>3, <3>4 DEF Sound
    <3>6. later.op = "link" => later.arg \in DOMAIN links'
      BY <1>1, <1>2, <2>1, <3>4 DEF Sound, InitializeWallet
    <3>7. Sound(later)'
      BY <3>1, <3>2, <3>4, <3>5, <3>6 DEF Sound, FailClosed
    <3>8. ~(later.op = "link" /\ later.at = "session")
      BY <3>2, <3>4
    <3>9. UNCHANGED <<accounts, identities, tokens, links>>
      BY <1>2 DEF InitializeWallet
    <3>10. QED BY <1>1, <2>1, <3>4, <3>7, <3>8, <3>9, HandlerGoesOn
  <2>4. QED BY <1>2, <2>1, <2>2, <2>3 DEF InitializeWallet, FailClosed
<1>3. CASE CreateUserWithIdentity(r)
  <2> DEFINE u == requests[r].user
             s == SubOf(u)
  <2>1. u \in Users /\ s \in Subs /\ requests[r].op = "signup"
    BY <1>1, <1>3 DEF CreateUserWithIdentity, At, Sound, SubOf
  <2>2. CASE GoOn(r, "lookup") /\ UNCHANGED <<accounts, identities>>
    <3>1. Sound(q("lookup"))
      BY <1>1, <1>3 DEF CreateUserWithIdentity, At, Sound, Records
    <3>2. QED BY <1>1, <1>3, <2>1, <2>2, <3>1, GoesOn DEF CreateUserWithIdentity, Steps
  <2>3. CASE /\ Linked(s) /\ UNCHANGED <<accounts, identities>>
             /\ requests' = [requests EXCEPT ![r].op = "google", ![r].at = "existing", ![r].user = identities[s]]
    <3>1. PICK later : later = [requests[r] EXCEPT !.op = "google", !.at = "existing", !.user = identities[s]]
      OBVIOUS
    <3>2. /\ later \in Records /\ requests' = [requests EXCEPT ![r] = later]
          /\ later.op = "google" /\ later.at = "existing" /\ later.user \in Users
      BY <1>1, <2>1, <2>3, <3>1 DEF Records, Linked, Ops, Steps, AuthInv, AuthTyped
    <3>3. Sound(later)'
      BY <3>2 DEF Sound
    <3>4. QED BY <1>1, <1>3, <2>3, <3>2, <3>3, HandlerGoesOn DEF CreateUserWithIdentity
  <2>4. CASE /\ accounts' = [accounts EXCEPT ![u] = [NoAccount EXCEPT !.status = "VERIFIED"]]
             /\ identities' = [identities EXCEPT ![s] = u]
             /\ GoOn(r, "wallet")
    <3>1. accounts' \in [Users -> Accounts]
      BY <1>1, <2>1, <2>4 DEF NoAccount, Accounts, Statuses
    <3>2. identities' \in [Subs -> Users \cup {NoUser}]
      BY <1>1, <2>1, <2>4
    <3>3. Sound(q("wallet"))
      BY <1>1, <1>3, <2>1 DEF CreateUserWithIdentity, At, Sound, Records, FailClosed
    <3>4. QED BY <1>3, <2>1, <2>4, <3>1, <3>2, <3>3, GoesOn DEF CreateUserWithIdentity, Steps
  <2>5. QED BY <1>3, <2>2, <2>3, <2>4 DEF CreateUserWithIdentity
<1>4. CASE BindIdentity(r)
  <2>1. requests[r].user \in Users /\ (requests[r].op = "link" => links[requests[r].arg].sub \in Subs)
    <3>1. requests[r].user \in Users /\ (requests[r].op = "link" => requests[r].arg \in DOMAIN links)
      BY <1>1, <1>4 DEF BindIdentity, At, Sound
    <3>2. \A l \in DOMAIN links : links[l] \in Links
      BY DEF AuthInv, AuthTyped
    <3>3. QED BY <3>1, <3>2 DEF Links
  <2>2. PICK s \in Subs : Bind(r, s) /\ requests[r].op \in {"link", "connect"}
    BY <1>4, <2>1 DEF BindIdentity
  <2>3. identities' \in [Subs -> Users \cup {NoUser}]
    BY <1>1, <2>1, <2>2 DEF Bind
  <2>4. Sound(q("wallet"))
    BY <1>1, <1>4, <2>2 DEF BindIdentity, At, Sound, Records, FailClosed
  <2>5. CASE GoOn(r, "wallet")
    BY <1>1, <1>4, <2>3, <2>4, <2>5, GoesOn DEF BindIdentity, Steps
  <2>6. CASE End(r)
    BY <1>1, <1>4, <2>3, <2>6, Ends DEF BindIdentity
  <2>7. QED BY <2>2, <2>5, <2>6 DEF Bind
<1>5. QED BY <1>2, <1>3, <1>4
-----------------------------------------------------------------------------
(***************************************************************************)
(* Where tokens and links change.                                          *)
(***************************************************************************)
\* Tokens change their status alone, and none that is rotated.
LEMMA TokensEnd ==
  ASSUME AuthInv, tokens' \in Seq(Tokens), DOMAIN tokens' = DOMAIN tokens,
         \A t \in DOMAIN tokens :
           /\ tokens'[t].user = tokens[t].user /\ tokens'[t].from = tokens[t].from /\ tokens'[t].via = tokens[t].via
           /\ tokens[t].status = "ROTATED" => tokens'[t].status = "ROTATED",
         UNCHANGED <<accounts, identities, links, funded>>,
         requests' \in [Requests -> Records], RequestsSound',
         \A r \in Requests : Opening(r)' => Opening(r) /\ requests'[r] = requests[r]
  PROVE  AuthInv'
<1>1. AuthTyped' BY DEF AuthInv, AuthTyped
<1>2. TokensTraced' BY DEF AuthInv, TokensTraced
<1>3. SessionsSound' BY DEF AuthInv, SessionsSound, UsedOnce, WalletBeforeSession
<1>4. LinksSpentOnce'
  <2> SUFFICES ASSUME NEW r \in Requests, Opening(r)' PROVE
        /\ links'[requests'[r].arg].state = "CONSUMED"
        /\ \A t \in DOMAIN tokens' : tokens'[t].via # <<"link", requests'[r].arg>>
        /\ \A o \in Requests : o # r /\ Opening(o)' => requests'[o].arg # requests'[r].arg
    BY DEF LinksSpentOnce
  <2>1. Opening(r) /\ requests'[r] = requests[r]
    OBVIOUS
  <2>2. QED BY <2>1 DEF AuthInv, LinksSpentOnce
<1>5. QED BY <1>1, <1>2, <1>3, <1>4 DEF AuthInv

LEMMA LogoutKeeps ==
  ASSUME AuthInv, NEW t \in DOMAIN tokens, Logout(t)
  PROVE  AuthInv'
<1>1. tokens \in Seq(Tokens) /\ tokens' = [tokens EXCEPT ![t].status = "REVOKED"] /\ tokens[t].status = "ACTIVE"
  BY DEF AuthInv, AuthTyped, Logout
<1>2. tokens' \in Seq(Tokens) /\ DOMAIN tokens' = DOMAIN tokens
  <2>1. tokens[t] \in Tokens BY <1>1
  <2>2. [tokens[t] EXCEPT !.status = "REVOKED"] \in Tokens BY <2>1 DEF Tokens
  <2>3. tokens' = [tokens EXCEPT ![t] = [tokens[t] EXCEPT !.status = "REVOKED"]] BY <1>1
  <2>4. QED BY <1>1, <2>2, <2>3
<1>3. ASSUME NEW i \in DOMAIN tokens
      PROVE  /\ tokens'[i].user = tokens[i].user /\ tokens'[i].from = tokens[i].from /\ tokens'[i].via = tokens[i].via
             /\ tokens[i].status = "ROTATED" => tokens'[i].status = "ROTATED"
  <2>1. tokens[i] \in Tokens BY <1>1
  <2>2. CASE i = t
    <3>1. tokens'[i] = [tokens[t] EXCEPT !.status = "REVOKED"] BY <1>1, <2>2
    <3>2. QED BY <1>1, <2>1, <2>2, <3>1 DEF Tokens
  <2>3. CASE i # t
    <3>1. tokens'[i] = tokens[i] BY <1>1, <2>3
    <3>2. QED BY <3>1
  <2>4. QED BY <2>2, <2>3
<1>4. UNCHANGED <<accounts, identities, links, funded, requests>>
  BY DEF Logout, AtOnce
<1>5. requests' \in [Requests -> Records] /\ RequestsSound'
  BY <1>2, <1>4 DEF AuthInv, AuthTyped, RequestsSound, Sound
<1>6. QED BY <1>2, <1>3, <1>4, <1>5, TokensEnd DEF Opening

LEMMA RevokeAllKeeps ==
  ASSUME AuthInv, NEW r \in Requests, RevokeAll(r)
  PROVE  AuthInv'
<1> DEFINE revoked(i) == IF tokens[i].user = requests[r].user /\ tokens[i].status = "ACTIVE"
                         THEN [tokens[i] EXCEPT !.status = "REVOKED"] ELSE tokens[i]
<1>1. tokens \in Seq(Tokens) /\ tokens' = [i \in DOMAIN tokens |-> revoked(i)]
  BY DEF AuthInv, AuthTyped, RevokeAll
<1>2. ASSUME NEW i \in DOMAIN tokens
      PROVE  /\ revoked(i) \in Tokens
             /\ revoked(i).user = tokens[i].user /\ revoked(i).from = tokens[i].from /\ revoked(i).via = tokens[i].via
             /\ tokens[i].status = "ROTATED" => revoked(i).status = "ROTATED"
  <2>1. tokens[i] \in Tokens BY <1>1
  <2>2. QED BY <2>1 DEF Tokens
<1> HIDE DEF revoked
<1>3. tokens' \in Seq(Tokens) /\ DOMAIN tokens' = DOMAIN tokens
  BY <1>1, <1>2
<1>4. requests' = [requests EXCEPT ![r] = Idle] /\ Idle \in Records /\ Sound(Idle)
  BY Goes DEF AuthInv, RevokeAll
<1>5. requests' \in [Requests -> Records] /\ RequestsSound'
  <2>1. Sound(Idle)' BY <1>4, <1>3 DEF Sound, RevokeAll
  <2>2. QED BY <1>3, <1>4, <2>1, RequestGoesOn DEF AuthInv, AuthTyped, RevokeAll
<1>6. \A o \in Requests : Opening(o)' => Opening(o) /\ requests'[o] = requests[o]
  BY <1>4 DEF Opening, Idle, AuthInv, AuthTyped
<1>7. QED BY <1>1, <1>2, <1>3, <1>5, <1>6, TokensEnd DEF RevokeAll

LEMMA LinkExpiresKeeps ==
  ASSUME AuthInv, NEW l \in DOMAIN links, LinkExpires(l)
  PROVE  AuthInv'
<1>1. /\ links \in Seq(Links) /\ links[l] \in Links /\ links[l].state = "ACTIVE"
      /\ links' = [links EXCEPT ![l] = [links[l] EXCEPT !.state = "EXPIRED"]]
  BY DEF AuthInv, AuthTyped, LinkExpires
<1>2. links' \in Seq(Links) /\ DOMAIN links' = DOMAIN links
  BY <1>1 DEF Links
<1>3. \A k \in DOMAIN links : links[k].state = "CONSUMED" => links'[k] = links[k]
  BY <1>1
<1>4. UNCHANGED <<accounts, identities, tokens, funded, requests>>
  BY DEF LinkExpires
<1>5. AuthTyped' /\ RequestsSound'
  BY <1>2, <1>4 DEF AuthInv, AuthTyped, RequestsSound, Sound
<1>6. TokensTraced' /\ SessionsSound'
  BY <1>2, <1>3, <1>4 DEF AuthInv, TokensTraced, SessionsSound, UsedOnce, WalletBeforeSession
<1>7. LinksSpentOnce'
  BY <1>2, <1>3, <1>4 DEF AuthInv, LinksSpentOnce, Opening, RequestsSound, Sound
<1>8. QED BY <1>5, <1>6, <1>7 DEF AuthInv

LEMMA LookupEmailKeeps ==
  ASSUME AuthInv, NEW r \in Requests, LookupEmail(r)
  PROVE  AuthInv'
<1> DEFINE u == requests[r].user
           link == [user |-> u, sub |-> SubOf(u), state |-> "ACTIVE"]
<1>1. /\ accounts \in [Users -> Accounts] /\ identities \in [Subs -> Users \cup {NoUser}] /\ links \in Seq(Links)
      /\ requests[r] \in Records /\ Sound(requests[r])
  BY DEF AuthInv, AuthTyped, RequestsSound
<1>2. u \in Users /\ SubOf(u) \in Subs /\ requests[r].op = "signup"
  BY <1>1 DEF LookupEmail, At, Sound, SubOf
<1>3. CASE GoOn(r, "create") /\ UNCHANGED links
  <2>1. Sound([requests[r] EXCEPT !.at = "create"])
    BY <1>1 DEF LookupEmail, At, Sound, Records
  <2>2. QED BY <1>1, <1>2, <1>3, <2>1, GoesOn DEF LookupEmail, Steps
<1>4. CASE End(r) /\ UNCHANGED links
  BY <1>1, <1>4, Ends DEF LookupEmail
<1>5. CASE End(r) /\ links' = Append(links, link)
  <2>1. link \in Links
    BY <1>2 DEF Links
  <2> HIDE DEF link
  <2>2. /\ links' \in Seq(Links) /\ DOMAIN links \subseteq DOMAIN links'
        /\ \A l \in DOMAIN links : links'[l] = links[l]
    BY <1>1, <1>5, <2>1, AppendedTo
  <2>3. requests' = [requests EXCEPT ![r] = Idle] /\ Idle \in Records /\ Sound(Idle)
    BY <1>5, Goes DEF AuthInv
  <2>4. UNCHANGED <<accounts, identities, tokens, funded>>
    BY DEF LookupEmail
  <2>5. requests' \in [Requests -> Records] /\ RequestsSound'
    <3>1. Sound(Idle)' BY DEF Sound, Idle
    <3>2. QED BY <2>2, <2>3, <2>4, <3>1, RequestGoesOn DEF AuthInv, AuthTyped
  <2>6. AuthTyped'
    BY <2>2, <2>4, <2>5 DEF AuthInv, AuthTyped
  <2>7. TokensTraced' /\ SessionsSound'
    BY <2>2, <2>4 DEF AuthInv, TokensTraced, SessionsSound, UsedOnce, WalletBeforeSession
  <2>8. \A o \in Requests : Opening(o)' => Opening(o) /\ requests'[o] = requests[o]
    BY <2>3 DEF Opening, Idle, AuthInv, AuthTyped
  <2>9. \A o \in Requests : Opening(o) => requests[o].arg \in DOMAIN links
    BY DEF Opening, AuthInv, RequestsSound, Sound
  <2>10. LinksSpentOnce'
    BY <2>2, <2>4, <2>8, <2>9 DEF AuthInv, LinksSpentOnce
  <2>11. QED BY <2>5, <2>6, <2>7, <2>10 DEF AuthInv
<1>6. QED BY <1>3, <1>4, <1>5 DEF LookupEmail

LEMMA ConsumeLinkKeeps ==
  ASSUME AuthInv, NEW r \in Requests, ConsumeLink(r)
  PROVE  AuthInv'
<1> DEFINE l == requests[r].arg
<1>1. /\ accounts \in [Users -> Accounts] /\ identities \in [Subs -> Users \cup {NoUser}] /\ links \in Seq(Links)
      /\ requests \in [Requests -> Records] /\ requests[r] \in Records /\ Sound(requests[r])
  BY DEF AuthInv, AuthTyped, RequestsSound
<1>2. requests[r].op = "link" /\ requests[r].user \in Users \cap funded /\ l \in DOMAIN links
  BY <1>1 DEF ConsumeLink, At, Sound
<1>3. CASE End(r) /\ UNCHANGED links
  BY <1>1, <1>3, Ends DEF ConsumeLink
<1>4. CASE links[l].state = "ACTIVE" /\ links' = [links EXCEPT ![l].state = "CONSUMED"] /\ GoOn(r, "session")
  <2>1. links[l] \in Links /\ links' = [links EXCEPT ![l] = [links[l] EXCEPT !.state = "CONSUMED"]]
    BY <1>1, <1>2, <1>4
  <2>2. /\ links' \in Seq(Links) /\ DOMAIN links' = DOMAIN links /\ links'[l].state = "CONSUMED"
        /\ \A k \in DOMAIN links : links[k].state = "CONSUMED" => links'[k] = links[k]
    BY <1>1, <1>2, <1>4, <2>1 DEF Links
  <2>3. UNCHANGED <<accounts, identities, tokens, funded>>
    BY DEF ConsumeLink
  <2>4. PICK later : later = [requests[r] EXCEPT !.at = "session"]
    OBVIOUS
  <2>5. /\ later \in Records /\ requests' = [requests EXCEPT ![r] = later]
        /\ later.at = "session" /\ later.op = "link" /\ later.user = requests[r].user /\ later.arg = l
    BY <1>1, <1>2, <1>4, <2>4 DEF GoOn, Records, Steps
  <2>6. requests' \in [Requests -> Records] /\ RequestsSound'
    <3>1. Sound(later)' BY <1>2, <2>2, <2>3, <2>5 DEF Sound, FailClosed
    <3>2. QED BY <1>1, <2>2, <2>3, <2>5, <3>1, RequestGoesOn DEF AuthInv
  <2>7. AuthTyped'
    BY <2>2, <2>3, <2>6 DEF AuthInv, AuthTyped
  <2>8. TokensTraced' /\ SessionsSound'
    BY <2>2, <2>3 DEF AuthInv, TokensTraced, SessionsSound, UsedOnce, WalletBeforeSession
  <2>9. LinksSpentOnce'
    <3>1. \A o \in Requests : Opening(o) => requests[o].arg \in DOMAIN links /\ requests[o].arg # l
      BY <1>4 DEF Opening, AuthInv, RequestsSound, Sound, LinksSpentOnce
    <3>2. \A t \in DOMAIN tokens : tokens[t].via # <<"link", l>>
      BY <1>4 DEF AuthInv, TokensTraced
    <3>3. requests'[r] = later /\ \A o \in Requests : o # r => requests'[o] = requests[o]
      BY <1>1, <2>5
    <3>4. \A o \in Requests : o # r /\ Opening(o)' => Opening(o)
      BY <3>3 DEF Opening
    <3>5. QED BY <2>2, <2>3, <2>5, <3>1, <3>2, <3>3, <3>4 DEF AuthInv, LinksSpentOnce
  <2>10. QED BY <2>6, <2>7, <2>8, <2>9 DEF AuthInv
<1>5. QED BY <1>3, <1>4 DEF ConsumeLink, Consumes

\* A session is opened for whom its handler has vouched.
LEMMA IssueTokenPairKeeps ==
  ASSUME AuthInv, NEW r \in Requests, IssueTokenPair(r)
  PROVE  AuthInv'
<1> DEFINE q == requests[r]
           token == NewToken(q.user, 0, <<q.op, q.arg>>)
           new == Len(tokens) + 1
<1>1. /\ accounts \in [Users -> Accounts] /\ tokens \in Seq(Tokens)
      /\ requests \in [Requests -> Records] /\ q \in Records /\ Sound(q)
  BY DEF AuthInv, AuthTyped, RequestsSound
<1>2. q.at = "session" /\ q.user \in Users /\ (q.op \in FailClosed => q.user \in funded)
  BY <1>1 DEF IssueTokenPair, At, Sound
<1>3. /\ token \in Tokens /\ token.user = q.user /\ token.from = 0
      /\ token.via[1] = q.op /\ token.via[2] = q.arg /\ token.via = <<q.op, q.arg>>
  BY <1>1, <1>2 DEF NewToken, Tokens, Records
<1>4. tokens' = Append(tokens, token)
  BY DEF IssueTokenPair
<1> HIDE DEF token
<1>5. /\ tokens' \in Seq(Tokens) /\ DOMAIN tokens' = DOMAIN tokens \cup {new} /\ new \notin DOMAIN tokens
      /\ tokens'[new] = token /\ \A t \in DOMAIN tokens : tokens'[t] = tokens[t]
  BY <1>1, <1>3, <1>4, AppendedTo
<1> HIDE DEF new
<1>6. UNCHANGED <<identities, links, funded>>
  BY DEF IssueTokenPair
<1>7. accounts' \in [Users -> Accounts]
  BY <1>1, <1>2 DEF IssueTokenPair, Accounts
<1>8. requests' = [requests EXCEPT ![r] = Idle] /\ Idle \in Records
  BY Goes DEF AuthInv, IssueTokenPair
<1>9. requests' \in [Requests -> Records] /\ RequestsSound'
  <2>1. Sound(Idle)' BY DEF Sound, Idle
  <2>2. QED BY <1>1, <1>5, <1>6, <1>8, <2>1, RequestGoesOn DEF AuthInv
<1>10. AuthTyped'
  BY <1>5, <1>6, <1>7, <1>9 DEF AuthInv, AuthTyped
<1>11. q.op = "link" => links[q.arg].state = "CONSUMED" /\ q.arg \in DOMAIN links
                        /\ \A t \in DOMAIN tokens : tokens[t].via # <<"link", q.arg>>
  BY <1>1, <1>2 DEF AuthInv, LinksSpentOnce, Opening, Sound
<1>12. TokensTraced'
  <2> SUFFICES ASSUME NEW t \in DOMAIN tokens' PROVE
        /\ tokens'[t].from # 0 => tokens'[t].from \in DOMAIN tokens' /\ tokens'[tokens'[t].from].status = "ROTATED"
        /\ tokens'[t].via[1] = "link" => tokens'[t].via[2] \in DOMAIN links' /\ links'[tokens'[t].via[2]].state = "CONSUMED"
    BY DEF TokensTraced
  <2>1. CASE t = new BY <1>3, <1>5, <1>6, <1>11, <2>1
  <2>2. CASE t \in DOMAIN tokens BY <1>5, <1>6, <2>2 DEF AuthInv, TokensTraced
  <2>3. QED BY <1>5, <2>1, <2>2
<1>13. LinksSpentOnce'
  <2> SUFFICES ASSUME NEW o \in Requests, Opening(o)' PROVE
        /\ links'[requests'[o].arg].state = "CONSUMED"
        /\ \A t \in DOMAIN tokens' : tokens'[t].via # <<"link", requests'[o].arg>>
        /\ \A p \in Requests : p # o /\ Opening(p)' => requests'[p].arg # requests'[o].arg
    BY DEF LinksSpentOnce
  <2>1. \A p \in Requests : Opening(p)' => p # r /\ Opening(p) /\ requests'[p] = requests[p]
    BY <1>1, <1>8 DEF Opening, Idle
  <2>2. token.via # <<"link", requests[o].arg>>
    BY <1>2, <1>3, <2>1 DEF Opening, AuthInv, LinksSpentOnce
  <2>3. QED BY <1>5, <1>6, <2>1, <2>2 DEF AuthInv, LinksSpentOnce
<1>14. UsedOnce'
  <2> SUFFICES ASSUME NEW t1 \in DOMAIN tokens', NEW t2 \in DOMAIN tokens', t1 # t2 PROVE
        /\ tokens'[t1].from # 0 => tokens'[t1].from # tokens'[t2].from
        /\ tokens'[t1].via[1] = "link" => tokens'[t1].via # tokens'[t2].via
    BY DEF UsedOnce
  <2>1. CASE t1 \in DOMAIN tokens /\ t2 \in DOMAIN tokens
    BY <1>5, <2>1 DEF AuthInv, SessionsSound, UsedOnce
  <2>2. CASE t1 = new /\ t2 \in DOMAIN tokens
    BY <1>3, <1>5, <1>11, <2>2
  <2>3. CASE t1 \in DOMAIN tokens /\ t2 = new
    BY <1>3, <1>5, <1>11, <2>3
  <2>4. QED BY <1>5, <2>1, <2>2, <2>3
<1>15. WalletBeforeSession'
  BY <1>2, <1>3, <1>5, <1>6 DEF AuthInv, SessionsSound, WalletBeforeSession, FailClosed
<1>16. QED BY <1>9, <1>10, <1>12, <1>13, <1>14, <1>15 DEF AuthInv, SessionsSound

\* Of two requests that bring a token, the second finds it rotated.
LEMMA RotateKeeps ==
  ASSUME AuthInv, NEW r \in Requests, Rotate(r)
  PROVE  AuthInv'
<1> DEFINE a == requests[r].arg
           old == [tokens EXCEPT ![a].status = "ROTATED"]
           token == NewToken(requests[r].user, a, <<"refresh", 0>>)
           new == Len(old) + 1
<1>1. /\ accounts \in [Users -> Accounts] /\ identities \in [Subs -> Users \cup {NoUser}] /\ tokens \in Seq(Tokens)
      /\ requests \in [Requests -> Records] /\ requests[r] \in Records /\ Sound(requests[r])
  BY DEF AuthInv, AuthTyped, RequestsSound
<1>2. requests[r].user \in Users /\ a \in DOMAIN tokens /\ a \in Nat /\ a # 0
  BY <1>1 DEF Rotate, At, Sound
<1>3. CASE ~Rotates(a)
  BY <1>1, <1>3, Ends DEF Rotate
<1>4. CASE Rotates(a)
  <2>1. tokens[a] \in Tokens /\ tokens[a].status = "ACTIVE"
    BY <1>1, <1>2, <1>4 DEF Rotates
  <2>2. /\ old \in Seq(Tokens) /\ DOMAIN old = DOMAIN tokens
        /\ old[a] = [tokens[a] EXCEPT !.status = "ROTATED"]
        /\ \A t \in DOMAIN tokens : t # a => old[t] = tokens[t]
    <3>1. [tokens[a] EXCEPT !.status = "ROTATED"] \in Tokens BY <2>1 DEF Tokens
    <3>2. old = [tokens EXCEPT ![a] = [tokens[a] EXCEPT !.status = "ROTATED"]] BY <1>1, <1>2
    <3>3. QED BY <1>1, <1>2, <3>1, <3>2
  <2>3. \A t \in DOMAIN tokens :
          /\ old[t].user = tokens[t].user /\ old[t].from = tokens[t].from /\ old[t].via = tokens[t].via
          /\ tokens[t].status = "ROTATED" => old[t].status = "ROTATED"
    BY <1>1, <2>1, <2>2 DEF Tokens
  <2>4. old[a].status = "ROTATED"
    BY <2>1, <2>2 DEF Tokens
  <2>5. tokens' = Append(old, token)
    BY <1>4 DEF Rotate
  <2>6. /\ token \in Tokens /\ token.user = requests[r].user /\ token.from = a
        /\ token.via = <<"refresh", 0>> /\ token.via[1] = "refresh"
    BY <1>1, <1>2 DEF NewToken, Tokens, Ops
  <2> HIDE DEF token, old
  <2>7. /\ tokens' \in Seq(Tokens) /\ DOMAIN tokens' = DOMAIN tokens \cup {new} /\ new \notin DOMAIN tokens
        /\ tokens'[new] = token /\ \A t \in DOMAIN tokens : tokens'[t] = old[t]
    BY <2>2, <2>5, <2>6, AppendedTo
  <2> HIDE DEF new
  <2>8. /\ UNCHANGED <<accounts, identities, links, funded>>
        /\ requests' = [requests EXCEPT ![r] = Idle] /\ Idle \in Records
    BY Goes DEF AuthInv, Rotate
  <2>9. requests' \in [Requests -> Records] /\ RequestsSound'
    <3>1. Sound(Idle)' BY DEF Sound, Idle
    <3>2. QED BY <1>1, <2>7, <2>8, <3>1, RequestGoesOn DEF AuthInv
  <2>10. AuthTyped'
    BY <2>7, <2>8, <2>9 DEF AuthInv, AuthTyped
  <2>11. \A t \in DOMAIN tokens : tokens[t].from # a
    <3>1. tokens[a].status # "ROTATED" BY <2>1
    <3>2. QED BY <1>2, <3>1 DEF AuthInv, TokensTraced
  <2>12. TokensTraced'
    <3> SUFFICES ASSUME NEW t \in DOMAIN tokens' PROVE
          /\ tokens'[t].from # 0 => tokens'[t].from \in DOMAIN tokens' /\ tokens'[tokens'[t].from].status = "ROTATED"
          /\ tokens'[t].via[1] = "link" => tokens'[t].via[2] \in DOMAIN links' /\ links'[tokens'[t].via[2]].state = "CONSUMED"
      BY DEF TokensTraced
    <3>1. CASE t = new BY <1>2, <2>4, <2>6, <2>7, <3>1
    <3>2. CASE t \in DOMAIN tokens BY <2>3, <2>7, <2>8, <3>2 DEF AuthInv, TokensTraced
    <3>3. QED BY <2>7, <3>1, <3>2
  <2>13. LinksSpentOnce'
    <3>1. \A p \in Requests : Opening(p)' => p # r /\ Opening(p) /\ requests'[p] = requests[p]
      BY <1>1, <2>8 DEF Opening, Idle
    <3>2. \A p \in Requests : token.via # <<"link", requests[p].arg>>
      BY <2>6
    <3>3. \A t \in DOMAIN tokens' : t = new \/ (t \in DOMAIN tokens /\ tokens'[t].via = tokens[t].via)
      BY <2>3, <2>7
    <3>4. QED BY <2>7, <2>8, <3>1, <3>2, <3>3 DEF AuthInv, LinksSpentOnce
  <2>14. UsedOnce'
    <3> SUFFICES ASSUME NEW t1 \in DOMAIN tokens', NEW t2 \in DOMAIN tokens', t1 # t2 PROVE
          /\ tokens'[t1].from # 0 => tokens'[t1].from # tokens'[t2].from
          /\ tokens'[t1].via[1] = "link" => tokens'[t1].via # tokens'[t2].via
      BY DEF UsedOnce
    <3>1. CASE t1 \in DOMAIN tokens /\ t2 \in DOMAIN tokens
      BY <2>3, <2>7, <3>1 DEF AuthInv, SessionsSound, UsedOnce
    <3>2. CASE t1 = new /\ t2 \in DOMAIN tokens
      BY <2>3, <2>6, <2>7, <2>11, <3>2
    <3>3. CASE t1 \in DOMAIN tokens /\ t2 = new
      BY <2>3, <2>6, <2>7, <2>11, <3>3
    <3>4. QED BY <2>7, <3>1, <3>2, <3>3
  <2>15. WalletBeforeSession'
    <3> SUFFICES ASSUME NEW t \in DOMAIN tokens', tokens'[t].via[1] \in {"verify", "google", "signup", "link"}
                 PROVE  tokens'[t].user \in funded'
      BY DEF WalletBeforeSession
    <3>1. t \in DOMAIN tokens
      BY <2>6, <2>7
    <3>2. QED BY <2>3, <2>7, <2>8, <3>1 DEF AuthInv, SessionsSound, WalletBeforeSession
  <2>16. QED BY <2>9, <2>10, <2>12, <2>13, <2>14, <2>15 DEF AuthInv, SessionsSound
<1>5. QED BY <1>3, <1>4
-----------------------------------------------------------------------------
LEMMA AuthInitially == AuthInit => AuthInv
<1> SUFFICES ASSUME AuthInit PROVE AuthInv
  OBVIOUS
<1>1. accounts \in [Users -> Accounts]
  BY DEF AuthInit, Accounts, NoAccount, Statuses
<1>2. requests \in [Requests -> Records] /\ \A r \in Requests : requests[r] = Idle
  BY DEF AuthInit, Idle, Records, Ops, Steps
<1>3. AuthTyped
  BY <1>1, <1>2 DEF AuthInit, AuthTyped
<1>4. RequestsSound /\ LinksSpentOnce
  BY <1>2 DEF RequestsSound, Sound, Idle, LinksSpentOnce, Opening
<1>5. TokensTraced /\ SessionsSound
  BY DEF AuthInit, TokensTraced, SessionsSound, UsedOnce, WalletBeforeSession
<1>6. QED BY <1>3, <1>4, <1>5 DEF AuthInv

LEMMA AuthKeeps == AuthInv /\ [AuthNext]_authVars => AuthInv'
<1> SUFFICES ASSUME AuthInv, [AuthNext]_authVars PROVE AuthInv'
  OBVIOUS
<1>1. ASSUME NEW r \in Requests, NEW u \in Users, ByUser(r, u) \/ ByAdmin(r, u) \/ ByGoogle(r, u) PROVE AuthInv'
  BY <1>1, ByUserBegins, ByAdminBegins, ByGoogleBegins
<1>2. ASSUME NEW u \in Users, ByUserAtOnce(u) PROVE AuthInv'
  BY <1>2, WithoutRequest, LogoutKeeps DEF ByUserAtOnce
<1>3. ASSUME NEW r \in Requests, Statement(r) \/ Abandon(r) PROVE AuthInv'
  BY <1>3, StatementsOnAccounts, StatementsOnWallets, IssueTokenPairKeeps, RotateKeeps, RevokeAllKeeps,
     LookupEmailKeeps, ConsumeLinkKeeps DEF Statement
<1>4. ASSUME NEW w \in Reconcilers, Reconciles(w) PROVE AuthInv'
  BY <1>4, ByReconciler, WithoutRequest DEF Reconciles
<1>5. ASSUME TimePasses PROVE AuthInv'
  BY <1>5, WithoutRequest, LinkExpiresKeeps DEF TimePasses
<1>6. CASE UNCHANGED authVars
  <2>1. UNCHANGED <<accounts, identities, tokens, links, funded, requests>>
    BY <1>6 DEF authVars
  <2>2. QED BY <2>1, AccountsOnly DEF AuthInv, AuthTyped
<1>7. QED BY <1>1, <1>2, <1>3, <1>4, <1>5, <1>6 DEF AuthNext

\* A refresh token and a link token bring one session each, and sign-up, verification,
\* Google sign-in and linking none before the wallets.
THEOREM SessionsAreSound == AuthSpec => []SessionsSound
<1>1. AuthInv => SessionsSound
  BY DEF AuthInv
<1>2. QED BY <1>1, AuthInitially, AuthKeeps, PTL DEF AuthSpec

-----------------------------------------------------------------------------
(***************************************************************************)
(* Suspension.                                                             *)
(***************************************************************************)
Lifted(u) == accounts[u].status = "SUSPENDED" /\ accounts'[u].status # "SUSPENDED"
LiftedByAdmin == \A u \in Users : Lifted(u) => UnsuspendUser(u)

LEMMA SuspensionKept == AuthTyped /\ [AuthNext]_authVars => [LiftedByAdmin]_authVars
<1> SUFFICES ASSUME AuthTyped, AuthNext, NEW u \in Users, Lifted(u) PROVE UnsuspendUser(u)
  BY DEF LiftedByAdmin
<1>1. accounts \in [Users -> Accounts] /\ requests \in [Requests -> Records] /\ accounts' # accounts
  BY DEF AuthTyped, Lifted
<1>2. ASSUME NEW r \in Requests, NEW x \in Users, ByUser(r, x) \/ ByGoogle(r, x) PROVE FALSE
  BY <1>1, <1>2 DEF ByUser, ByGoogle, Login, LogoutAll, ChangePassword, RightCode, RefreshToken,
                    ConnectGoogleAccount, GoogleLogin, LinkGoogleAccount
<1>3. ASSUME NEW r \in Requests, NEW x \in Users, ByAdmin(r, x) PROVE UnsuspendUser(u)
  <2>1. CASE InvalidateUserSessions(r, x)
    BY <1>1, <2>1 DEF InvalidateUserSessions, LogoutAll
  <2>2. CASE SuspendUser(r, x)
    BY <1>1, <2>2 DEF SuspendUser, Lifted, Accounts
  <2>3. CASE UnsuspendUser(x)
    <3>1. x = u BY <1>1, <2>3 DEF UnsuspendUser, Lifted
    <3>2. QED BY <2>3, <3>1
  <2>4. QED BY <1>3, <2>1, <2>2, <2>3 DEF ByAdmin
<1>4. ASSUME NEW x \in Users, ByUserAtOnce(x) PROVE FALSE
  <2>1. CASE Register(x)
    BY <1>1, <2>1 DEF Register, Exists, Lifted
  <2>2. CASE ~Register(x)
    BY <1>1, <1>4, <2>2 DEF ByUserAtOnce, ResendVerificationCode, ForgotPassword, WrongCode, Logout
  <2>3. QED BY <2>1, <2>2
<1>5. ASSUME NEW r \in Requests, Statement(r) \/ Abandon(r) PROVE FALSE
  <2>1. CASE VerifyEmail(r)
    BY <1>1, <2>1 DEF VerifyEmail, MayVerify, Lifted, Accounts
  <2>2. CASE IssueTokenPair(r)
    BY <1>1, <2>2 DEF IssueTokenPair, Lifted, Accounts
  <2>3. CASE TrackFailedLogin(r)
    BY <1>1, <2>3 DEF TrackFailedLogin, Lifted, Accounts
  <2>4. CASE UpdatePassword(r)
    BY <1>1, <2>4 DEF UpdatePassword, Lifted, Accounts
  <2>5. CASE CreateUserWithIdentity(r)
    BY <1>1, <2>5 DEF CreateUserWithIdentity, Exists, Lifted
  <2>6. CASE \/ ConsumeCode(r) \/ InitializeWallet(r) \/ Rotate(r) \/ RevokeAll(r) \/ ExistingUserSession(r)
             \/ LookupEmail(r) \/ MarkProcessed(r) \/ LockLink(r) \/ BindIdentity(r) \/ ConsumeLink(r) \/ Abandon(r)
    BY <1>1, <2>6 DEF ConsumeCode, InitializeWallet, Rotate, RevokeAll, ExistingUserSession, LookupEmail,
                      MarkProcessed, LockLink, BindIdentity, ConsumeLink, Abandon
  <2>7. QED BY <1>5, <2>1, <2>2, <2>3, <2>4, <2>5, <2>6 DEF Statement
<1>6. ASSUME NEW w \in Reconcilers, Reconciles(w) PROVE FALSE
  BY <1>1, <1>6 DEF Reconciles, Reconcile, ReconcilerStops, Claim
<1>7. ASSUME TimePasses PROVE FALSE
  <2>1. ASSUME NEW x \in Users, LockPasses(x) PROVE FALSE
    BY <1>1, <2>1 DEF LockPasses, Lifted, Accounts
  <2>2. QED BY <1>1, <1>7, <2>1 DEF TimePasses, EventDue, LinkExpires
<1>8. QED BY <1>2, <1>3, <1>4, <1>5, <1>6, <1>7 DEF AuthNext

\* However a verification, a sign-in or a change of password that was under way ends,
\* a suspension is ended by UnsuspendUser alone.
THEOREM SuspensionIsHeld == AuthSpec => SuspensionHolds
<1>1. AuthInv => AuthTyped
  BY DEF AuthInv
<1>2. AuthSpec => [][LiftedByAdmin]_authVars
  BY <1>1, AuthInitially, AuthKeeps, SuspensionKept, PTL DEF AuthSpec
<1>3. QED BY <1>2 DEF SuspensionHolds, LiftedByAdmin, Lifted

-----------------------------------------------------------------------------
(***************************************************************************)
(* Portfolio.                                                              *)
(***************************************************************************)
Rows == 1 .. holding.version

Shape ==
  /\ "version" \in DOMAIN holding
  /\ holding.version \in Nat
  /\ ostatus \in [Versions -> {"NONE", "PENDING", "PROCESSING", "PUBLISHED"}]
  /\ olapsed \subseteq Versions /\ claimed \subseteq Versions
  /\ updates \in Seq(Versions)
  /\ seed \in {"ABSENT", "DEFINED", "APPLIED"}

\* A row of the outbox exists only for a version that the position has had; what
\* is claimed, waits for another claim or is delivered is such a row.
RowsAreVersions ==
  /\ \A v \in Versions : ostatus[v] # "NONE" => v \in Rows
  /\ olapsed \subseteq Rows /\ claimed \subseteq Rows
  /\ Members(updates) \subseteq Rows

FeedShape ==
  /\ status \in [Trades -> {"NONE", "PENDING", "PROCESSING", "PROCESSED"}]
  /\ lapsed \subseteq Trades
  /\ batch \in Seq(Trades) /\ topic \in Seq(Trades)
  /\ written \in BOOLEAN /\ sent \in BOOLEAN

\* Between write and mark, what is about to be retired is delivered.
InFlight ==
  /\ written => batch # <<>> /\ Head(batch) \in Members(topic)
  /\ sent => claimed # {} /\ claimed \subseteq Members(updates)

IInv == Shape /\ RowsAreVersions /\ FeedShape /\ InFlight /\ RetiredIsDelivered

-----------------------------------------------------------------------------
\* The number of trades is a number.
LEMMA ConstantsOK == M \in Nat
<1> QED
  BY FeedAssumption

\* A set of versions has a size.
LEMMA VersionsFinite ==
  ASSUME NEW S, S \subseteq Versions
  PROVE  Cardinality(S) \in Nat
<1>1. M + 1 \in Nat /\ 1 \in Int /\ M + 1 \in Int
  BY ConstantsOK
<1>2. IsFiniteSet(Versions)
  BY <1>1, FS_Interval DEF Versions
<1> QED
  BY <1>2, FS_Subset, FS_CardinalityType

\* Every change of the holding is one version.
LEMMA BookedVersion ==
  ASSUME NEW h, "version" \in DOMAIN h, NEW t
  PROVE  /\ "version" \in DOMAIN Booked(h, t)
         /\ Booked(h, t).version = h.version + 1
<1> QED
  BY DEF Booked, Bought, Sold

\* So is the opening position.
LEMMA OpenedVersion ==
  ASSUME NEW h, "version" \in DOMAIN h
  PROVE  /\ "version" \in DOMAIN Opened(h, Seed)
         /\ Opened(h, Seed).version = h.version + 1
<1> QED
  BY DEF Opened

\* A batch delivers exactly the rows it claimed.
LEMMA DeliveredMembers ==
  ASSUME Shape, NEW u \in Delivered
  PROVE  /\ u \in Seq(Versions)
         /\ Members(u) = Members(updates) \cup claimed
<1>1. PICK rows \in InOrder(claimed) : u = updates \o rows
  BY DEF Delivered
<1>2. Cardinality(claimed) \in Nat
  BY VersionsFinite DEF Shape
<1>3. rows \in Seq(Versions) /\ Members(rows) = claimed
  BY <1>1, <1>2 DEF InOrder, Shape
<1>4. updates \in Seq(Versions)
  BY DEF Shape
<1>5. u \in Seq(Versions)
  BY <1>1, <1>3, <1>4
<1>6. \A i \in DOMAIN u : u[i] \in Members(updates) \cup claimed
  BY <1>1, <1>3, <1>4 DEF Members
<1>7. \A i \in DOMAIN updates : i \in DOMAIN u /\ u[i] = updates[i]
  BY <1>1, <1>3, <1>4
<1>8. \A i \in DOMAIN rows : Len(updates) + i \in DOMAIN u /\ u[Len(updates) + i] = rows[i]
  BY <1>1, <1>3, <1>4
<1>9. Members(updates) \subseteq Members(u)
  BY <1>7 DEF Members
<1>10. claimed \subseteq Members(u)
  BY <1>3, <1>8 DEF Members
<1>11. Members(u) \subseteq Members(updates) \cup claimed
  BY <1>6 DEF Members
<1> QED
  BY <1>5, <1>9, <1>10, <1>11

\* A write adds its one row to the log.
LEMMA AppendMembers ==
  ASSUME NEW S, NEW seq \in Seq(S), NEW e \in S
  PROVE  /\ Append(seq, e) \in Seq(S)
         /\ Members(Append(seq, e)) = Members(seq) \cup {e}
<1> DEFINE app == Append(seq, e)
<1>1. app \in Seq(S) /\ Len(app) = Len(seq) + 1
  OBVIOUS
<1>2. app[Len(seq) + 1] = e /\ \A i \in 1 .. Len(seq) : app[i] = seq[i]
  OBVIOUS
<1>3. DOMAIN app = 1 .. Len(seq) + 1 /\ DOMAIN seq = 1 .. Len(seq) /\ Len(seq) \in Nat
  BY <1>1
<1>4. Members(app) \subseteq Members(seq) \cup {e}
  BY <1>2, <1>3 DEF Members
<1>5. Members(seq) \cup {e} \subseteq Members(app)
  BY <1>2, <1>3 DEF Members
<1> QED
  BY <1>1, <1>4, <1>5

\* FetchPending claims a batch of rows.
LEMMA BatchType ==
  ASSUME NEW S, S \subseteq Trades, NEW rows \in InOrder(S)
  PROVE  rows \in Seq(Trades)
<1>1. IsFiniteSet(Trades)
  BY ConstantsOK, FS_Interval DEF Trades
<1>2. Cardinality(S) \in Nat
  BY <1>1, FS_Subset, FS_CardinalityType
<1> QED
  BY <1>2 DEF InOrder

-----------------------------------------------------------------------------
\* The invariant holds at the start.
LEMMA InitInv == Init => IInv
<1> SUFFICES ASSUME Init PROVE IInv
  OBVIOUS
<1> USE DEF Init, FeedInit, NoHolding
<1>1. Shape
  BY DEF Shape
<1>2. Members(updates) = {} /\ Members(topic) = {}
  BY DEF Members
<1>3. RowsAreVersions
  BY <1>2 DEF RowsAreVersions
<1>4. /\ status \in [Trades -> {"NONE", "PENDING", "PROCESSING", "PROCESSED"}]
      /\ lapsed \subseteq Trades /\ batch \in Seq(Trades) /\ topic \in Seq(Trades)
  OBVIOUS
<1>5. written = FALSE /\ sent = FALSE
  OBVIOUS
<1>6. FeedShape /\ InFlight
  BY <1>4, <1>5, Zenon DEF FeedShape, InFlight
<1>7. RetiredIsDelivered
  BY DEF RetiredIsDelivered
<1> QED
  BY <1>1, <1>3, <1>6, <1>7 DEF IInv

\* The wallet's side.
LEMMA FeedPreserves == IInv /\ Feed => IInv'
<1> SUFFICES ASSUME IInv, Feed PROVE IInv'
  OBVIOUS
<1> USE DEF IInv
<1>1. UNCHANGED <<processed, holding, seed, ostatus, olapsed, claimed, sent, updates>>
  BY DEF Feed, position, publisher
<1>2. Shape' /\ RowsAreVersions'
  BY <1>1 DEF Shape, RowsAreVersions, Rows, Members
<1>3. /\ sent' => claimed' # {} /\ claimed' \subseteq Members(updates)'
      /\ \A v \in Versions : ostatus'[v] = "PUBLISHED" => v \in Members(updates)'
  BY <1>1 DEF InFlight, RetiredIsDelivered, Members
<1>4. SUFFICES /\ FeedShape'
               /\ written' => batch' # <<>> /\ Head(batch') \in Members(topic)'
               /\ \A t \in Trades : status'[t] = "PROCESSED" => t \in Members(topic)'
  BY <1>2, <1>3 DEF InFlight, RetiredIsDelivered
<1>5. sent' \in BOOLEAN
  BY <1>1 DEF FeedShape
<1> DEFINE Settled == \A t \in Trades : status[t] = "PROCESSED" => t \in Members(topic)
<1>6. Settled
  BY DEF RetiredIsDelivered
<1>7. ASSUME NEW t \in Trades, SettleTrade(t) \/ ClaimLapses(t) PROVE <1>4!1
  <2>1. UNCHANGED <<batch, written, topic>>
    BY <1>7 DEF SettleTrade, ClaimLapses
  <2>2. FeedShape'
    BY <1>5, <1>7, <2>1 DEF FeedShape, SettleTrade, ClaimLapses
  <2>3. \A u \in Trades : status'[u] = "PROCESSED" => status[u] = "PROCESSED"
    BY <1>7 DEF SettleTrade, ClaimLapses, FeedShape
  <2> QED
    BY <1>6, <2>1, <2>2, <2>3 DEF InFlight, Members
<1>8. CASE FetchPending
  <2>1. batch' \in Seq(Trades)
    <3>1. Oldest(Claimable, BatchSize) \subseteq Trades
      BY DEF Oldest, Claimable
    <3> QED
      BY <1>8, <3>1, BatchType DEF FetchPending
  <2>2. written = FALSE
    BY <1>8 DEF FetchPending, InFlight, FeedShape
  <2>3. UNCHANGED <<written, topic>>
    BY <1>8 DEF FetchPending
  <2>4. FeedShape'
    BY <1>5, <1>8, <2>1, <2>3 DEF FeedShape, FetchPending
  <2>5. \A u \in Trades : status'[u] = "PROCESSED" => status[u] = "PROCESSED"
    BY <1>8 DEF FetchPending
  <2> QED
    BY <1>6, <2>2, <2>3, <2>4, <2>5 DEF Members
<1>9. ASSUME batch # <<>>, topic' = Append(topic, Head(batch))
      PROVE  /\ topic' \in Seq(Trades)
             /\ Members(topic)' = Members(topic) \cup {Head(batch)}
  <2>1. Head(batch) \in Trades
    BY <1>9 DEF FeedShape
  <2>2. topic \in Seq(Trades)
    BY DEF FeedShape
  <2>3. /\ Append(topic, Head(batch)) \in Seq(Trades)
        /\ Members(Append(topic, Head(batch))) = Members(topic) \cup {Head(batch)}
    BY <2>1, <2>2, AppendMembers
  <2> QED
    BY <1>9, <2>3 DEF Members
<1>10. CASE Write
  <2>1. FeedShape'
    <3>1. UNCHANGED <<status, lapsed, batch>> /\ topic' \in Seq(Trades)
      BY <1>9, <1>10 DEF Write
    <3>2. written' \in BOOLEAN
      BY <1>10, Zenon DEF Write
    <3> QED
      BY <1>5, <3>1, <3>2 DEF FeedShape
  <2> QED
    BY <1>6, <1>9, <1>10, <2>1 DEF Write
<1>11. CASE MarkPublished \/ MarkPublishedFails
  <2>1. written /\ batch # <<>> /\ Head(batch) \in Members(topic)
    BY <1>11 DEF MarkPublished, MarkPublishedFails, InFlight
  <2>2. batch' = Tail(batch) /\ written' = FALSE /\ UNCHANGED <<topic, lapsed>>
    BY <1>11, Zenon DEF MarkPublished, MarkPublishedFails, Advance
  <2>3. status' = status \/ status' = [status EXCEPT ![Head(batch)] = "PROCESSED"]
    BY <1>11 DEF MarkPublished, MarkPublishedFails
  <2>4. FeedShape'
    <3>1. /\ batch' \in Seq(Trades) /\ topic' \in Seq(Trades) /\ lapsed' \subseteq Trades
          /\ status' \in [Trades -> {"NONE", "PENDING", "PROCESSING", "PROCESSED"}]
      BY <2>1, <2>2, <2>3 DEF FeedShape
    <3>2. written' \in BOOLEAN
      BY <2>2, Zenon
    <3> QED
      BY <1>5, <3>1, <3>2 DEF FeedShape
  <2>5. \A u \in Trades : status'[u] = "PROCESSED" => status[u] = "PROCESSED" \/ u = Head(batch)
    BY <2>3 DEF FeedShape
  <2> QED
    BY <1>6, <2>1, <2>2, <2>4, <2>5 DEF Members
<1>12. CASE WriteFails \/ GiveUp
  <2>1. batch # <<>> /\ ~written /\ MaybeArrives
    BY <1>12 DEF WriteFails, GiveUp
  <2>2. topic' \in Seq(Trades) /\ Members(topic) \subseteq Members(topic)'
    BY <1>9, <2>1 DEF MaybeArrives, FeedShape, Members
  <2>3. /\ batch' \in {batch, <<>>} /\ ~written' /\ UNCHANGED lapsed
        /\ status' \in {ReleaseClaims, status}
    BY <1>12, <2>1 DEF WriteFails, GiveUp, Stop
  <2>4. FeedShape'
    <3>1. ReleaseClaims \in [Trades -> {"NONE", "PENDING", "PROCESSING", "PROCESSED"}]
      BY DEF FeedShape, ReleaseClaims
    <3>2. status' \in [Trades -> {"NONE", "PENDING", "PROCESSING", "PROCESSED"}]
      <4>1. status \in [Trades -> {"NONE", "PENDING", "PROCESSING", "PROCESSED"}]
        BY DEF FeedShape
      <4> QED
        BY <2>3, <3>1, <4>1, Zenon
    <3>3. lapsed' \subseteq Trades
      BY <2>3 DEF FeedShape
    <3>4. batch' \in Seq(Trades)
      <4>1. batch \in Seq(Trades) /\ <<>> \in Seq(Trades)
        BY DEF FeedShape
      <4> QED
        BY <2>3, <4>1, Zenon
    <3>5. written' = written \/ written' = FALSE
      BY <1>12, Zenon DEF WriteFails, GiveUp, Stop
    <3>6. written \in BOOLEAN
      BY DEF FeedShape
    <3>7. written' \in BOOLEAN
      BY <3>5, <3>6, Zenon
    <3> QED
      BY <1>5, <2>2, <3>2, <3>3, <3>4, <3>7 DEF FeedShape
  <2>5. \A u \in Trades : status'[u] = "PROCESSED" => status[u] = "PROCESSED"
    BY <2>3 DEF ReleaseClaims
  <2> QED
    BY <1>6, <2>2, <2>3, <2>4, <2>5
<1>13. CASE WalletCrash
  <2>1. /\ batch' \in Seq(Trades) /\ written' = FALSE
        /\ UNCHANGED <<status, lapsed, topic>>
    BY <1>13 DEF WalletCrash, Stop
  <2>2. FeedShape'
    BY <1>5, <2>1 DEF FeedShape
  <2> QED
    BY <1>6, <2>1, <2>2 DEF Members
<1> QED
  BY <1>7, <1>8, <1>10, <1>11, <1>12, <1>13 DEF Feed, FeedNext, Publisher

\* The portfolio's side, by what a step changes.
FeedSame == UNCHANGED <<status, lapsed, batch, written, topic>>
OutboxSame == UNCHANGED <<ostatus, olapsed, claimed, sent, updates>>

\* A step that leaves the feed alone keeps what the invariant says of it.
LEMMA SameFeed == FeedSame =>
  /\ Members(topic)' = Members(topic)
  /\ FeedShape /\ sent' \in BOOLEAN => FeedShape'
<1> QED
  BY DEF FeedSame, FeedShape, Members

\* Steps that leave holding and outbox alone.
LEMMA IdleStep ==
  ASSUME IInv, FeedSame, OutboxSame, UNCHANGED <<holding>>,
         seed' \in {"ABSENT", "DEFINED", "APPLIED"}
  PROVE  IInv'
<1>1. Shape' /\ RowsAreVersions'
  BY DEF IInv, OutboxSame, Shape, RowsAreVersions, Rows, Members
<1>2. FeedShape' /\ InFlight' /\ RetiredIsDelivered'
  BY DEF IInv, OutboxSame, FeedSame, FeedShape, InFlight, RetiredIsDelivered, Members
<1> QED
  BY <1>1, <1>2 DEF IInv

\* The transaction of ProcessUserTrade.
LEMMA BookStep ==
  ASSUME IInv, FeedSame, UNCHANGED <<olapsed, claimed, sent, updates>>,
         NEW t, Book(t)
  PROVE  IInv'
<1> USE DEF IInv
<1>1. /\ "version" \in DOMAIN holding' /\ holding'.version = holding.version + 1
      /\ UNCHANGED seed
      /\ ostatus' = [ostatus EXCEPT ![holding'.version] = "PENDING"]
  BY BookedVersion DEF Book, Shape
<1>2. Shape'
  <2>1. ostatus' \in [Versions -> {"NONE", "PENDING", "PROCESSING", "PUBLISHED"}]
    BY <1>1 DEF Shape
  <2>2. holding'.version \in Nat
    BY <1>1 DEF Shape
  <2> QED
    BY <1>1, <2>1, <2>2 DEF Shape
<1>3. Rows \subseteq Rows' /\ holding'.version \in Rows'
  BY <1>1 DEF Rows, Shape
<1>4. RowsAreVersions'
  BY <1>1, <1>3 DEF RowsAreVersions, Shape, Members
<1>5. FeedShape'
  BY SameFeed DEF FeedShape
<1>6. InFlight'
  BY DEF InFlight, FeedSame, Members
<1>7. RetiredIsDelivered'
  BY <1>1 DEF RetiredIsDelivered, Shape, FeedSame, Members
<1> QED
  BY <1>2, <1>4, <1>5, <1>6, <1>7

\* The publisher lets go of its claims, delivered or not.
LEMMA RetireNothing ==
  ASSUME IInv, FeedSame, UNCHANGED <<holding, seed, ostatus, olapsed>>,
         claimed' = {}, sent' = FALSE, updates' = updates \/ updates' \in Delivered
  PROVE  IInv'
<1> USE DEF IInv
<1>1. /\ updates' \in Seq(Versions)
      /\ Members(updates) \subseteq Members(updates)'
      /\ Members(updates)' \subseteq Members(updates) \cup claimed
  BY DeliveredMembers DEF Shape, Members
<1>2. Shape' /\ RowsAreVersions'
  BY <1>1 DEF Shape, RowsAreVersions, Rows
<1>3. sent' \in BOOLEAN
  BY Zenon
<1>4. FeedShape'
  BY <1>3, SameFeed
<1>5. InFlight'
  BY DEF InFlight, FeedSame, Members
<1>6. RetiredIsDelivered'
  BY <1>1, SameFeed DEF RetiredIsDelivered, FeedSame
<1> QED
  BY <1>2, <1>4, <1>5, <1>6

\* Every action of feed, process, consumer and publisher keeps the invariant.
LEMMA StepInv == IInv /\ [Next]_vars => IInv'
<1> SUFFICES ASSUME IInv, [Next]_vars PROVE IInv'
  OBVIOUS
<1> USE DEF feedVars, position, consumer, publisher
<1>1. seed \in {"ABSENT", "DEFINED", "APPLIED"}
  BY DEF IInv, Shape
<1>2. CASE Migrate \/ FetchMessage \/ SkipDuplicate \/ RefuseTrade \/ SendToDLQ
           \/ SendToDLQFails \/ CommitMessage \/ CommitMessageFails \/ UNCHANGED vars
  <2>1. /\ FeedSame /\ OutboxSame /\ UNCHANGED holding
        /\ seed' \in {seed, "DEFINED"}
    BY <1>2 DEF FeedSame, OutboxSame, Migrate, FetchMessage, SkipDuplicate, RefuseTrade,
       SendToDLQ, SendToDLQFails, CommitMessage, CommitMessageFails, vars
  <2> QED
    BY <1>1, <2>1, IdleStep
<1>3. CASE Start
  <2>1. FeedSame /\ OutboxSame
    BY <1>3 DEF Start, FeedSame, OutboxSame
  <2>2. CASE seed # "DEFINED"
    BY <1>1, <1>3, <2>1, <2>2, IdleStep DEF Start, InitializePosition
  <2>3. CASE seed = "DEFINED"
    <3>1. /\ "version" \in DOMAIN holding' /\ holding'.version = holding.version + 1
          /\ seed' = "APPLIED"
      BY <1>3, <2>3, OpenedVersion DEF Start, InitializePosition, IInv, Shape
    <3>2. Shape' /\ Rows \subseteq Rows'
      BY <2>1, <3>1 DEF IInv, OutboxSame, Shape, Rows
    <3>3. RowsAreVersions'
      BY <2>1, <3>2 DEF IInv, RowsAreVersions, OutboxSame, Members
    <3>4. FeedShape'
      BY <2>1, SameFeed DEF IInv, FeedShape, OutboxSame
    <3>5. InFlight' /\ RetiredIsDelivered'
      BY <2>1 DEF IInv, InFlight, RetiredIsDelivered, FeedSame, OutboxSame, Members
    <3> QED
      BY <3>2, <3>3, <3>4, <3>5 DEF IInv
  <2> QED
    BY <2>2, <2>3
<1>4. CASE ProcessUserTrade
  <2>1. FeedSame /\ UNCHANGED <<olapsed, claimed, sent, updates>> /\ Book(cur)
    BY <1>4 DEF ProcessUserTrade, FeedSame
  <2> QED
    BY <2>1, BookStep
<1>5. CASE ProcessFails
  <2>1. FeedSame /\ UNCHANGED <<olapsed, claimed, sent, updates>>
    BY <1>5 DEF ProcessFails, FeedSame
  <2>2. CASE Book(cur)
    BY <2>1, <2>2, BookStep
  <2>3. CASE UNCHANGED position
    BY <1>1, <2>1, <2>3, IdleStep DEF OutboxSame
  <2> QED
    BY <1>5, <2>2, <2>3 DEF ProcessFails
<1>6. CASE Crash \/ FetchPendingOutbox \/ WriteOutbox \/ MarkOutboxPublished \/ PublishFails
           \/ \E v \in Versions : OClaimLapses(v)
  <2>1. FeedSame /\ UNCHANGED <<holding, seed>>
    BY <1>6 DEF FeedSame, Crash, FetchPendingOutbox, WriteOutbox, MarkOutboxPublished,
       PublishFails, OClaimLapses
  <2>2. Rows' = Rows
    BY <2>1 DEF Rows
  <2>3. CASE Crash
    <3>1. claimed' = {} /\ sent' = FALSE /\ UNCHANGED <<ostatus, olapsed, updates>>
      BY <2>3, Zenon DEF Crash
    <3> QED
      BY <2>1, <2>2, <3>1, RetireNothing
  <2>4. CASE FetchPendingOutbox
    <3>1. sent = FALSE /\ sent' = FALSE
      BY <2>4 DEF IInv, InFlight, FeedShape, FetchPendingOutbox
    <3>2. OClaimable \subseteq Rows /\ OClaimable \subseteq Versions
      BY DEF OClaimable, IInv, RowsAreVersions
    <3>3. Shape' /\ RowsAreVersions'
      BY <2>1, <2>2, <2>4, <3>2 DEF IInv, Shape, RowsAreVersions, FetchPendingOutbox, Members
    <3>4. FeedShape'
      BY <2>1, <3>1, SameFeed DEF IInv
    <3>5. InFlight' /\ RetiredIsDelivered'
      BY <2>1, <2>4, <3>1 DEF IInv, InFlight, RetiredIsDelivered, FeedSame, Shape,
         FetchPendingOutbox, Members
    <3> QED
      BY <3>3, <3>4, <3>5 DEF IInv
  <2>5. CASE WriteOutbox
    <3>1. /\ updates' \in Seq(Versions) /\ Members(updates)' = Members(updates) \cup claimed
          /\ claimed # {} /\ UNCHANGED <<ostatus, olapsed, claimed>>
      BY <2>5, DeliveredMembers DEF WriteOutbox, IInv, Members
    <3>2. sent' \in BOOLEAN
      BY <2>5, Zenon DEF WriteOutbox
    <3>3. Shape' /\ RowsAreVersions'
      BY <2>1, <2>2, <3>1 DEF IInv, Shape, RowsAreVersions
    <3>4. FeedShape'
      BY <2>1, <3>2, SameFeed DEF IInv
    <3>5. InFlight' /\ RetiredIsDelivered'
      BY <2>1, <3>1 DEF IInv, InFlight, RetiredIsDelivered, FeedSame, Members
    <3> QED
      BY <3>3, <3>4, <3>5 DEF IInv
  <2>6. CASE MarkOutboxPublished
    <3>1. claimed \subseteq Members(updates)
      BY <2>6 DEF MarkOutboxPublished, IInv, InFlight
    <3>2. claimed' = {} /\ sent' = FALSE /\ UNCHANGED <<olapsed, updates>>
      BY <2>6, Zenon DEF MarkOutboxPublished
    <3>3. Shape' /\ RowsAreVersions'
      BY <2>1, <2>2, <2>6, <3>2 DEF IInv, Shape, RowsAreVersions, MarkOutboxPublished, Members
    <3>4. FeedShape'
      BY <2>1, <3>2, SameFeed DEF IInv
    <3>5. InFlight' /\ RetiredIsDelivered'
      BY <2>1, <2>6, <3>1, <3>2 DEF IInv, InFlight, RetiredIsDelivered, FeedSame,
         MarkOutboxPublished, Members
    <3> QED
      BY <3>3, <3>4, <3>5 DEF IInv
  <2>7. CASE PublishFails
    <3>1. claimed' = {} /\ sent' = FALSE /\ UNCHANGED <<ostatus, olapsed>>
      BY <2>7, Zenon DEF PublishFails
    <3>2. CASE UNCHANGED updates
      BY <2>1, <2>2, <3>1, <3>2, RetireNothing
    <3>3. CASE updates' \in Delivered
      BY <2>1, <2>2, <3>1, <3>3, RetireNothing
    <3> QED
      BY <2>7, <3>2, <3>3 DEF PublishFails
  <2>8. ASSUME NEW v \in Versions, OClaimLapses(v) PROVE IInv'
    <3>1. /\ olapsed' = olapsed \cup {v} /\ ostatus[v] # "NONE"
          /\ UNCHANGED <<ostatus, claimed, sent, updates>>
      BY <2>8 DEF OClaimLapses
    <3>2. Shape' /\ RowsAreVersions'
      BY <2>1, <2>2, <3>1 DEF IInv, Shape, RowsAreVersions, Members
    <3>3. FeedShape'
      BY <2>1, <3>1, SameFeed DEF IInv, FeedShape
    <3>4. InFlight' /\ RetiredIsDelivered'
      BY <2>1, <3>1 DEF IInv, InFlight, RetiredIsDelivered, FeedSame, Members
    <3> QED
      BY <3>2, <3>3, <3>4 DEF IInv
  <2> QED
    BY <1>6, <2>3, <2>4, <2>5, <2>6, <2>7, <2>8
<1>7. CASE Feed
  BY <1>7, FeedPreserves
<1> QED
  BY <1>2, <1>3, <1>4, <1>5, <1>6, <1>7 DEF Next, Consumer, OutboxPublisher

\* The inductive invariant of the portfolio service and its feed holds in every
\* state.
THEOREM Invariance == Spec => []IInv
<1> QED
  BY InitInv, StepInv, PTL DEF Spec

\* No row of either outbox is retired before its event is delivered, for any
\* number of trades, batch size and retries and any faults.
THEOREM NothingRetiredEarly == Spec => []RetiredIsDelivered
<1>1. IInv => RetiredIsDelivered
  BY DEF IInv
<1> QED
  BY <1>1, Invariance, PTL

-----------------------------------------------------------------------------
\* Steps that change nothing of what PositionKeeping speaks of.
LEMMA Unseen ==
  UNCHANGED <<processed, seed, holding, updates>> => UNCHANGED Promise!vars
<1> QED
  BY DEF Promise!vars, Members

\* The transaction of ProcessUserTrade books a trade.
LEMMA BookImplements ==
  ASSUME NEW t \in Trades, t \notin processed, CanBook(holding, Trade[t]), Book(t),
         UNCHANGED updates
  PROVE  Promise!Book(t)
<1>1. Members(updates)' = Members(updates)
  BY DEF Members
<1>2. (seed = "APPLIED")' = (seed = "APPLIED")
  BY DEF Book
<1> QED
  BY <1>1, <1>2 DEF Promise!Book, Book, Promise!CanBook, Promise!Booked, Promise!Bought,
     Promise!Sold, Promise!AverageEntryPrice, Promise!Stored, CanBook, Booked, Bought, Sold,
     AverageEntryPrice, Stored

\* InitializePositionFromBootstrap opens the position, or does nothing.
LEMMA StartImplements == IInv /\ Start => Promise!Open \/ UNCHANGED Promise!vars
<1> SUFFICES ASSUME IInv, Start PROVE Promise!Open \/ UNCHANGED Promise!vars
  OBVIOUS
<1>1. UNCHANGED <<processed, updates>>
  BY DEF Start, publisher
<1>2. CASE seed = "DEFINED"
  <2>1. /\ seed' = "APPLIED" /\ holding' = Opened(holding, Seed)
    BY <1>2 DEF Start, InitializePosition
  <2>2. Members(updates)' = Members(updates)
    BY <1>1 DEF Members
  <2>3. ~(seed = "APPLIED") /\ (seed = "APPLIED")' = TRUE
    BY <1>2, <2>1
  <2> QED
    BY <1>1, <2>1, <2>2, <2>3 DEF Promise!Open, Promise!Opened, Opened
<1>3. CASE seed # "DEFINED"
  BY <1>1, <1>3, Unseen DEF Start, InitializePosition
<1> QED
  BY <1>2, <1>3

\* Delivering rows of the outbox announces versions that exist.
LEMMA DeliveryImplements ==
  ASSUME IInv, updates' \in Delivered, UNCHANGED <<processed, seed, holding>>
  PROVE  Promise!Announce
<1>1. Members(updates)' = Members(updates) \cup claimed
  BY DeliveredMembers DEF IInv, Members
<1>2. Members(updates) \cup claimed \subseteq 1 .. holding.version
  BY DEF IInv, RowsAreVersions, Rows
<1>3. (seed = "APPLIED")' = (seed = "APPLIED")
  OBVIOUS
<1> QED
  BY <1>1, <1>2, <1>3 DEF Promise!Announce

-----------------------------------------------------------------------------
\* The reader holds a message of the log while it processes one.
ReaderOK ==
  /\ next \in Nat /\ committed \in Nat
  /\ next <= Len(topic) /\ committed <= Len(topic)
  /\ pc = "process" => next > 0

\* No step of the feed takes a message out of the log.
LEMMA TopicGrows == IInv /\ Feed => Len(topic)' >= Len(topic) /\ Len(topic) \in Nat
<1> SUFFICES ASSUME IInv, Feed PROVE Len(topic)' >= Len(topic) /\ Len(topic) \in Nat
  OBVIOUS
<1>1. topic \in Seq(Trades) /\ batch \in Seq(Trades) /\ (written => batch # <<>>)
  BY DEF IInv, FeedShape, InFlight
<1>2. \/ topic' = topic
      \/ batch # <<>> /\ topic' = Append(topic, Head(batch))
  BY DEF Feed, FeedNext, Publisher, SettleTrade, ClaimLapses, FetchPending, Write,
     MarkPublished, MarkPublishedFails, WriteFails, GiveUp, WalletCrash, MaybeArrives
<1> QED
  BY <1>1, <1>2

\* The reader stays within the log and works only on a message it fetched.
LEMMA ReaderStep == IInv /\ ReaderOK /\ [Next]_vars => ReaderOK'
<1> SUFFICES ASSUME IInv, ReaderOK, [Next]_vars PROVE ReaderOK'
  OBVIOUS
<1> USE DEF feedVars, position, consumer, publisher
<1>1. CASE Feed
  BY <1>1, TopicGrows DEF Feed, ReaderOK
<1>2. CASE FetchMessage
  <2>1. next' = next + 1 /\ next < Len(topic) /\ UNCHANGED <<topic, committed>>
    BY <1>2 DEF FetchMessage
  <2>2. Len(topic) \in Nat
    BY DEF IInv, FeedShape
  <2> QED
    BY <2>1, <2>2 DEF ReaderOK
<1>3. CASE Start \/ CommitMessage
  BY <1>3 DEF Start, CommitMessage, ReaderOK
<1>4. CASE \/ SkipDuplicate \/ RefuseTrade \/ SendToDLQ \/ ProcessUserTrade
           \/ ProcessFails \/ SendToDLQFails \/ CommitMessageFails
  <2>1. UNCHANGED <<topic, next, committed>> /\ pc' \in {"commit", "dlq", "fetch"}
    BY <1>4 DEF SkipDuplicate, RefuseTrade, SendToDLQ, ProcessUserTrade, ProcessFails,
       SendToDLQFails, CommitMessageFails, LeaveBehind
  <2> QED
    BY <2>1 DEF ReaderOK
<1>5. CASE \/ Migrate \/ Crash \/ FetchPendingOutbox \/ WriteOutbox \/ MarkOutboxPublished
           \/ PublishFails \/ UNCHANGED vars \/ \E v \in Versions : OClaimLapses(v)
  <2>1. UNCHANGED <<topic, next, committed, pc>>
    BY <1>5 DEF Migrate, Crash, FetchPendingOutbox, WriteOutbox, MarkOutboxPublished,
       PublishFails, OClaimLapses, vars
  <2> QED
    BY <2>1 DEF ReaderOK
<1> QED
  BY <1>1, <1>2, <1>3, <1>4, <1>5 DEF Next, Consumer, OutboxPublisher

\* Every step is a step of PositionKeeping or leaves its variables alone.
LEMMA StepImplements ==
  IInv /\ ReaderOK /\ [Next]_vars => [Promise!Next]_(Promise!vars)
<1> SUFFICES ASSUME IInv, ReaderOK, [Next]_vars
             PROVE  Promise!Next \/ UNCHANGED Promise!vars
  OBVIOUS
<1> USE DEF feedVars, position, consumer, publisher
<1>1. CASE Start
  BY <1>1, StartImplements DEF Promise!Next
<1>2. ASSUME pc = "process" PROVE cur \in Trades
  BY <1>2 DEF cur, ReaderOK, IInv, FeedShape
<1>3. CASE ProcessUserTrade
  <2>1. cur \in Trades
    BY <1>2, <1>3 DEF ProcessUserTrade
  <2>2. /\ cur \notin processed /\ CanBook(holding, Trade[cur]) /\ Book(cur)
        /\ UNCHANGED updates
    BY <1>3 DEF ProcessUserTrade
  <2>3. Promise!Book(cur)
    BY <2>1, <2>2, BookImplements
  <2> QED
    BY <2>1, <2>3 DEF Promise!Next
<1>4. CASE ProcessFails
  <2>1. cur \in Trades /\ UNCHANGED updates
    BY <1>2, <1>4 DEF ProcessFails
  <2>2. CASE UNCHANGED position
    BY <2>1, <2>2, Unseen
  <2>3. CASE cur \notin processed /\ CanBook(holding, Trade[cur]) /\ Book(cur)
    <3>1. Promise!Book(cur)
      BY <2>1, <2>3, BookImplements
    <3> QED
      BY <2>1, <3>1 DEF Promise!Next
  <2> QED
    BY <1>4, <2>2, <2>3 DEF ProcessFails
<1>5. CASE WriteOutbox \/ PublishFails
  <2>1. UNCHANGED <<processed, seed, holding>> /\ updates' \in Delivered \cup {updates}
    BY <1>5 DEF WriteOutbox, PublishFails
  <2>2. CASE updates' = updates
    BY <2>1, <2>2, Unseen
  <2>3. CASE updates' \in Delivered
    BY <2>1, <2>3, DeliveryImplements DEF Promise!Next
  <2> QED
    BY <2>1, <2>2, <2>3
<1>6. CASE Migrate
  <2>1. /\ UNCHANGED <<processed, holding, updates>>
        /\ (seed = "APPLIED")' = (seed = "APPLIED")
    BY <1>6 DEF Migrate
  <2> QED
    BY <2>1 DEF Promise!vars, Members
<1>7. CASE \/ Feed \/ Crash \/ FetchMessage \/ SkipDuplicate \/ RefuseTrade \/ SendToDLQ
           \/ SendToDLQFails \/ CommitMessage \/ CommitMessageFails \/ FetchPendingOutbox
           \/ MarkOutboxPublished \/ UNCHANGED vars \/ \E v \in Versions : OClaimLapses(v)
  <2>1. UNCHANGED <<processed, seed, holding, updates>>
    BY <1>7 DEF Feed, Crash, FetchMessage, SkipDuplicate, RefuseTrade, SendToDLQ,
       SendToDLQFails, CommitMessage, CommitMessageFails, FetchPendingOutbox,
       MarkOutboxPublished, OClaimLapses, vars
  <2> QED
    BY <2>1, Unseen
<1> QED
  BY <1>1, <1>3, <1>4, <1>5, <1>6, <1>7 DEF Next, Consumer, OutboxPublisher

\* The service implements PositionKeeping: whatever is redelivered, skipped,
\* reordered or lost to a crash, each trade is booked at most once, on the
\* position the bookings before it left, and only versions that exist are
\* announced.
THEOREM PositionKept == Spec => KeepsPosition
<1>1. Init => Promise!Init
  BY DEF Init, FeedInit, Promise!Init, Promise!NoHolding, NoHolding, Members
<1>2. Init => ReaderOK
  BY DEF Init, FeedInit, ReaderOK
<1>3. Spec => []ReaderOK
  BY <1>2, ReaderStep, Invariance, PTL DEF Spec
<1> QED
  BY <1>1, <1>3, StepImplements, Invariance, PTL DEF Spec, KeepsPosition, Promise!Spec

-----------------------------------------------------------------------------
(***************************************************************************)
(* Portfolio's accounts: what a booking makes of the row of holdings, with *)
(* the rounding of averages, cost and profit, and what that adds up to.    *)
(***************************************************************************)
Holdings == [quantity : Nat, total_cost : Int, realized_pnl : Int, version : Nat]

\* A quotient, and what is left of the dividend.
LEMMA Divided ==
  ASSUME NEW x \in Int, NEW m \in Nat \ {0}
  PROVE  /\ x \div m \in Int
         /\ m * (x \div m) <= x /\ x < m * (x \div m) + m
<1>1. x \div m \in Int
  OBVIOUS
<1>2. x % m \in 0 .. (m - 1)
  OBVIOUS
<1>3. x = m * (x \div m) + (x % m)
  OBVIOUS
<1>4. m * (x \div m) \in Int
  BY <1>1
<1> QED BY <1>1, <1>2, <1>3, <1>4

\* What the database stores is within half a unit.
LEMMA StoredNear ==
  ASSUME NEW n \in Int
  PROVE  /\ Stored(n) \in Int
         /\ 2 * n - Scale <= 2 * (Scale * Stored(n)) /\ 2 * (Scale * Stored(n)) <= 2 * n + Scale
<1>1. 2 * Scale \in Nat \ {0} /\ Scale \in Nat \ {0}
  BY ScaleAssumption
<1>2. CASE n >= 0
  <2> DEFINE x == 2 * n + Scale
             d == x \div (2 * Scale)
  <2>1. x \in Int
    BY <1>1
  <2>2. d \in Int /\ (2 * Scale) * d <= x /\ x < (2 * Scale) * d + 2 * Scale
    BY <1>1, <2>1, Divided
  <2>3. Stored(n) = d
    BY <1>2 DEF Stored
  <2> HIDE DEF d
  <2>4. (2 * Scale) * d = 2 * (Scale * d) /\ Scale * d \in Int
    BY <1>1, <2>2
  <2> QED BY <1>1, <2>2, <2>3, <2>4
<1>3. CASE n < 0
  <2> DEFINE x == Scale - 2 * n
             d == x \div (2 * Scale)
  <2>1. x \in Int
    BY <1>1
  <2>2. d \in Int /\ (2 * Scale) * d <= x /\ x < (2 * Scale) * d + 2 * Scale
    BY <1>1, <2>1, Divided
  <2>3. Stored(n) = -d
    BY <1>3 DEF Stored
  <2> HIDE DEF d
  <2>4. (2 * Scale) * d = 2 * (Scale * d) /\ Scale * d \in Int /\ Scale * (-d) = -(Scale * d)
    BY <1>1, <2>2
  <2> QED BY <1>1, <2>2, <2>3, <2>4
<1> QED BY <1>2, <1>3

\* The average price of what is held costs what was paid for it, within half of its quantity.
LEMMA AverageNear ==
  ASSUME NEW h \in Holdings, h.quantity # 0
  PROVE  /\ AverageEntryPrice(h) \in Int
         /\ 2 * (h.total_cost * Scale) - h.quantity <= 2 * (h.quantity * AverageEntryPrice(h))
         /\ 2 * (h.quantity * AverageEntryPrice(h)) <= 2 * (h.total_cost * Scale) + h.quantity
<1> DEFINE q == h.quantity
           c == h.total_cost
           x == 2 * c * Scale + q
           a == x \div (2 * q)
<1>1. q \in Nat \ {0} /\ 2 * q \in Nat \ {0} /\ c \in Int /\ Scale \in Nat
  BY ScaleAssumption DEF Holdings
<1>2. AverageEntryPrice(h) = a
  BY <1>1 DEF AverageEntryPrice
<1> HIDE DEF q, c
<1>3. x \in Int /\ c * Scale \in Int /\ x = 2 * (c * Scale) + q
  BY <1>1
<1>4. a \in Int /\ (2 * q) * a <= x /\ x < (2 * q) * a + 2 * q
  BY <1>1, <1>3, Divided
<1> HIDE DEF a, x
<1>5. (2 * q) * a = 2 * (q * a) /\ q * a \in Int
  BY <1>1, <1>4
<1>6. 2 * (c * Scale) - q <= 2 * (q * a) /\ 2 * (q * a) <= 2 * (c * Scale) + q
  BY <1>1, <1>3, <1>4, <1>5
<1> QED BY <1>2, <1>4, <1>6 DEF q, c

\* A number whose multiple is small is small.
LEMMA SmallFactor ==
  ASSUME NEW d \in Int, -Scale <= Scale * d, Scale * d <= Scale
  PROVE  -1 <= d /\ d <= 1
<1>1. Scale \in Nat \ {0}
  BY ScaleAssumption
<1>2. ASSUME d >= 2 PROVE FALSE
  <2>1. Scale * d = Scale * 2 + Scale * (d - 2) /\ Scale * (d - 2) >= 0
    BY <1>1, <1>2
  <2> QED BY <1>1, <2>1
<1>3. ASSUME d <= -2 PROVE FALSE
  <2>1. Scale * d = -(Scale * 2) - Scale * (-d - 2) /\ Scale * (-d - 2) >= 0
    BY <1>1, <1>3
  <2> QED BY <1>1, <2>1
<1> QED BY <1>2, <1>3

\* What is stored of cost and profit after a sale: the money it brought is accounted for
\* up to one unit.
LEMMA RoundedSale ==
  ASSUME NEW c \in Int, NEW p \in Int, NEW m \in Int, NEW k \in Int,
         NEW c2 \in Int, NEW p2 \in Int, p2 = Stored((p + m) * Scale - k),
         \/ c2 = Stored(c * Scale - k)
         \/ c2 = 0 /\ \E q \in Nat : /\ q <= Scale
                                     /\ 2 * (c * Scale) - q <= 2 * k /\ 2 * k <= 2 * (c * Scale) + q
  PROVE  -1 <= (c2 - p2) - (c - p - m) /\ (c2 - p2) - (c - p - m) <= 1
<1> DEFINE d == (c2 - p2) - (c - p - m)
<1>1. Scale \in Nat \ {0}
  BY ScaleAssumption
<1>2. (p + m) * Scale - k \in Int /\ c * Scale - k \in Int
  BY <1>1
<1>3. /\ 2 * ((p + m) * Scale - k) - Scale <= 2 * (Scale * p2)
      /\ 2 * (Scale * p2) <= 2 * ((p + m) * Scale - k) + Scale
  BY <1>2, StoredNear
<1>4. Scale * d = Scale * c2 - Scale * p2 - c * Scale + (p + m) * Scale
  BY <1>1
<1>5. /\ Scale * c2 \in Int /\ Scale * p2 \in Int /\ c * Scale \in Int /\ (p + m) * Scale \in Int
      /\ d \in Int
  BY <1>1
<1> HIDE DEF d
<1>6. -Scale <= Scale * d /\ Scale * d <= Scale
  <2>1. CASE c2 = Stored(c * Scale - k)
    <3>1. /\ 2 * (c * Scale - k) - Scale <= 2 * (Scale * c2)
          /\ 2 * (Scale * c2) <= 2 * (c * Scale - k) + Scale
      BY <1>2, <2>1, StoredNear
    <3> DEFINE A == Scale * c2
               B == Scale * p2
               C == c * Scale
               D == (p + m) * Scale
               E == Scale * d
    <3>2. /\ A \in Int /\ B \in Int /\ C \in Int /\ D \in Int /\ E = A - B - C + D
          /\ 2 * (D - k) - Scale <= 2 * B /\ 2 * B <= 2 * (D - k) + Scale
          /\ 2 * (C - k) - Scale <= 2 * A /\ 2 * A <= 2 * (C - k) + Scale
      BY <1>3, <1>4, <1>5, <3>1
    <3> HIDE DEF A, B, C, D, E
    <3>3. -Scale <= E /\ E <= Scale
      BY <1>1, <3>2
    <3> QED BY <3>3 DEF E
  <2>2. CASE c2 = 0 /\ \E q \in Nat : /\ q <= Scale
                                      /\ 2 * (c * Scale) - q <= 2 * k /\ 2 * k <= 2 * (c * Scale) + q
    <3>1. PICK q \in Nat : q <= Scale /\ 2 * (c * Scale) - q <= 2 * k /\ 2 * k <= 2 * (c * Scale) + q
      BY <2>2
    <3> DEFINE B == Scale * p2
               C == c * Scale
               D == (p + m) * Scale
               E == Scale * d
    <3>2. Scale * c2 = 0
      BY <1>1, <2>2
    <3>3. /\ B \in Int /\ C \in Int /\ D \in Int /\ E = -B - C + D
          /\ 2 * (D - k) - Scale <= 2 * B /\ 2 * B <= 2 * (D - k) + Scale
          /\ 2 * C - q <= 2 * k /\ 2 * k <= 2 * C + q
      BY <1>3, <1>4, <1>5, <3>1, <3>2
    <3> HIDE DEF B, C, D, E
    <3>4. -Scale <= E /\ E <= Scale
      BY <1>1, <3>1, <3>3
    <3> QED BY <3>4 DEF E
  <2> QED BY <2>1, <2>2
<1>7. -1 <= d /\ d <= 1
  BY <1>5, <1>6, SmallFactor
<1> QED BY <1>7 DEF d
-----------------------------------------------------------------------------
\* What a trade does to the quantity, and the money it takes.
Gains   == [t \in Trades |-> Signed(t)]
Takings == [t \in Trades |-> Signed(t) * Trade[t].price]

Base(s, x) == IF s = "APPLIED" THEN x ELSE 0
SalesOf(S)    == {t \in S : Trade[t].role = "SELL"}
Error(h, s, S) == h.total_cost - h.realized_pnl - (Base(s, Seed.cost_basis) + Total(Takings, S))

AccountsFor(h, s, S) ==
  /\ h.quantity = Base(s, Seed.quantity) + Total(Gains, S)
  /\ h.version = Cardinality(S) + Base(s, 1)
  /\ -Cardinality(SalesOf(S)) <= Error(h, s, S) /\ Error(h, s, S) <= Cardinality(SalesOf(S))

AccInv == processed \in SUBSET Trades /\ holding \in Holdings /\ AccountsFor(holding, seed, processed)

LEMMA TradesAre ==
  /\ IsFiniteSet(Trades) /\ Seed.quantity \in Nat /\ Seed.cost_basis \in Nat
  /\ \A t \in Trades : /\ Trade[t].role \in {"BUY", "SELL"}
                       /\ Trade[t].quantity \in Nat \ {0} /\ Trade[t].price \in Nat \ {0}
                       /\ Gains[t] = Signed(t) /\ Signed(t) \in Int /\ Signed(t) <= Trade[t].quantity
                       /\ Takings[t] = Signed(t) * Trade[t].price /\ Takings[t] \in Int
<1>1. IsFiniteSet(Trades)
  BY ConstantsOK, FS_Interval DEF Trades
<1>2. Seed.quantity \in Nat /\ Seed.cost_basis \in Nat
  BY FeedAssumption
<1>3. ASSUME NEW t \in Trades
      PROVE  /\ Trade[t].role \in {"BUY", "SELL"}
             /\ Trade[t].quantity \in Nat \ {0} /\ Trade[t].price \in Nat \ {0}
             /\ Gains[t] = Signed(t) /\ Signed(t) \in Int /\ Signed(t) <= Trade[t].quantity
             /\ Takings[t] = Signed(t) * Trade[t].price /\ Takings[t] \in Int
  <2>1. Trade[t] \in [role : {"BUY", "SELL"}, quantity : Nat \ {0}, price : Nat \ {0}]
    BY FeedAssumption
  <2>2. /\ Trade[t].role \in {"BUY", "SELL"}
        /\ Trade[t].quantity \in Nat \ {0} /\ Trade[t].price \in Nat \ {0}
    BY <2>1
  <2>3. Signed(t) \in Int /\ Signed(t) <= Trade[t].quantity
    BY <2>2 DEF Signed
  <2>4. Signed(t) * Trade[t].price \in Int
    BY <2>2, <2>3
  <2> QED BY <2>2, <2>3, <2>4 DEF Gains, Takings
<1> QED BY <1>1, <1>2, <1>3

\* The sums that Portfolio's properties name.
LEMMA SumsOfTrades ==
  ASSUME NEW S \in SUBSET Trades
  PROVE  /\ IsFiniteSet(S)
         /\ MapThenSumSet(Signed, S) = Total(Gains, S)
         /\ MapThenSumSet(LAMBDA t : Signed(t) * Trade[t].price, S) = Total(Takings, S)
<1>1. IsFiniteSet(S)
  BY TradesAre, FS_Subset
<1>2. \A s \in SUBSET S : s # {} => Some(s) \in Trades
  BY SomeIn
<1>3. MapThenSumSet(Signed, S) = Total(Gains, S)
  <2> DEFINE P(h) == h = [s \in SUBSET S |-> IF s = {} THEN 0 ELSE Signed(Some(s)) + h[s \ {Some(s)}]]
  <2>1. \A s \in SUBSET S : s # {} => Gains[Some(s)] = Signed(Some(s))
    BY <1>2, TradesAre
  <2>2. \A h : IsTable(h, Gains, S) <=> P(h)
    BY <2>1 DEF IsTable
  <2>3. MapThenSumSet(Signed, S) = (CHOOSE h : P(h))[S]
    BY DEF MapThenSumSet, MapThenFoldSet, Some
  <2>4. \E h : P(h)
    BY <1>1, <2>2, TableExists
  <2>5. PICK h : P(h) /\ MapThenSumSet(Signed, S) = h[S]
    BY <2>3, <2>4
  <2>6. IsTable(h, Gains, S)
    BY <2>2, <2>5
  <2> QED BY <1>1, <2>5, <2>6, TotalIs
<1>4. MapThenSumSet(LAMBDA t : Signed(t) * Trade[t].price, S) = Total(Takings, S)
  <2> DEFINE P(h) == h = [s \in SUBSET S |-> IF s = {} THEN 0
                            ELSE Signed(Some(s)) * Trade[Some(s)].price + h[s \ {Some(s)}]]
  <2>1. \A s \in SUBSET S : s # {} => Takings[Some(s)] = Signed(Some(s)) * Trade[Some(s)].price
    BY <1>2, TradesAre
  <2>2. \A h : IsTable(h, Takings, S) <=> P(h)
    BY <2>1 DEF IsTable
  <2>3. MapThenSumSet(LAMBDA t : Signed(t) * Trade[t].price, S) = (CHOOSE h : P(h))[S]
    BY DEF MapThenSumSet, MapThenFoldSet, Some
  <2>4. \E h : P(h)
    BY <1>1, <2>2, TableExists
  <2>5. PICK h : P(h) /\ MapThenSumSet(LAMBDA t : Signed(t) * Trade[t].price, S) = h[S]
    BY <2>3, <2>4
  <2>6. IsTable(h, Takings, S)
    BY <2>2, <2>5
  <2> QED BY <1>1, <2>5, <2>6, TotalIs
<1> QED BY <1>1, <1>3, <1>4

LEMMA AccountedIs ==
  ASSUME processed \in SUBSET Trades, AccountsFor(holding, seed, processed)
  PROVE  Accounted
<1>1. PICK S \in SUBSET Trades : S = processed
  OBVIOUS
<1>2. /\ MapThenSumSet(Signed, S) = Total(Gains, S)
      /\ MapThenSumSet(LAMBDA t : Signed(t) * Trade[t].price, S) = Total(Takings, S)
  BY SumsOfTrades
<1>3. AccountedOnce
  BY <1>1, <1>2 DEF AccountedOnce, AccountsFor, Base
<1>4. CashAccounted
  BY <1>1, <1>2 DEF CashAccounted, AccountsFor, Base, Error, SalesOf
<1> QED BY <1>3, <1>4 DEF Accounted

\* What is held is so little that an average price of it is exact enough (DECIMAL(30, 10)).
LEMMA QuantityFits ==
  ASSUME NEW h \in Holdings, NEW s, NEW S \in SUBSET Trades, AccountsFor(h, s, S)
  PROVE  h.quantity <= Scale
<1> DEFINE amounts == [t \in Trades |-> Trade[t].quantity]
<1>1. /\ \A t \in Trades : amounts[t] \in Nat
      /\ \A t \in S : Gains[t] \in Int /\ Gains[t] <= amounts[t]
  BY TradesAre
<1>2. MapThenSumSet(LAMBDA t : Trade[t].quantity, Trades) = Total(amounts, Trades)
  <2> DEFINE P(k) == k = [r \in SUBSET Trades |-> IF r = {} THEN 0
                            ELSE Trade[Some(r)].quantity + k[r \ {Some(r)}]]
  <2>1. \A r \in SUBSET Trades : r # {} => amounts[Some(r)] = Trade[Some(r)].quantity
    BY SomeIn
  <2> HIDE DEF amounts
  <2>2. \A k : IsTable(k, amounts, Trades) <=> P(k)
    BY <2>1 DEF IsTable
  <2>3. MapThenSumSet(LAMBDA t : Trade[t].quantity, Trades) = (CHOOSE k : P(k))[Trades]
    BY DEF MapThenSumSet, MapThenFoldSet, Some
  <2>4. \E k : P(k)
    BY <2>2, TradesAre, TableExists
  <2>5. PICK k : P(k) /\ MapThenSumSet(LAMBDA t : Trade[t].quantity, Trades) = k[Trades]
    BY <2>3, <2>4
  <2>6. IsTable(k, amounts, Trades)
    BY <2>2, <2>5
  <2> QED BY <2>5, <2>6, TradesAre, TotalIs
<1>3. Scale > Seed.quantity + MapThenSumSet(LAMBDA t : Trade[t].quantity, Trades)
  BY FeedAssumption
<1> HIDE DEF amounts
<1>4. Total(Gains, S) <= Total(amounts, Trades)
  BY <1>1, TradesAre, TotalAtMost
<1>5. Total(amounts, Trades) \in Nat
  BY <1>1, TradesAre, TotalNat
<1>6. IsFiniteSet(S) /\ Total(Gains, S) \in Int
  BY <1>1, TradesAre, FS_Subset, TotalInt
<1> QED BY <1>2, <1>3, <1>4, <1>5, <1>6, TradesAre, ScaleAssumption DEF AccountsFor, Base

\* The opening position.
LEMMA OpeningAccounted ==
  ASSUME NEW h \in Holdings, NEW s, s # "APPLIED", NEW S \in SUBSET Trades, AccountsFor(h, s, S)
  PROVE  Opened(h, Seed) \in Holdings /\ AccountsFor(Opened(h, Seed), "APPLIED", S)
<1> DEFINE k == Opened(h, Seed)
<1>1. /\ k.quantity = h.quantity + Seed.quantity /\ k.total_cost = h.total_cost + Seed.cost_basis
      /\ k.realized_pnl = h.realized_pnl /\ k.version = h.version + 1 /\ k \in Holdings
  <2>1. /\ h.quantity \in Nat /\ h.total_cost \in Int /\ h.realized_pnl \in Int /\ h.version \in Nat
        /\ h = [quantity |-> h.quantity, total_cost |-> h.total_cost,
                realized_pnl |-> h.realized_pnl, version |-> h.version]
    BY DEF Holdings
  <2>2. k = [quantity |-> h.quantity + Seed.quantity, total_cost |-> h.total_cost + Seed.cost_basis,
             realized_pnl |-> h.realized_pnl, version |-> h.version + 1]
    <3>1. Opened(h, Seed) = [h EXCEPT !.quantity = h.quantity + Seed.quantity,
                                      !.total_cost = h.total_cost + Seed.cost_basis,
                                      !.version = h.version + 1]
      BY DEF Opened, Holdings
    <3> QED BY <2>1, <3>1, Zenon
  <2> HIDE DEF k
  <2> QED BY <2>1, <2>2, TradesAre DEF Holdings
<1>2. \A t \in S : Gains[t] \in Int /\ Takings[t] \in Int
  BY TradesAre
<1>3. IsFiniteSet(S) /\ Total(Gains, S) \in Int /\ Total(Takings, S) \in Int /\ Cardinality(S) \in Nat
  BY <1>2, SumsOfTrades, TotalInt, FS_CardinalityType
<1>4. h.total_cost \in Int /\ h.realized_pnl \in Int
  BY DEF Holdings
<1> HIDE DEF k
<1>5. Error(k, "APPLIED", S) = Error(h, s, S)
  BY <1>1, <1>3, <1>4, TradesAre DEF Error, Base
<1>6. /\ k.quantity = Base("APPLIED", Seed.quantity) + Total(Gains, S)
      /\ k.version = Cardinality(S) + Base("APPLIED", 1)
  BY <1>1, <1>3, TradesAre DEF AccountsFor, Base
<1> QED BY <1>1, <1>5, <1>6 DEF AccountsFor, k

\* A trade is booked.
LEMMA BookingAccounted ==
  ASSUME NEW h \in Holdings, NEW s, NEW S \in SUBSET Trades, AccountsFor(h, s, S),
         NEW t \in Trades \ S, CanBook(h, Trade[t])
  PROVE  Booked(h, Trade[t]) \in Holdings /\ AccountsFor(Booked(h, Trade[t]), s, S \cup {t})
<1> DEFINE k == Booked(h, Trade[t])
           m == Trade[t].quantity * Trade[t].price
           T == S \cup {t}
<1>1. /\ Trade[t].role \in {"BUY", "SELL"}
      /\ Trade[t].quantity \in Nat \ {0} /\ Trade[t].price \in Nat \ {0}
      /\ Gains[t] = Signed(t) /\ Takings[t] = Signed(t) * Trade[t].price
  BY TradesAre
<1>2. m \in Nat
  BY <1>1
<1>3. /\ h.quantity \in Nat /\ h.total_cost \in Int /\ h.realized_pnl \in Int /\ h.version \in Nat
  BY DEF Holdings
<1>4. (\A u \in T : Gains[u] \in Int) /\ (\A u \in T : Takings[u] \in Int)
  BY TradesAre
<1>5. IsFiniteSet(S)
  BY SumsOfTrades
<1>6. Cardinality(S) \in Nat /\ Cardinality(T) = Cardinality(S) + 1
  BY <1>5, FS_AddElement, FS_CardinalityType
<1>7. Total(Gains, T) = Total(Gains, S) + Gains[t] /\ Total(Gains, S) \in Int
  BY <1>4, <1>5, TotalAdd, TotalInt
<1>8. Total(Takings, T) = Total(Takings, S) + Takings[t] /\ Total(Takings, S) \in Int
  BY <1>4, <1>5, TotalAdd, TotalInt
<1>9. Base(s, Seed.quantity) \in Nat /\ Base(s, Seed.cost_basis) \in Nat /\ Base(s, 1) \in Nat
  BY TradesAre DEF Base
<1>a. SalesOf(S) \subseteq S /\ IsFiniteSet(SalesOf(S)) /\ Cardinality(SalesOf(S)) \in Nat
  BY <1>5, FS_Subset, FS_CardinalityType DEF SalesOf
<1>10. CASE Trade[t].role = "BUY"
  <2>1. /\ k.quantity = h.quantity + Trade[t].quantity /\ k.total_cost = h.total_cost + m
        /\ k.realized_pnl = h.realized_pnl /\ k.version = h.version + 1 /\ k \in Holdings
    <3>1. h = [quantity |-> h.quantity, total_cost |-> h.total_cost,
               realized_pnl |-> h.realized_pnl, version |-> h.version]
      BY DEF Holdings
    <3>2. k = [quantity |-> h.quantity + Trade[t].quantity, total_cost |-> h.total_cost + m,
               realized_pnl |-> h.realized_pnl, version |-> h.version + 1]
      BY <1>10, <3>1 DEF Booked, Bought
    <3> HIDE DEF k, m
    <3> QED BY <1>1, <1>2, <1>3, <3>2 DEF Holdings
  <2>2. Gains[t] = Trade[t].quantity /\ Takings[t] = m
    BY <1>1, <1>10 DEF Signed
  <2>3. SalesOf(T) = SalesOf(S)
    BY <1>10 DEF SalesOf
  <2> HIDE DEF k, m, T
  <2>4. Error(k, s, T) = Error(h, s, S)
    BY <1>2, <1>3, <1>8, <1>9, <2>1, <2>2 DEF Error
  <2>5. k.quantity = Base(s, Seed.quantity) + Total(Gains, T) /\ k.version = Cardinality(T) + Base(s, 1)
    <3>1. h.quantity = Base(s, Seed.quantity) + Total(Gains, S) /\ h.version = Cardinality(S) + Base(s, 1)
      BY DEF AccountsFor
    <3>2. k.quantity = Base(s, Seed.quantity) + Total(Gains, T)
      BY <1>1, <1>3, <1>7, <1>9, <2>1, <2>2, <3>1 DEF T
    <3>3. k.version = Cardinality(T) + Base(s, 1)
      BY <1>3, <1>6, <1>9, <2>1, <3>1 DEF T
    <3> QED BY <3>2, <3>3
  <2>6. AccountsFor(k, s, T)
    BY <2>3, <2>4, <2>5 DEF AccountsFor
  <2> QED BY <2>1, <2>6 DEF k, T
<1>11. CASE Trade[t].role = "SELL"
  <2> DEFINE n    == Trade[t].quantity
             cost == n * AverageEntryPrice(h)
             c2   == IF h.quantity = n THEN 0 ELSE Stored(h.total_cost * Scale - cost)
             p2   == Stored((h.realized_pnl + m) * Scale - cost)
  <2>1. n \in Nat \ {0} /\ h.quantity >= n /\ h.quantity # 0 /\ h.quantity <= Scale /\ Scale \in Nat \ {0}
    BY <1>1, <1>3, <1>11, QuantityFits, ScaleAssumption DEF CanBook
  <2>2. /\ AverageEntryPrice(h) \in Int
        /\ 2 * (h.total_cost * Scale) - h.quantity <= 2 * (h.quantity * AverageEntryPrice(h))
        /\ 2 * (h.quantity * AverageEntryPrice(h)) <= 2 * (h.total_cost * Scale) + h.quantity
    BY <2>1, AverageNear
  <2>3. cost \in Int
    BY <2>1, <2>2
  <2>4. /\ k.quantity = h.quantity - n /\ k.total_cost = c2 /\ k.realized_pnl = p2
        /\ k.version = h.version + 1 /\ DOMAIN k = DOMAIN h /\ k = [h EXCEPT !.quantity = k.quantity, !.total_cost = c2, !.realized_pnl = p2, !.version = k.version]
    BY <1>11 DEF Booked, Sold, Holdings
  <2>5. (h.realized_pnl + m) * Scale - cost \in Int /\ h.total_cost * Scale - cost \in Int
    BY <1>2, <1>3, <2>1, <2>3
  <2>6. c2 \in Int /\ p2 \in Int
    BY <2>5, StoredNear
  <2>7. \/ c2 = Stored(h.total_cost * Scale - cost)
        \/ c2 = 0 /\ \E q \in Nat : /\ q <= Scale
                                    /\ 2 * (h.total_cost * Scale) - q <= 2 * cost
                                    /\ 2 * cost <= 2 * (h.total_cost * Scale) + q
    <3>1. CASE h.quantity = n
      <4>1. c2 = 0 /\ cost = h.quantity * AverageEntryPrice(h)
        BY <3>1
      <4> HIDE DEF c2, cost
      <4> QED BY <1>3, <2>1, <2>2, <4>1
    <3>2. CASE h.quantity # n
      BY <3>2
    <3> QED BY <3>1, <3>2
  <2>8. p2 = Stored((h.realized_pnl + m) * Scale - cost)
    OBVIOUS
  <2> HIDE DEF c2, p2, cost, m
  <2>9. /\ -1 <= (c2 - p2) - (h.total_cost - h.realized_pnl - m)
        /\ (c2 - p2) - (h.total_cost - h.realized_pnl - m) <= 1
    <3>1. PICK c, p : c = h.total_cost /\ p = h.realized_pnl
      OBVIOUS
    <3>2. c \in Int /\ p \in Int /\ m \in Int /\ cost \in Int /\ c2 \in Int /\ p2 \in Int
      BY <1>2, <1>3, <2>3, <2>6, <3>1 DEF m
    <3>3. p2 = Stored((p + m) * Scale - cost)
      BY <2>8, <3>1
    <3>4. \/ c2 = Stored(c * Scale - cost)
          \/ c2 = 0 /\ \E q \in Nat : /\ q <= Scale
                                      /\ 2 * (c * Scale) - q <= 2 * cost
                                      /\ 2 * cost <= 2 * (c * Scale) + q
      BY <2>7, <3>1
    <3>5. -1 <= (c2 - p2) - (c - p - m) /\ (c2 - p2) - (c - p - m) <= 1
      BY <3>2, <3>3, <3>4, RoundedSale
    <3> QED BY <3>1, <3>5
  <2>10. Gains[t] = -n /\ Takings[t] = -m
    BY <1>1, <1>11 DEF Signed, m
  <2>11. SalesOf(T) = SalesOf(S) \cup {t} /\ t \notin SalesOf(S)
    BY <1>11 DEF SalesOf
  <2>12. Cardinality(SalesOf(T)) = Cardinality(SalesOf(S)) + 1
    BY <1>a, <2>11, FS_AddElement
  <2> HIDE DEF k, T, n
  <2>13. k.quantity \in Nat /\ k.version \in Nat
    BY <1>3, <2>1, <2>4
  <2>14. k \in Holdings
    BY <2>4, <2>6, <2>13 DEF Holdings
  <2>15. Error(k, s, T) = Error(h, s, S) + ((c2 - p2) - (h.total_cost - h.realized_pnl - m))
    BY <1>2, <1>3, <1>8, <1>9, <2>4, <2>6, <2>10 DEF Error
  <2>16. Error(h, s, S) \in Int
    BY <1>3, <1>8, <1>9 DEF Error
  <2>17. -Cardinality(SalesOf(T)) <= Error(k, s, T) /\ Error(k, s, T) <= Cardinality(SalesOf(T))
    <3> DEFINE e == (c2 - p2) - (h.total_cost - h.realized_pnl - m)
    <3>1. e \in Int /\ -1 <= e /\ e <= 1 /\ Error(k, s, T) = Error(h, s, S) + e
      BY <1>2, <1>3, <2>6, <2>9, <2>15
    <3> HIDE DEF e
    <3> QED BY <1>a, <2>12, <2>16, <3>1 DEF AccountsFor
  <2>18. k.quantity = Base(s, Seed.quantity) + Total(Gains, T) /\ k.version = Cardinality(T) + Base(s, 1)
    BY <1>3, <1>6, <1>7, <1>9, <2>1, <2>4, <2>10 DEF AccountsFor
  <2>19. AccountsFor(k, s, T)
    BY <2>17, <2>18 DEF AccountsFor
  <2> QED BY <2>14, <2>19 DEF k, T
<1> QED BY <1>1, <1>10, <1>11

LEMMA AccountsBegin == Init => AccInv
<1> SUFFICES ASSUME Init PROVE AccInv
  OBVIOUS
<1>1. processed = {} /\ holding = NoHolding /\ seed = "ABSENT"
  BY DEF Init
<1>2. Total(Gains, {}) = 0 /\ Total(Takings, {}) = 0 /\ Cardinality({}) = 0 /\ SalesOf({}) = {}
  BY TotalEmpty, FS_EmptySet DEF SalesOf
<1>3. AccountsFor(NoHolding, "ABSENT", {})
  BY <1>2 DEF AccountsFor, Error, Base, NoHolding
<1> QED BY <1>1, <1>3 DEF AccInv, NoHolding, Holdings

\* PositionKeeping's steps are all that changes the accounts.
LEMMA AccountsKept == AccInv /\ [Promise!Next]_(Promise!vars) => AccInv'
<1> SUFFICES ASSUME AccInv, [Promise!Next]_(Promise!vars) PROVE AccInv'
  OBVIOUS
<1>1. CASE processed' = processed /\ holding' = holding /\ (seed' = "APPLIED" <=> seed = "APPLIED")
  BY <1>1 DEF AccInv, AccountsFor, Base, Error
<1>2. CASE Promise!Announce \/ UNCHANGED Promise!vars
  BY <1>1, <1>2 DEF Promise!Announce, Promise!vars
<1>3. CASE Promise!Open
  <2>1. seed # "APPLIED" /\ seed' = "APPLIED" /\ UNCHANGED processed /\ holding' = Opened(holding, Seed)
    BY <1>3 DEF Promise!Open, Promise!Opened, Opened
  <2>2. Opened(holding, Seed) \in Holdings /\ AccountsFor(Opened(holding, Seed), "APPLIED", processed)
    BY <2>1, OpeningAccounted DEF AccInv
  <2> QED BY <2>1, <2>2 DEF AccInv
<1>4. ASSUME NEW t \in Trades, Promise!Book(t) PROVE AccInv'
  <2>1. /\ t \notin processed /\ CanBook(holding, Trade[t]) /\ processed' = processed \cup {t}
        /\ holding' = Booked(holding, Trade[t]) /\ (seed' = "APPLIED" <=> seed = "APPLIED")
    BY <1>4 DEF Promise!Book, Promise!CanBook, Promise!Booked, Promise!Bought,
     Promise!Sold, Promise!AverageEntryPrice, Promise!Stored, CanBook, Booked, Bought, Sold,
     AverageEntryPrice, Stored
  <2>2. /\ Booked(holding, Trade[t]) \in Holdings
        /\ AccountsFor(Booked(holding, Trade[t]), seed, processed \cup {t})
    BY <2>1, BookingAccounted DEF AccInv
  <2>3. AccountsFor(holding', seed', processed')
    BY <2>1, <2>2 DEF AccountsFor, Base, Error
  <2> QED BY <2>1, <2>2, <2>3 DEF AccInv
<1> QED BY <1>2, <1>3, <1>4 DEF Promise!Next

\* However its trades come, again, late or after a crash, a position's quantity and version
\* count each of them once, and the average price loses of the money they took no more than
\* one unit for each sale (ProcessUserTrade, InitializePositionFromBootstrap, Sold).
THEOREM MoneyAccounted == Spec => []Accounted
<1>1. Init => ReaderOK
  BY DEF Init, FeedInit, ReaderOK
<1>2. Spec => []ReaderOK
  BY <1>1, ReaderStep, Invariance, PTL DEF Spec
<1>3. AccInv => Accounted
  BY AccountedIs DEF AccInv
<1> QED
  BY <1>2, <1>3, AccountsBegin, AccountsKept, StepImplements, Invariance, PTL DEF Spec

-----------------------------------------------------------------------------
(***************************************************************************)
(* Portfolio's dead letters, from the wallet's reservation to the refusal. *)
(***************************************************************************)
Settled      == {t \in Trades : status[t] # "NONE"}
SettledTo(t) == {u \in Settled : u <= t}
DealtWith    == processed \cup dlq \cup passed

\* The trades on their way to the portfolio are settled.
SentIsSettled == Members(topic) \cup Members(batch) \cup lapsed \subseteq Settled

\* A settled sale sells what the trades before it left.
NothingOversold ==
  \A t \in Settled : Trade[t].role = "SELL" => Seed.quantity + Total(Gains, SettledTo(t)) >= 0

\* The consumer goes from one message to the next, also after a restart: whatever it has
\* dealt with, it has dealt with all that the partition has before it.
ReadInTurn ==
  /\ \A i \in 1 .. committed : topic[i] \in DealtWith
  /\ \A i \in 1 .. next : i < next \/ pc \in {"fetch", "commit"} => topic[i] \in DealtWith
  /\ \A t \in processed \cup dlq :
       \E k \in 1 .. Len(topic) : topic[k] = t /\ \A i \in 1 .. k - 1 : topic[i] \in DealtWith

\* What is refused, or about to be, is a sale.
RefusedAreSales ==
  /\ \A t \in dlq : Trade[t].role = "SELL"
  /\ pc = "dlq" => next > 0 /\ cur \notin processed /\ ~CanBook(holding, Trade[cur])

LateInv == SentIsSettled /\ NothingOversold /\ ReadInTurn /\ RefusedAreSales

\* A sale that is covered leaves the sales settled before it covered too.
LEMMA CoveredStays ==
  ASSUME FeedShape, NothingOversold, NEW v \in Trades, SettleTrade(v)
  PROVE  NothingOversold'
<1>1. /\ v \notin Settled /\ Settled' = Settled \cup {v} /\ Settled \in SUBSET Trades
  BY DEF SettleTrade, FeedShape, Settled
<1>2. SUFFICES ASSUME NEW t \in Settled', Trade[t].role = "SELL"
               PROVE  Seed.quantity + Total(Gains, SettledTo(t)') >= 0
  BY DEF NothingOversold
<1>3. /\ IsFiniteSet(Trades) /\ Seed.quantity \in Nat /\ M \in Nat
      /\ \A u \in Trades : /\ Gains[u] \in Int /\ Gains[u] = Signed(u) /\ u \in Nat
                           /\ Trade[u].role \in {"BUY", "SELL"} /\ Trade[u].quantity \in Nat \ {0}
  BY TradesAre, ConstantsOK DEF Trades
<1>4. \A u \in Trades : /\ Trade[u].role = "BUY" => Gains[u] >= 0
                        /\ Trade[u].role = "SELL" => Gains[u] <= 0 /\ Gains[u] = -Trade[u].quantity
  BY <1>3 DEF Signed
<1>5. SettledTo(t) \in SUBSET Trades /\ IsFiniteSet(SettledTo(t)) /\ t \in Trades
  BY <1>1, <1>3, FS_Subset DEF SettledTo
<1>6. CASE ~(v <= t)
  <2>1. SettledTo(t)' = SettledTo(t) /\ t \in Settled
    BY <1>1, <1>3, <1>5, <1>6 DEF SettledTo
  <2> QED BY <2>1, <1>2 DEF NothingOversold
<1>7. CASE v <= t
  <2>1. SettledTo(t)' = SettledTo(t) \cup {v} /\ v \notin SettledTo(t)
    BY <1>1, <1>7 DEF SettledTo
  <2>2. Total(Gains, SettledTo(t)') = Total(Gains, SettledTo(t)) + Gains[v]
    <3>1. \A y \in SettledTo(t) \cup {v} : Gains[y] \in Int
      BY <1>3, <1>5
    <3> QED BY <1>5, <2>1, <3>1, TotalAdd
  <2>3. Total(Gains, SettledTo(t)) \in Int
    BY <1>3, <1>5, TotalInt
  <2>4. CASE Trade[v].role = "BUY"
    <3>1. t \in Settled
      BY <1>1, <1>2, <2>4
    <3>2. Seed.quantity + Total(Gains, SettledTo(t)) >= 0
      BY <1>2, <3>1 DEF NothingOversold
    <3>3. Gains[v] \in Int /\ Gains[v] >= 0
      BY <1>3, <1>4, <2>4
    <3> QED BY <1>3, <2>2, <2>3, <3>2, <3>3
  <2>5. CASE Trade[v].role = "SELL"
    <3> DEFINE before == {u \in Trades : status[u] # "NONE" /\ (u < v \/ Trade[u].role = "SELL")}
    <3>1. Seed.quantity + Total(Gains, before) >= Trade[v].quantity
      BY <2>5, SumsOfTrades DEF SettleTrade, Covered
    <3>2. before \in SUBSET Trades /\ IsFiniteSet(before)
      BY <1>3, FS_Subset
    <3>3. \A x \in before \ SettledTo(t) : Gains[x] <= 0
      <4>1. \A x \in before \ SettledTo(t) : x \in Trades /\ Trade[x].role = "SELL"
        BY <1>3, <1>5, <1>7 DEF SettledTo, Settled
      <4> QED BY <1>4, <4>1
    <3>4. \A x \in SettledTo(t) \ before : Gains[x] >= 0
      <4>1. \A x \in SettledTo(t) \ before : x \in Trades /\ Trade[x].role = "BUY"
        BY <1>3, <1>5 DEF SettledTo, Settled
      <4> QED BY <1>4, <4>1
    <3> HIDE DEF before
    <3>5. Total(Gains, before) <= Total(Gains, SettledTo(t))
      BY <1>3, <1>5, <3>2, <3>3, <3>4, TotalGains
    <3>6. Total(Gains, before) \in Int
      BY <1>3, <3>2, TotalInt
    <3>7. Gains[v] = -Trade[v].quantity /\ Trade[v].quantity \in Nat
      BY <1>3, <1>4, <2>5
    <3> QED BY <1>3, <2>2, <2>3, <3>1, <3>5, <3>6, <3>7
  <2> QED BY <1>3, <2>4, <2>5
<1> QED BY <1>6, <1>7

\* What a step of the feed does to statuses, batch and partition.
LEMMA FeedGoesOn ==
  ASSUME IInv, SentIsSettled, Feed
  PROVE  /\ Settled \subseteq Settled' /\ SentIsSettled'
         /\ (\E t \in Trades : SettleTrade(t)) \/ Settled' = Settled
         /\ Len(topic) \in Nat /\ Len(topic') \in Nat /\ Len(topic) <= Len(topic')
         /\ \A i \in 1 .. Len(topic) : topic'[i] = topic[i]
<1>1. /\ topic \in Seq(Trades) /\ batch \in Seq(Trades) /\ (written => batch # <<>>)
      /\ status \in [Trades -> {"NONE", "PENDING", "PROCESSING", "PROCESSED"}]
  BY DEF IInv, FeedShape, InFlight
<1>2. batch # <<>> => /\ Head(batch) \in Members(batch) /\ Head(batch) \in Trades
                      /\ Members(Tail(batch)) \subseteq Members(batch)
  BY <1>1 DEF Members
<1>3. topic' = topic \/ (batch # <<>> /\ topic' = Append(topic, Head(batch)))
  BY <1>1 DEF Feed, FeedNext, Publisher, SettleTrade, ClaimLapses, FetchPending, Write,
     MarkPublished, MarkPublishedFails, WriteFails, GiveUp, WalletCrash, MaybeArrives
<1>4. /\ Len(topic) \in Nat /\ Len(topic') \in Nat /\ Len(topic) <= Len(topic')
      /\ \A i \in 1 .. Len(topic) : topic'[i] = topic[i]
  BY <1>1, <1>2, <1>3
<1>5. Members(topic') \subseteq Members(topic) \cup Members(batch)
  <2>1. CASE topic' = topic
    BY <2>1
  <2>2. CASE batch # <<>> /\ topic' = Append(topic, Head(batch))
    BY <1>1, <1>2, <2>2, AppendMembers
  <2> QED BY <1>3, <2>1, <2>2
<1>6. \/ \E t \in Trades : SettleTrade(t)
      \/ FetchPending
      \/ /\ batch' \in {batch, Tail(batch), <<>>} /\ (batch = <<>> => batch' = batch)
         /\ \/ lapsed' = lapsed
            \/ \E t \in Trades : status[t] # "NONE" /\ lapsed' = lapsed \cup {t}
         /\ \/ status' = status
            \/ batch # <<>> /\ status' = [status EXCEPT ![Head(batch)] = "PROCESSED"]
            \/ status' = ReleaseClaims
  <2>1. CASE \E t \in Trades : ClaimLapses(t)
    BY <2>1 DEF ClaimLapses
  <2>2. CASE Write \/ WriteFails
    BY <2>2 DEF Write, WriteFails
  <2>3. CASE MarkPublished
    BY <1>1, <2>3 DEF MarkPublished, Advance
  <2>4. CASE MarkPublishedFails
    BY <1>1, <2>4 DEF MarkPublishedFails, Advance
  <2>5. CASE GiveUp
    BY <2>5 DEF GiveUp, Stop
  <2>6. CASE WalletCrash
    BY <2>6 DEF WalletCrash, Stop
  <2> QED BY <2>1, <2>2, <2>3, <2>4, <2>5, <2>6 DEF Feed, FeedNext, Publisher
<1>7. Members(topic) \subseteq Settled /\ Members(batch) \subseteq Settled
  BY DEF SentIsSettled
<1>8. CASE \E t \in Trades : SettleTrade(t)
  <2>1. Settled \subseteq Settled' /\ UNCHANGED <<batch, topic, lapsed>>
    BY <1>1, <1>8 DEF SettleTrade, Settled
  <2> QED BY <1>4, <1>7, <1>8, <2>1 DEF SentIsSettled, Members
<1>9. CASE FetchPending
  <2>1. PICK rows : /\ rows \in InOrder(Oldest(Claimable, BatchSize)) /\ batch' = rows
                    /\ status' = [t \in Trades |-> IF t \in Members(rows) THEN "PROCESSING" ELSE status[t]]
    BY <1>9 DEF FetchPending
  <2>2. Members(rows) \subseteq Trades /\ Members(rows) \subseteq Claimable
    BY <2>1 DEF InOrder, Oldest, Claimable
  <2>3. Settled \subseteq Settled' /\ Members(batch') \subseteq Settled'
    BY <2>1, <2>2 DEF Settled
  <2>4. Settled' \subseteq Settled
    <3>1. Claimable \subseteq Settled
      BY DEF Claimable, Settled, SentIsSettled
    <3> QED BY <2>1, <2>2, <3>1 DEF Settled
  <2>5. topic' = topic /\ lapsed' \subseteq lapsed
    BY <1>9 DEF FetchPending
  <2> QED BY <1>4, <1>7, <2>3, <2>4, <2>5 DEF SentIsSettled, Members
<1>10. CASE <1>6!3
  <2>1. Settled' = Settled
    BY <1>1, <1>2, <1>7, <1>10 DEF Settled, ReleaseClaims
  <2>2. Members(batch') \subseteq Members(batch)
    BY <1>2, <1>10 DEF Members
  <2>3. lapsed' \subseteq Settled
    BY <1>10 DEF Settled, SentIsSettled
  <2> QED BY <1>4, <1>5, <1>7, <2>1, <2>2, <2>3 DEF SentIsSettled
<1> QED BY <1>6, <1>8, <1>9, <1>10

\* The consumer's reading turns on what it has handled and on the partition.
LEMMA ReadingStays ==
  ASSUME ReaderOK, ReadInTurn, UNCHANGED <<processed, dlq, passed, next, committed, pc>>,
         Len(topic) \in Nat, Len(topic') \in Nat, Len(topic) <= Len(topic'),
         \A i \in 1 .. Len(topic) : topic'[i] = topic[i]
  PROVE  ReadInTurn'
<1>1. DealtWith' = DealtWith
  BY DEF DealtWith
<1>2. \A i \in 1 .. committed : topic'[i] = topic[i]
  BY DEF ReaderOK
<1>3. \A i \in 1 .. next : topic'[i] = topic[i]
  BY DEF ReaderOK
<1>4. ASSUME NEW t \in processed \cup dlq
      PROVE  \E k \in 1 .. Len(topic') : topic'[k] = t /\ \A i \in 1 .. k - 1 : topic'[i] \in DealtWith
  <2>1. PICK k \in 1 .. Len(topic) : topic[k] = t /\ \A i \in 1 .. k - 1 : topic[i] \in DealtWith
    BY DEF ReadInTurn
  <2>2. k \in 1 .. Len(topic') /\ \A i \in 1 .. k - 1 : i \in 1 .. Len(topic)
    OBVIOUS
  <2> QED BY <2>1, <2>2
<1> QED BY <1>1, <1>2, <1>3, <1>4 DEF ReadInTurn

\* Refused sales stay refused while the consumer does not move.
LEMMA RefusedStay ==
  ASSUME ReaderOK, RefusedAreSales, UNCHANGED <<processed, dlq, next, pc, holding>>,
         Len(topic) \in Nat, \A i \in 1 .. Len(topic) : topic'[i] = topic[i]
  PROVE  RefusedAreSales'
<1>1. pc = "dlq" => cur' = cur
  BY DEF cur, ReaderOK, RefusedAreSales
<1> QED BY <1>1 DEF RefusedAreSales

\* The consumer deals with its message, or is about to put it on the dead-letter topic.
LEMMA TurnTaken ==
  ASSUME ReaderOK, ReadInTurn, Len(topic) \in Nat, next > 0, UNCHANGED <<topic, next, committed>>,
         pc \in {"process", "dlq"}, DealtWith \subseteq DealtWith',
         processed' \cup dlq' \subseteq processed \cup dlq \cup {cur},
         pc' = "dlq" \/ cur \in DealtWith'
  PROVE  ReadInTurn'
<1>1. \A i \in 1 .. committed : topic[i] \in DealtWith'
  BY DEF ReadInTurn
<1>2. \A i \in 1 .. next - 1 : topic[i] \in DealtWith'
  BY DEF ReadInTurn, ReaderOK
<1>3. \A i \in 1 .. next : i < next \/ pc' \in {"fetch", "commit"} => topic[i] \in DealtWith'
  BY <1>2 DEF ReaderOK, cur
<1>4. ASSUME NEW t \in processed' \cup dlq'
      PROVE  \E k \in 1 .. Len(topic) : topic[k] = t /\ \A i \in 1 .. k - 1 : topic[i] \in DealtWith'
  <2>1. CASE t = cur
    BY <1>2, <2>1 DEF cur, ReaderOK
  <2>2. CASE t # cur
    <3>1. PICK k \in 1 .. Len(topic) : topic[k] = t /\ \A i \in 1 .. k - 1 : topic[i] \in DealtWith
      BY <2>2 DEF ReadInTurn
    <3> QED BY <3>1
  <2> QED BY <2>1, <2>2
<1> QED BY <1>1, <1>3, <1>4 DEF ReadInTurn

LEMMA LateStarts == Init => LateInv
<1> SUFFICES ASSUME Init PROVE LateInv
  OBVIOUS
<1>1. Members(topic) = {} /\ Members(batch) = {} /\ lapsed = {} /\ Settled = {}
  BY DEF Init, FeedInit, Members, Settled
<1>2. SentIsSettled /\ NothingOversold
  BY <1>1 DEF SentIsSettled, NothingOversold
<1>3. ReadInTurn /\ RefusedAreSales
  BY DEF Init, ReadInTurn, RefusedAreSales
<1> QED BY <1>2, <1>3 DEF LateInv

LEMMA LateStep == IInv /\ ReaderOK /\ LateInv /\ [Next]_vars => LateInv'
<1> SUFFICES ASSUME IInv, ReaderOK, LateInv, [Next]_vars PROVE LateInv'
  OBVIOUS
<1> USE DEF feedVars, position, consumer, publisher
<1>1. /\ SentIsSettled /\ NothingOversold /\ ReadInTurn /\ RefusedAreSales
      /\ FeedShape /\ topic \in Seq(Trades) /\ Len(topic) \in Nat
  BY DEF LateInv, IInv, FeedShape
<1>2. CASE Feed
  <2>1. /\ SentIsSettled' /\ Len(topic') \in Nat /\ Len(topic) <= Len(topic')
        /\ \A i \in 1 .. Len(topic) : topic'[i] = topic[i]
        /\ (\E t \in Trades : SettleTrade(t)) \/ Settled' = Settled
    BY <1>1, <1>2, FeedGoesOn
  <2>2. UNCHANGED <<processed, dlq, passed, next, committed, pc, holding>>
    BY <1>2 DEF Feed
  <2>3. NothingOversold'
    <3>1. CASE \E t \in Trades : SettleTrade(t)
      BY <1>1, <3>1, CoveredStays
    <3>2. CASE Settled' = Settled
      BY <1>1, <3>2 DEF NothingOversold, SettledTo
    <3> QED BY <2>1, <3>1, <3>2
  <2> QED BY <1>1, <2>1, <2>2, <2>3, ReadingStays, RefusedStay DEF LateInv
<1>3. ASSUME UNCHANGED feedVars PROVE SentIsSettled' /\ NothingOversold'
  <2>1. Settled' = Settled /\ UNCHANGED <<topic, batch, lapsed>>
    BY <1>3 DEF Settled
  <2> QED BY <1>1, <2>1 DEF SentIsSettled, NothingOversold, SettledTo, Members
<1>4. CASE \/ Migrate \/ Crash \/ FetchPendingOutbox \/ WriteOutbox \/ MarkOutboxPublished
           \/ PublishFails \/ UNCHANGED vars \/ \E v \in Versions : OClaimLapses(v)
  <2>1. UNCHANGED <<processed, dlq, passed, next, committed, pc, holding, feedVars>>
    BY <1>4 DEF Migrate, Crash, FetchPendingOutbox, WriteOutbox, MarkOutboxPublished,
       PublishFails, OClaimLapses, vars
  <2>2. topic' = topic
    BY <2>1
  <2> QED BY <1>1, <1>3, <2>1, <2>2, ReadingStays, RefusedStay DEF LateInv
<1>5. CASE Start \/ FetchMessage \/ CommitMessage \/ CommitMessageFails
  <2>1. /\ UNCHANGED <<topic, processed, dlq, passed>> /\ UNCHANGED feedVars
        /\ \/ next' = committed /\ pc' = "fetch" /\ committed' = committed
           \/ next' = next + 1 /\ pc = "fetch" /\ pc' = "process" /\ committed' = committed
           \/ next' = next /\ pc = "commit" /\ pc' = "fetch" /\ committed' \in {next, committed}
    BY <1>5 DEF Start, FetchMessage, CommitMessage, CommitMessageFails
  <2>2. DealtWith' = DealtWith
    BY <2>1 DEF DealtWith
  <2>3. ReadInTurn'
    BY <1>1, <2>1, <2>2 DEF ReadInTurn, ReaderOK
  <2>4. RefusedAreSales'
    BY <1>1, <2>1 DEF RefusedAreSales
  <2> QED BY <1>3, <2>1, <2>3, <2>4 DEF LateInv
<1>6. ASSUME pc = "process" \/ pc = "dlq" PROVE next > 0 /\ cur \in Trades
  BY <1>1, <1>6 DEF ReaderOK, RefusedAreSales, cur
<1>7. ASSUME UNCHANGED <<feedVars, next, committed>>, pc \in {"process", "dlq"},
             processed \subseteq processed', dlq \subseteq dlq', passed \subseteq passed',
             processed' \cup dlq' \subseteq processed \cup dlq \cup {cur},
             pc' = "dlq" \/ cur \in DealtWith',
             dlq' = dlq \/ (dlq' = dlq \cup {cur} /\ Trade[cur].role = "SELL"), pc' = "dlq" => RefusedAreSales'
      PROVE  LateInv'
  <2>1. DealtWith \subseteq DealtWith'
    BY <1>7 DEF DealtWith
  <2>2. UNCHANGED <<topic, next, committed>>
    BY <1>7
  <2>3. ReadInTurn'
    BY <1>1, <1>6, <1>7, <2>1, <2>2, TurnTaken
  <2>4. \A t \in dlq' : Trade[t].role = "SELL"
    BY <1>1, <1>7 DEF RefusedAreSales
  <2>5. RefusedAreSales'
    <3>1. CASE pc' = "dlq"
      BY <1>7, <3>1
    <3>2. CASE pc' # "dlq"
      BY <2>4, <3>2 DEF RefusedAreSales
    <3> QED BY <3>1, <3>2
  <2> QED BY <1>3, <1>7, <2>3, <2>5 DEF LateInv
<1>8. CASE ProcessUserTrade \/ SkipDuplicate
  BY <1>7, <1>8 DEF ProcessUserTrade, SkipDuplicate, Book, DealtWith
<1>9. CASE RefuseTrade
  BY <1>1, <1>6, <1>7, <1>9 DEF RefuseTrade, RefusedAreSales, cur
<1>10. pc = "dlq" => Trade[cur].role = "SELL"
  BY <1>1 DEF RefusedAreSales, CanBook
<1>11. CASE ProcessFails \/ SendToDLQ \/ SendToDLQFails
  BY <1>7, <1>10, <1>11 DEF ProcessFails, SendToDLQ, SendToDLQFails, LeaveBehind, Book, DealtWith
<1> QED BY <1>2, <1>4, <1>5, <1>8, <1>9, <1>11 DEF Next, Consumer, OutboxPublisher

\* A sale that the position does not cover was overtaken, or another was left behind.
LEMMA RefusalHasACause ==
  ASSUME IInv, ReaderOK, LateInv, AccInv, pc = "dlq", seed = "APPLIED", passed = {},
         cur \notin dlq, ~Overtaken
  PROVE  FALSE
<1> DEFINE t == cur
           before == {u \in Settled : u < t}
<1>1. /\ SentIsSettled /\ NothingOversold /\ ReadInTurn /\ RefusedAreSales
      /\ topic \in Seq(Trades) /\ Len(topic) \in Nat /\ next \in 1 .. Len(topic)
      /\ processed \in SUBSET Trades /\ holding \in Holdings
      /\ holding.quantity = Seed.quantity + Total(Gains, processed)
  BY DEF LateInv, IInv, FeedShape, ReaderOK, RefusedAreSales, AccInv, AccountsFor, Base
<1>2. /\ t \in Trades /\ t = topic[next] /\ t \notin processed /\ Trade[t].role = "SELL"
      /\ holding.quantity < Trade[t].quantity
  BY <1>1, TradesAre DEF RefusedAreSales, CanBook, cur, Holdings
<1>3. /\ IsFiniteSet(Trades) /\ Seed.quantity \in Nat
      /\ \A u \in Trades : /\ Gains[u] \in Int /\ u \in Nat
                           /\ Trade[u].role \in {"BUY", "SELL"} /\ Trade[u].quantity \in Nat \ {0}
                           /\ Trade[u].role = "BUY" => Gains[u] >= 0
                           /\ Trade[u].role = "SELL" => Gains[u] <= 0 /\ Gains[u] = -Trade[u].quantity
  BY TradesAre, ConstantsOK DEF Trades, Signed
<1>4. \A i \in 1 .. Len(topic) : topic[i] \in Settled
  BY <1>1 DEF SentIsSettled, Members
<1>5. t \in Settled
  BY <1>1, <1>2, <1>4
<1>6. processed \subseteq before
  <2> SUFFICES ASSUME NEW v \in processed PROVE v \in before
    OBVIOUS
  <2>1. PICK k \in 1 .. Len(topic) : topic[k] = v /\ \A i \in 1 .. k - 1 : topic[i] \in DealtWith
    BY <1>1 DEF ReadInTurn
  <2>2. \A i \in 1 .. k : topic[i] # t
    BY <1>2, <2>1 DEF DealtWith
  <2>3. ~(t < v)
    BY <1>2, <1>5, <2>1, <2>2 DEF Overtaken, Settled
  <2>4. v \in Settled /\ v # t /\ v \in Nat /\ t \in Nat
    BY <1>1, <1>2, <1>3, <1>4, <2>1
  <2> QED BY <2>3, <2>4
<1>7. \A u \in before \ processed : u \in Trades /\ Trade[u].role = "SELL"
  <2> SUFFICES ASSUME NEW u \in before, u \notin processed PROVE u \in Trades /\ Trade[u].role = "SELL"
    OBVIOUS
  <2>1. u \in Trades /\ status[u] # "NONE" /\ u < topic[next] /\ u # t
    BY <1>2, <1>3 DEF Settled
  <2>2. PICK i \in 1 .. next : topic[i] = u
    BY <1>1, <2>1 DEF Overtaken
  <2>3. i < next
    BY <1>1, <1>2, <2>1, <2>2
  <2>4. u \in dlq
    BY <1>1, <2>2, <2>3 DEF ReadInTurn, DealtWith
  <2> QED BY <1>1, <2>1, <2>4 DEF RefusedAreSales
<1>8. before \in SUBSET Trades /\ IsFiniteSet(before) /\ t \notin before /\ SettledTo(t) = before \cup {t}
  BY <1>2, <1>3, <1>5, FS_Subset DEF SettledTo, Settled
<1>9. Seed.quantity + Total(Gains, SettledTo(t)) >= 0
  BY <1>1, <1>2, <1>5 DEF NothingOversold
<1> HIDE DEF before, t
<1>10. Total(Gains, SettledTo(t)) = Total(Gains, before) + Gains[t]
  <2>1. \A y \in before \cup {t} : Gains[y] \in Int
    BY <1>2, <1>3, <1>8
  <2> QED BY <1>8, <2>1, TotalAdd
<1>11. (\A x \in before \ processed : Gains[x] <= 0) /\ \A x \in processed \ before : Gains[x] >= 0
  BY <1>3, <1>6, <1>7
<1>12. Total(Gains, before) <= Total(Gains, processed)
  BY <1>1, <1>3, <1>8, <1>11, TotalGains
<1>13. Total(Gains, before) \in Int /\ Total(Gains, processed) \in Int
  BY <1>1, <1>3, <1>8, TotalInt, FS_Subset
<1>14. Gains[t] = -Trade[t].quantity /\ Trade[t].quantity \in Nat
  BY <1>2, <1>3
<1>15. Seed.quantity + Total(Gains, before) >= Trade[t].quantity
  BY <1>3, <1>9, <1>10, <1>13, <1>14
<1>16. holding.quantity \in Nat /\ holding.quantity >= Trade[t].quantity
  BY <1>1, <1>3, <1>12, <1>13, <1>14, <1>15 DEF Holdings
<1> QED BY <1>2, <1>14, <1>16

\* With the opening position in place, a sale reaches the dead-letter topic only if the feed
\* delivered it after a younger trade or the consumer left another behind: the wallet settles
\* none it does not cover (SettleTrade, ProcessUserTrade, ErrInsufficientHoldings).
THEOREM RefusalsHaveACause == Spec => RefusedOnlyIfLate
<1>1. Init => ReaderOK
  BY DEF Init, FeedInit, ReaderOK
<1>2. Spec => []ReaderOK
  BY <1>1, ReaderStep, Invariance, PTL DEF Spec
<1>3. Spec => []AccInv
  BY <1>2, AccountsBegin, AccountsKept, StepImplements, Invariance, PTL DEF Spec
<1>4. Spec => []LateInv
  BY <1>2, LateStarts, LateStep, Invariance, PTL DEF Spec
<1>5. IInv /\ ReaderOK /\ LateInv /\ AccInv /\ [Next]_vars
        => [dlq' # dlq => seed # "APPLIED" \/ passed # {} \/ Overtaken]_vars
  <2> SUFFICES ASSUME IInv, ReaderOK, LateInv, AccInv, [Next]_vars, dlq' # dlq
               PROVE  seed # "APPLIED" \/ passed # {} \/ Overtaken
    OBVIOUS
  <2>1. SendToDLQ \/ SendToDLQFails
    BY DEF Next, vars, Feed, Consumer, OutboxPublisher, Migrate, Start, Crash, FetchMessage,
       ProcessUserTrade, SkipDuplicate, RefuseTrade, ProcessFails, CommitMessage,
       CommitMessageFails, FetchPendingOutbox, WriteOutbox, MarkOutboxPublished, PublishFails,
       OClaimLapses, consumer
  <2>2. pc = "dlq" /\ dlq' \in {dlq, dlq \cup {cur}}
    BY <2>1 DEF SendToDLQ, SendToDLQFails
  <2>3. cur \notin dlq
    BY <2>2
  <2> QED BY <2>2, <2>3, RefusalHasACause
<1> QED BY <1>2, <1>3, <1>4, <1>5, Invariance, PTL DEF Spec, RefusedOnlyIfLate

-----------------------------------------------------------------------------
(***************************************************************************)
(* Admin.                                                                  *)
(***************************************************************************)
Mades     == {0} \cup {Cardinality(S) + 1 : S \in SUBSET Keys}
Progress  == {"NONE", "PROCESSING", "COMPLETED", "FAILED"}
TaskStates == {"NONE", "PENDING", "RETRYING", "EXHAUSTED", "COMPLETED"}
HandlerSteps == {"none", "insert", "auth", "complete", "redis", "wallet", "done"}
SagaSteps == {"none", "call", "complete", "retry", "exhaust", "fail"}

AdminTyped ==
  /\ plan \in [Keys -> Kinds]
  /\ operations \in [Keys -> [status : Progress, made : Mades]]
  /\ tasks \in [Keys -> [status : TaskStates, attempts : Nat, lock : Sagas \cup {Nobody, Dead}]]
  /\ handlers \in [Handlers -> [key : Keys \cup {Nobody}, at : HandlerSteps]]
  /\ sagas \in [Sagas -> [key : Keys \cup {Nobody}, attempts : Nat, at : SagaSteps]]

\* Only a suspension has a saga task, so that no saga and no auth call completes a
\* wallet operation; and a request about to complete one has the wallet's answer.
OnlySuspensions ==
  /\ \A k \in Keys : tasks[k].status # "NONE" => plan[k] = "SUSPEND_USER"
  /\ \A w \in Sagas : sagas[w].at # "none" => sagas[w].key \in Keys /\ plan[sagas[w].key] = "SUSPEND_USER"

Answered ==
  \A h \in Handlers :
    /\ handlers[h].at # "none" => handlers[h].key \in Keys
    /\ handlers[h].at = "complete" => plan[handlers[h].key] = "SUSPEND_USER"
    /\ handlers[h].at = "done" => handlers[h].key \in took

AdminInv == AdminTyped /\ OnlySuspensions /\ Answered /\ CompletedIsDone

\* The invariant holds at the start.
LEMMA AdminStarts == AdminInit => AdminInv
<1> SUFFICES ASSUME AdminInit PROVE AdminInv
  OBVIOUS
<1>1. plan \in [Keys -> Kinds]
  BY AdminAssumption DEF AdminInit
<1>2. AdminTyped
  BY <1>1 DEF AdminInit, AdminTyped, NoOperation, NoTask, Free, Resting, Mades, Progress,
              TaskStates, HandlerSteps, SagaSteps
<1>3. OnlySuspensions /\ Answered /\ CompletedIsDone
  BY DEF AdminInit, OnlySuspensions, Answered, CompletedIsDone, NoOperation, NoTask, Free, Resting
<1> QED BY <1>2, <1>3 DEF AdminInv

\* An operation that becomes COMPLETED by CompleteAuthSaga is a suspension.
LEMMA SuspensionCompletes ==
  ASSUME AdminInv, NEW k \in Keys, plan[k] = "SUSPEND_USER", CompletesSaga(k), UNCHANGED <<plan, took>>
  PROVE  /\ operations' \in [Keys -> [status : Progress, made : Mades]]
         /\ tasks' \in [Keys -> [status : TaskStates, attempts : Nat, lock : Sagas \cup {Nobody, Dead}]]
         /\ \A j \in Keys : tasks'[j].status # "NONE" => plan'[j] = "SUSPEND_USER"
         /\ CompletedIsDone'
<1> USE DEF AdminInv, AdminTyped, CompletesSaga
<1>1. operations' \in [Keys -> [status : Progress, made : Mades]]
  BY DEF Progress
<1>2. tasks' \in [Keys -> [status : TaskStates, attempts : Nat, lock : Sagas \cup {Nobody, Dead}]]
  BY DEF TaskStates
<1>3. \A j \in Keys : j # k => tasks'[j] = tasks[j] /\ operations'[j] = operations[j]
  OBVIOUS
<1> QED BY <1>1, <1>2, <1>3 DEF OnlySuspensions, CompletedIsDone

\* A request's steps keep it.
LEMMA HandlerKeeps ==
  ASSUME AdminInv, NEW h \in Handlers, HandlerStep(h) \/ \E k \in Keys : Request(h, k)
  PROVE  AdminInv'
<1> USE DEF AdminInv
<1> DEFINE k == handlers[h].key
<1>1. /\ handlers[h] \in [key : Keys \cup {Nobody}, at : HandlerSteps]
      /\ handlers[h].at # "none" => k \in Keys
  BY DEF AdminTyped, Answered
<1>2. \* What a step of the request that writes only its own place must show.
      ASSUME UNCHANGED <<plan, operations, tasks, sagas>>, took \subseteq took',
             NEW j \in Keys \cup {Nobody}, NEW at \in HandlerSteps,
             handlers' = [handlers EXCEPT ![h] = [key |-> j, at |-> at]],
             at # "none" => j \in Keys,
             at = "complete" => plan[j] = "SUSPEND_USER", at = "done" => j \in took'
      PROVE  AdminInv'
  <2>1. AdminTyped'
    BY <1>2 DEF AdminTyped
  <2>2. OnlySuspensions' /\ CompletedIsDone'
    BY <1>2 DEF OnlySuspensions, CompletedIsDone
  <2>3. Answered'
    BY <1>2 DEF Answered, AdminTyped
  <2> QED BY <2>1, <2>2, <2>3
<1>3. ASSUME Leave(h), UNCHANGED <<plan, operations, tasks, sagas>>, took \subseteq took'
      PROVE  AdminInv'
  <2>1. handlers' = [handlers EXCEPT ![h] = [key |-> Nobody, at |-> "none"]]
    BY <1>3 DEF Leave, Free
  <2>2. "none" \in HandlerSteps /\ Nobody \in Keys \cup {Nobody}
    BY DEF HandlerSteps
  <2> QED BY <1>2, <1>3, <2>1, <2>2
<1>4. ASSUME NEW at, Step(h, at) PROVE handlers' = [handlers EXCEPT ![h] = [key |-> k, at |-> at]]
  <2>1. [handlers[h] EXCEPT !.at = at] = [key |-> k, at |-> at]
    BY <1>1
  <2>2. handlers' = [handlers EXCEPT ![h] = [handlers[h] EXCEPT !.at = at]]
    BY <1>4 DEF Step
  <2> QED BY <2>1, <2>2
<1>5. CASE \E j \in Keys : Request(h, j)
  <2>1. PICK j \in Keys : Request(h, j)
    BY <1>5
  <2>2. PICK at \in {"insert", "wallet"} : handlers' = [handlers EXCEPT ![h] = [key |-> j, at |-> at]]
    BY <2>1 DEF Request
  <2>3. UNCHANGED <<plan, operations, tasks, took, sagas>>
    BY <2>1 DEF Request
  <2>4. at \in HandlerSteps /\ j \in Keys \cup {Nobody} /\ at # "complete" /\ at # "done"
    BY DEF HandlerSteps
  <2> QED BY <1>2, <2>2, <2>3, <2>4
<1>6. CASE Insert(h)
  <2>1. k \in Keys /\ UNCHANGED <<plan, took, sagas>>
    BY <1>1, <1>6 DEF Insert
  <2>2. CASE operations[k] # NoOperation
    BY <1>3, <1>6, <2>2 DEF Insert
  <2>3. CASE operations[k] = NoOperation
    <3> DEFINE row == [status |-> InsertedAs(plan[k]), made |-> Made + 1]
               at  == FirstCall[plan[k]]
    <3>1. /\ operations' = [operations EXCEPT ![k] = row]
          /\ tasks' = IF plan[k] = "SUSPEND_USER" THEN [tasks EXCEPT ![k].status = "PENDING"] ELSE tasks
          /\ Step(h, at)
      BY <1>6, <2>3 DEF Insert
    <3>2. Made + 1 \in Mades
      BY DEF Made, Mades
    <3>3. plan[k] \in Kinds
      BY <2>1 DEF AdminTyped
    <3>4. /\ InsertedAs(plan[k]) \in Progress
          /\ plan[k] = "WALLET" => InsertedAs(plan[k]) # "COMPLETED"
      BY <3>3 DEF InsertedAs, Progress
    <3>5. at \in HandlerSteps /\ at # "none" /\ at # "complete" /\ at # "done"
      BY <3>3 DEF FirstCall, HandlerSteps, Kinds
    <3>6. row \in [status : Progress, made : Mades] /\ row.status = InsertedAs(plan[k])
      BY <3>2, <3>4
    <3>7. handlers' = [handlers EXCEPT ![h] = [key |-> k, at |-> at]]
      BY <1>4, <3>1
    <3> HIDE DEF row, at
    <3>8. operations' \in [Keys -> [status : Progress, made : Mades]]
      BY <2>1, <3>1, <3>6 DEF AdminTyped
    <3>9. tasks' \in [Keys -> [status : TaskStates, attempts : Nat, lock : Sagas \cup {Nobody, Dead}]]
      BY <2>1, <3>1 DEF AdminTyped, TaskStates
    <3>10. handlers' \in [Handlers -> [key : Keys \cup {Nobody}, at : HandlerSteps]]
      BY <2>1, <3>5, <3>7 DEF AdminTyped
    <3>11. AdminTyped'
      BY <2>1, <3>8, <3>9, <3>10 DEF AdminTyped
    <3>12. OnlySuspensions'
      BY <2>1, <3>1 DEF OnlySuspensions, AdminTyped
    <3>13. Answered'
      BY <2>1, <3>5, <3>7 DEF Answered, AdminTyped
    <3>14. CompletedIsDone'
      BY <2>1, <3>1, <3>4, <3>6 DEF CompletedIsDone, AdminTyped
    <3> QED BY <3>11, <3>12, <3>13, <3>14
  <2> QED BY <2>2, <2>3
<1>7. CASE CallAuth(h)
  <2>1. /\ k \in Keys /\ UNCHANGED <<plan, operations, tasks, sagas>>
        /\ took \subseteq took'
    BY <1>1, <1>7 DEF CallAuth
  <2>2. Leave(h) \/ Step(h, "redis") \/ (plan[k] = "SUSPEND_USER" /\ Step(h, "complete"))
    BY <1>7 DEF CallAuth
  <2>3. ASSUME NEW at \in {"redis", "complete"}, Step(h, at),
               at = "complete" => plan[k] = "SUSPEND_USER"
        PROVE  AdminInv'
    <3>1. handlers' = [handlers EXCEPT ![h] = [key |-> k, at |-> at]]
      BY <1>4, <2>3
    <3>2. at \in HandlerSteps /\ at # "none" /\ at # "done" /\ k \in Keys \cup {Nobody}
      BY <2>1 DEF HandlerSteps
    <3> HIDE DEF k
    <3> QED BY <1>2, <2>1, <2>3, <3>1, <3>2
  <2> QED BY <1>3, <2>1, <2>2, <2>3
<1>8. CASE CompleteAuthSaga(h)
  <2>1. k \in Keys /\ plan[k] = "SUSPEND_USER" /\ CompletesSaga(k) /\ UNCHANGED <<plan, took, sagas>>
    BY <1>1, <1>8 DEF CompleteAuthSaga, Answered
  <2>2. handlers' = [handlers EXCEPT ![h] = [key |-> k, at |-> "redis"]]
    BY <1>4, <1>8 DEF CompleteAuthSaga
  <2> HIDE DEF k
  <2>3. /\ operations' \in [Keys -> [status : Progress, made : Mades]]
        /\ tasks' \in [Keys -> [status : TaskStates, attempts : Nat, lock : Sagas \cup {Nobody, Dead}]]
        /\ \A j \in Keys : tasks'[j].status # "NONE" => plan'[j] = "SUSPEND_USER"
        /\ CompletedIsDone'
    BY <2>1, SuspensionCompletes
  <2>4. AdminTyped'
    BY <2>1, <2>2, <2>3 DEF AdminTyped, HandlerSteps
  <2>5. OnlySuspensions'
    BY <2>1, <2>3 DEF OnlySuspensions
  <2>6. Answered'
    BY <2>1, <2>2 DEF Answered, AdminTyped
  <2> QED BY <2>3, <2>4, <2>5, <2>6
<1>9. CASE WriteRedis(h)
  BY <1>3, <1>9 DEF WriteRedis
<1>10. CASE CallWallet(h)
  <2>1. /\ k \in Keys /\ UNCHANGED <<plan, tasks, sagas>> /\ took \subseteq took'
    BY <1>1, <1>10 DEF CallWallet
  <2>2. CASE Step(h, "done") /\ k \in took' /\ UNCHANGED operations
    <3>1. handlers' = [handlers EXCEPT ![h] = [key |-> k, at |-> "done"]]
      BY <1>4, <2>2
    <3>2. "done" \in HandlerSteps /\ k \in Keys \cup {Nobody}
      BY <2>1 DEF HandlerSteps
    <3> HIDE DEF k
    <3> QED BY <1>2, <2>1, <2>2, <3>1, <3>2
  <2>3. CASE Leave(h) /\ operations' = [operations EXCEPT ![k].status = "PROCESSING"]
    <3> HIDE DEF k
    <3>1. handlers' = [handlers EXCEPT ![h] = [key |-> Nobody, at |-> "none"]]
      BY <2>3 DEF Leave, Free
    <3>2. AdminTyped'
      BY <2>1, <2>3, <3>1 DEF AdminTyped, HandlerSteps, Progress
    <3>3. OnlySuspensions'
      BY <2>1 DEF OnlySuspensions
    <3>4. Answered'
      BY <2>1, <3>1 DEF Answered, AdminTyped
    <3>5. CompletedIsDone'
      BY <2>1, <2>3 DEF CompletedIsDone, AdminTyped
    <3> QED BY <3>2, <3>3, <3>4, <3>5
  <2> QED BY <1>10, <2>2, <2>3 DEF CallWallet
<1>11. CASE FinishWallet(h)
  <2>1. /\ k \in Keys /\ k \in took /\ UNCHANGED <<plan, tasks, took, sagas>> /\ Leave(h)
        /\ operations' = [operations EXCEPT ![k].status = "COMPLETED"]
    BY <1>1, <1>11 DEF FinishWallet, Answered
  <2> HIDE DEF k
  <2>2. handlers' = [handlers EXCEPT ![h] = [key |-> Nobody, at |-> "none"]]
    BY <2>1 DEF Leave, Free
  <2>3. AdminTyped'
    BY <2>1, <2>2 DEF AdminTyped, HandlerSteps, Progress
  <2>4. OnlySuspensions'
    BY <2>1 DEF OnlySuspensions
  <2>5. Answered'
    BY <2>1, <2>2 DEF Answered, AdminTyped
  <2>6. CompletedIsDone'
    BY <2>1 DEF CompletedIsDone, AdminTyped
  <2> QED BY <2>3, <2>4, <2>5, <2>6
<1>12. CASE RequestDies(h)
  BY <1>3, <1>12 DEF RequestDies
<1> QED BY <1>5, <1>6, <1>7, <1>8, <1>9, <1>10, <1>11, <1>12 DEF HandlerStep

\* So do a saga worker's.
LEMMA SagaKeeps ==
  ASSUME AdminInv, NEW w \in Sagas,
         SagaStep(w) \/ SagaWorkerDies(w) \/ \E k \in Keys : FetchDue(w, k)
  PROVE  AdminInv'
<1> USE DEF AdminInv
<1> DEFINE k == sagas[w].key
<1>1. /\ sagas[w] \in [key : Keys \cup {Nobody}, attempts : Nat, at : SagaSteps]
      /\ sagas[w].at # "none" => k \in Keys /\ plan[k] = "SUSPEND_USER"
  BY DEF AdminTyped, OnlySuspensions
<1>2. UNCHANGED <<plan, took, handlers>>
  BY DEF SagaStep, SagaWorkerDies, FetchDue, Invalidates, SagaCompletes, UpdateRetry, MarkExhausted, FailOperation
<1>3. Answered'
  BY <1>2 DEF Answered
<1> DEFINE OperationsOK == operations' \in [Keys -> [status : Progress, made : Mades]] /\ CompletedIsDone'
<1> DEFINE TasksOK ==
      /\ tasks' \in [Keys -> [status : TaskStates, attempts : Nat, lock : Sagas \cup {Nobody, Dead}]]
      /\ \A j \in Keys : tasks'[j].status # "NONE" => plan[j] = "SUSPEND_USER"
<1> DEFINE SagasOK ==
      /\ sagas' \in [Sagas -> [key : Keys \cup {Nobody}, attempts : Nat, at : SagaSteps]]
      /\ \A v \in Sagas : sagas'[v].at # "none" => sagas'[v].key \in Keys /\ plan[sagas'[v].key] = "SUSPEND_USER"
<1>4. OperationsOK /\ TasksOK /\ SagasOK => AdminInv'
  BY <1>2, <1>3 DEF AdminTyped, OnlySuspensions
<1>5. UNCHANGED operations => OperationsOK
  BY <1>2 DEF AdminTyped, CompletedIsDone
<1>6. UNCHANGED tasks => TasksOK
  BY DEF AdminTyped, OnlySuspensions
<1>7. sagas' = [sagas EXCEPT ![w] = Resting] => SagasOK
  <2>1. Resting \in [key : Keys \cup {Nobody}, attempts : Nat, at : SagaSteps] /\ Resting.at = "none"
    BY DEF Resting, SagaSteps
  <2> QED BY <2>1 DEF AdminTyped, OnlySuspensions
<1>8. ASSUME NEW at \in SagaSteps, sagas[w].at # "none", sagas' = [sagas EXCEPT ![w].at = at] PROVE SagasOK
  BY <1>8 DEF AdminTyped, OnlySuspensions
<1>9. ASSUME NEW j \in Keys, FetchDue(w, j) PROVE AdminInv'
  <2>1. plan[j] = "SUSPEND_USER"
    BY <1>9 DEF FetchDue, Due, OnlySuspensions
  <2>2. TasksOK
    BY <1>9 DEF FetchDue, AdminTyped, OnlySuspensions
  <2>3. SagasOK
    BY <1>9, <2>1 DEF FetchDue, AdminTyped, OnlySuspensions, SagaSteps
  <2> QED BY <1>4, <1>5, <1>9, <2>2, <2>3 DEF FetchDue
<1>10. CASE SagaWorkerDies(w)
  <2>1. TasksOK
    BY <1>10 DEF SagaWorkerDies, AdminTyped, OnlySuspensions
  <2> QED BY <1>4, <1>5, <1>7, <1>10, <2>1 DEF SagaWorkerDies
<1>11. CASE Invalidates(w)
  <2>1. PICK at \in {"complete", "retry", "exhaust"} : sagas' = [sagas EXCEPT ![w].at = at]
    BY <1>11 DEF Invalidates
  <2>2. SagasOK
    BY <1>8, <1>11, <2>1 DEF Invalidates, SagaSteps
  <2> QED BY <1>4, <1>5, <1>6, <1>11, <2>2 DEF Invalidates
<1>12. CASE SagaCompletes(w)
  <2>1. k \in Keys /\ plan[k] = "SUSPEND_USER" /\ CompletesSaga(k)
    BY <1>1, <1>12 DEF SagaCompletes
  <2>2. OperationsOK /\ TasksOK
    <3> HIDE DEF k
    <3> QED BY <1>2, <2>1, SuspensionCompletes
  <2> QED BY <1>4, <1>7, <1>12, <2>2 DEF SagaCompletes
<1>13. CASE UpdateRetry(w)
  <2>1. TasksOK
    BY <1>1, <1>13 DEF UpdateRetry, AdminTyped, OnlySuspensions, TaskStates
  <2> QED BY <1>4, <1>5, <1>7, <1>13, <2>1 DEF UpdateRetry
<1>14. CASE MarkExhausted(w)
  <2>1. TasksOK
    <3>1. k \in Keys /\ plan[k] = "SUSPEND_USER"
      BY <1>1, <1>14 DEF MarkExhausted
    <3>2. CASE tasks' = [tasks EXCEPT ![k].status = "EXHAUSTED", ![k].lock = Nobody]
      <4> HIDE DEF k
      <4>1. tasks' \in [Keys -> [status : TaskStates, attempts : Nat, lock : Sagas \cup {Nobody, Dead}]]
        BY <3>1, <3>2 DEF AdminTyped, TaskStates
      <4>2. \A j \in Keys : j # k => tasks'[j] = tasks[j]
        BY <3>1, <3>2 DEF AdminTyped
      <4> QED BY <3>1, <4>1, <4>2 DEF OnlySuspensions
    <3> QED BY <1>6, <1>14, <3>2 DEF MarkExhausted
  <2>2. SagasOK
    BY <1>7, <1>8, <1>14 DEF MarkExhausted, SagaSteps
  <2> QED BY <1>4, <1>5, <1>14, <2>1, <2>2 DEF MarkExhausted
<1>15. CASE FailOperation(w)
  <2>1. k \in Keys /\ operations' = [operations EXCEPT ![k].status = "FAILED"]
    BY <1>1, <1>15 DEF FailOperation
  <2>2. OperationsOK
    <3> HIDE DEF k
    <3> QED BY <1>2, <2>1 DEF AdminTyped, CompletedIsDone, Progress
  <2> QED BY <1>4, <1>6, <1>7, <1>15, <2>2 DEF FailOperation
<1> QED BY <1>9, <1>10, <1>11, <1>12, <1>13, <1>14, <1>15 DEF SagaStep

\* However many requests carry its key, are answered, fail or die, and whatever the
\* sagas do, a wallet operation says COMPLETED only after the wallet service has carried
\* it out (executeWalletMutation).
THEOREM WalletOperationsHappen == AdminSpec => []CompletedIsDone
<1>1. AdminInv /\ [AdminNext]_adminVars => AdminInv'
  <2> SUFFICES ASSUME AdminInv, [AdminNext]_adminVars PROVE AdminInv'
    OBVIOUS
  <2>1. ASSUME UNCHANGED <<plan, operations, tasks, took, handlers, sagas>> PROVE AdminInv'
    BY <2>1 DEF AdminInv, AdminTyped, OnlySuspensions, Answered, CompletedIsDone
  <2>2. CASE \E h \in Handlers : HandlerStep(h) \/ \E k \in Keys : Request(h, k)
    BY <2>2, HandlerKeeps
  <2>3. CASE \E w \in Sagas : SagaStep(w) \/ SagaWorkerDies(w) \/ \E k \in Keys : FetchDue(w, k)
    BY <2>3, SagaKeeps
  <2>4. ASSUME NEW k \in Keys, LeaseExpires(k) PROVE AdminInv'
    <3>1. /\ tasks' \in [Keys -> [status : TaskStates, attempts : Nat, lock : Sagas \cup {Nobody, Dead}]]
          /\ \A j \in Keys : tasks'[j].status = tasks[j].status
      BY <2>4 DEF LeaseExpires, AdminInv, AdminTyped
    <3> QED BY <2>4, <3>1 DEF LeaseExpires, AdminInv, AdminTyped, OnlySuspensions, Answered, CompletedIsDone
  <2>5. CASE ReconcilerStep \/ PassEnds \/ RedisForgets
    BY <2>1, <2>5 DEF ReconcilerStep, ReadsMarkets, ScansMarkets, HealsMarkets, ReadsUsers, ScansUsers,
                      HealsUsers, PassEnds, RedisForgets
  <2>6. CASE UNCHANGED adminVars
    BY <2>1, <2>6 DEF adminVars
  <2> QED BY <2>2, <2>3, <2>4, <2>5, <2>6 DEF AdminNext
<1>2. AdminInv => CompletedIsDone
  BY DEF AdminInv
<1> QED BY <1>1, <1>2, AdminStarts, PTL DEF AdminSpec

-----------------------------------------------------------------------------
(***************************************************************************)
(* MarketData.                                                             *)
(***************************************************************************)
Executed == ToSet(ExecutedTrades)
Starts   == {StartTime(t, d) : t \in Executed, d \in Resolutions}
Candles  == [resolution : Resolutions, start : Starts, open : Nat, high : Nat, low : Nat, close : Nat,
             volume : Int, openAt : Nat, closeAt : Nat]

\* What the trades of the topic trade, each by itself.
Amounts == [t \in Executed |-> t.quantity]

\* What CandlesAreTrades says of one candle, for the trades of its interval.
Shows(c, S) ==
  /\ S # {} /\ c.volume = Total(Amounts, S)
  /\ \A r \in S : /\ c.openAt <= r.time /\ r.time <= c.closeAt
                  /\ c.low <= r.price /\ r.price <= c.high
  /\ \E r \in S : r.time = c.openAt /\ r.price = c.open
  /\ \E r \in S : r.time = c.closeAt /\ r.price = c.close
  /\ \E r \in S : r.price = c.low
  /\ \E r \in S : r.price = c.high

MarketTyped ==
  /\ given \in Nat /\ acknowledged \in Nat
  /\ marketTrades \subseteq Executed /\ IsFiniteSet(marketTrades)
  /\ candles \subseteq Candles

EachShows  == \A c \in candles : Shows(c, In(c))
AllShown   == \A r \in marketTrades : \A d \in Resolutions : \E c \in candles : c.resolution = d /\ Touched(c, r)
MarketInv  == MarketTyped /\ EachShows /\ AllShown

\* A trade of the topic has a time, a price and a quantity.
LEMMA TradeType ==
  ASSUME NEW t \in Executed
  PROVE  t.time \in Nat /\ t.price \in Nat /\ t.quantity \in Nat
<1>1. PICK i \in DOMAIN ExecutedTrades : t = ExecutedTrades[i]
  BY DEF Executed, ToSet
<1> QED BY <1>1, MarketDataAssumption

\* The sum in CandlesAreTrades.
LEMMA VolumeOf ==
  ASSUME NEW S \in SUBSET Executed, IsFiniteSet(S)
  PROVE  FoldFunction(+, 0, [r \in S |-> r.quantity]) = Total(Amounts, S)
<1> DEFINE f == [r \in S |-> r.quantity]
<1>1. DOMAIN f = S /\ \A r \in S : f[r] = Amounts[r]
  BY DEF Amounts
<1> HIDE DEF f
<1>2. FoldFunction(+, 0, f) = FoldFunctionOnSet(+, 0, f, S)
  BY <1>1 DEF FoldFunction
<1>3. FoldFunctionOnSet(+, 0, f, S) = Total(f, S)
  BY FoldedIs
<1>4. Total(f, S) = Total(Amounts, S)
  BY <1>1, TotalAgree
<1> QED BY <1>2, <1>3, <1>4 DEF f

\* The candle of a first trade shows that trade.
LEMMA OpenedShows ==
  ASSUME NEW t \in Executed, NEW d \in Resolutions
  PROVE  /\ Opened_(t, d) \in Candles /\ Shows(Opened_(t, d), {t})
         /\ Opened_(t, d).resolution = d /\ Opened_(t, d).start = StartTime(t, d)
<1>1. t.time \in Nat /\ t.price \in Nat /\ t.quantity \in Nat
  BY TradeType
<1>2. StartTime(t, d) \in Starts
  BY DEF Starts
<1>3. Amounts[t] = t.quantity
  BY DEF Amounts
<1>4. Total(Amounts, {t}) = t.quantity
  BY <1>1, <1>3, TotalOne
<1> DEFINE start == StartTime(t, d)
<1>5. Opened_(t, d) = [resolution |-> d, start |-> start, open |-> t.price, high |-> t.price, low |-> t.price,
                       close |-> t.price, volume |-> t.quantity, openAt |-> t.time, closeAt |-> t.time]
  BY DEF Opened_
<1> HIDE DEF start
<1>6. Opened_(t, d) \in Candles
  BY <1>1, <1>2, <1>5 DEF Candles, start
<1>7. Shows(Opened_(t, d), {t})
  BY <1>1, <1>4, <1>5 DEF Shows
<1> QED BY <1>5, <1>6, <1>7 DEF start

\* A candle brought up to date with one more trade shows that trade too, wherever it
\* falls among the others.
LEMMA UpsertedShows ==
  ASSUME NEW c \in Candles, NEW S \in SUBSET Executed, IsFiniteSet(S), Shows(c, S),
         NEW t \in Executed, t \notin S
  PROVE  /\ Upserted(c, t) \in Candles /\ Shows(Upserted(c, t), S \cup {t})
         /\ Upserted(c, t).resolution = c.resolution /\ Upserted(c, t).start = c.start
<1> DEFINE u == Upserted(c, t)
<1>1. t.time \in Nat /\ t.price \in Nat /\ t.quantity \in Nat
  BY TradeType
<1>2. \A r \in S : r.time \in Nat /\ r.price \in Nat
  BY TradeType
<1>3. /\ c.open \in Nat /\ c.high \in Nat /\ c.low \in Nat /\ c.close \in Nat
      /\ c.volume \in Int /\ c.openAt \in Nat /\ c.closeAt \in Nat
      /\ c.resolution \in Resolutions /\ c.start \in Starts
  BY DEF Candles
<1> DEFINE open    == IF t.time < c.openAt THEN t.price ELSE c.open
           openAt  == IF t.time < c.openAt THEN t.time ELSE c.openAt
           high    == IF t.price > c.high THEN t.price ELSE c.high
           low     == IF t.price < c.low THEN t.price ELSE c.low
           close   == IF t.time >= c.closeAt THEN t.price ELSE c.close
           closeAt == IF t.time > c.closeAt THEN t.time ELSE c.closeAt
           volume  == c.volume + t.quantity
<1>4. u = [resolution |-> c.resolution, start |-> c.start, open |-> open, high |-> high, low |-> low,
           close |-> close, volume |-> volume, openAt |-> openAt, closeAt |-> closeAt]
  <2>1. u = [c EXCEPT !.open = open, !.openAt = openAt, !.high = high, !.low = low,
                      !.close = close, !.closeAt = closeAt, !.volume = volume]
    BY Zenon DEF Upserted
  <2> HIDE DEF u, open, openAt, high, low, close, closeAt, volume
  <2> QED BY <2>1 DEF Candles
<1> HIDE DEF u
<1>5. u \in Candles
  BY <1>1, <1>3, <1>4 DEF Candles
<1>6. u.volume = Total(Amounts, S \cup {t})
  <2>1. \A y \in S \cup {t} : Amounts[y] \in Int
    BY TradeType DEF Amounts
  <2>2. Total(Amounts, S \cup {t}) = Total(Amounts, S) + Amounts[t]
    BY <2>1, TotalAdd
  <2>3. Amounts[t] = t.quantity
    BY DEF Amounts
  <2> QED BY <1>4, <2>2, <2>3 DEF Shows
<1>7. ASSUME NEW r \in S \cup {t}
      PROVE  /\ u.openAt <= r.time /\ r.time <= u.closeAt
             /\ u.low <= r.price /\ r.price <= u.high
  <2>1. CASE r = t
    BY <1>1, <1>3, <1>4, <2>1
  <2>2. CASE r \in S
    <3>1. /\ c.openAt <= r.time /\ r.time <= c.closeAt /\ c.low <= r.price /\ r.price <= c.high
          /\ r.time \in Nat /\ r.price \in Nat
      BY <1>2, <2>2 DEF Shows
    <3> QED BY <1>1, <1>3, <1>4, <3>1
  <2> QED BY <2>1, <2>2
<1>8. \E r \in S \cup {t} : r.time = u.openAt /\ r.price = u.open
  BY <1>1, <1>3, <1>4 DEF Shows
<1>9. \E r \in S \cup {t} : r.time = u.closeAt /\ r.price = u.close
  <2>1. PICK r \in S : r.time = c.closeAt /\ r.price = c.close
    BY DEF Shows
  <2> QED BY <1>1, <1>2, <1>3, <1>4, <2>1
<1>10. (\E r \in S \cup {t} : r.price = u.low) /\ (\E r \in S \cup {t} : r.price = u.high)
  BY <1>1, <1>3, <1>4 DEF Shows
<1>11. Shows(u, S \cup {t})
  BY <1>6, <1>7, <1>8, <1>9, <1>10 DEF Shows
<1> QED BY <1>4, <1>5, <1>11 DEF u

\* The rollup of a trade that was not stored.
LEMMA RollupKeeps ==
  ASSUME MarketInv, given' \in Nat, acknowledged' \in Nat, NEW t \in Executed, t \notin marketTrades,
         marketTrades' = marketTrades \cup {t}, candles' = RolledUp(t)
  PROVE  MarketInv'
<1> USE DEF MarketInv
<1>1. \A c \in candles : /\ In(c) \in SUBSET Executed /\ IsFiniteSet(In(c)) /\ t \notin In(c)
                         /\ c \in Candles /\ Shows(c, In(c))
  <2>1. \A c \in candles : In(c) \subseteq marketTrades
    BY DEF In
  <2> QED BY <2>1, FS_Subset DEF MarketTyped, EachShows
<1>2. \A c \in candles : LET u == Upserted(c, t)
                         IN /\ u \in Candles /\ Shows(u, In(c) \cup {t})
                            /\ u.resolution = c.resolution /\ u.start = c.start
  BY <1>1, UpsertedShows
<1>3. \A d \in Resolutions : /\ Opened_(t, d) \in Candles /\ Shows(Opened_(t, d), {t})
                             /\ Opened_(t, d).resolution = d /\ Opened_(t, d).start = StartTime(t, d)
  BY OpenedShows
<1>4. marketTrades' \subseteq Executed /\ IsFiniteSet(marketTrades')
  BY FS_AddElement DEF MarketTyped
<1>5. ASSUME NEW c \in candles'
      PROVE  c \in Candles /\ Shows(c, {r \in marketTrades' : Touched(c, r)})
  <2>1. CASE \E b \in candles : Touched(b, t) /\ c = Upserted(b, t)
    <3>1. PICK b \in candles : Touched(b, t) /\ c = Upserted(b, t)
      BY <2>1
    <3>2. c \in Candles /\ Shows(c, In(b) \cup {t}) /\ c.resolution = b.resolution /\ c.start = b.start
      BY <1>2, <3>1
    <3>3. {r \in marketTrades' : Touched(c, r)} = In(b) \cup {t}
      BY <3>1, <3>2 DEF In, Touched
    <3> QED BY <3>2, <3>3
  <2>2. CASE c \in candles /\ ~Touched(c, t)
    <3>1. {r \in marketTrades' : Touched(c, r)} = In(c)
      BY <2>2 DEF In
    <3> QED BY <1>1, <2>2, <3>1
  <2>3. CASE \E d \in Resolutions : c = Opened_(t, d) /\ ~\E b \in candles : b.resolution = d /\ Touched(b, t)
    <3>1. PICK d \in Resolutions : c = Opened_(t, d) /\ ~\E b \in candles : b.resolution = d /\ Touched(b, t)
      BY <2>3
    <3>2. c \in Candles /\ Shows(c, {t}) /\ c.resolution = d /\ c.start = StartTime(t, d)
      BY <1>3, <3>1
    <3>3. ASSUME NEW r \in marketTrades PROVE ~Touched(c, r)
      <4>1. PICK b \in candles : b.resolution = d /\ Touched(b, r)
        BY DEF AllShown
      <4>2. ~Touched(b, t)
        BY <3>1, <4>1
      <4> QED BY <3>2, <4>1, <4>2 DEF Touched
    <3>4. {r \in marketTrades' : Touched(c, r)} = {t}
      BY <3>2, <3>3 DEF Touched
    <3> QED BY <3>2, <3>4
  <2> QED BY <2>1, <2>2, <2>3 DEF RolledUp
<1>6. EachShows'
  BY <1>5 DEF EachShows, In, Touched
<1>7. ASSUME NEW r \in marketTrades', NEW d \in Resolutions
      PROVE  \E c \in candles' : c.resolution = d /\ Touched(c, r)
  <2>1. ASSUME NEW b \in candles, b.resolution = d, Touched(b, r)
        PROVE  \E c \in candles' : c.resolution = d /\ Touched(c, r)
    <3>1. CASE Touched(b, t)
      <4>1. Upserted(b, t) \in candles'
        BY <3>1 DEF RolledUp
      <4> QED BY <1>2, <2>1, <4>1 DEF Touched
    <3>2. CASE ~Touched(b, t)
      <4>1. b \in candles'
        BY <3>2 DEF RolledUp
      <4> QED BY <2>1, <4>1
    <3> QED BY <3>1, <3>2
  <2>2. CASE r \in marketTrades
    BY <2>1, <2>2 DEF AllShown
  <2>3. CASE r = t /\ \E b \in candles : b.resolution = d /\ Touched(b, t)
    BY <2>1, <2>3
  <2>4. CASE r = t /\ ~\E b \in candles : b.resolution = d /\ Touched(b, t)
    <3>1. Opened_(t, d) \in candles'
      BY <2>4 DEF RolledUp
    <3> QED BY <1>3, <2>4, <3>1 DEF Touched
  <2> QED BY <2>2, <2>3, <2>4
<1>8. AllShown'
  BY <1>7 DEF AllShown, Touched
<1>9. MarketTyped'
  BY <1>4, <1>5 DEF MarketTyped
<1> QED BY <1>6, <1>8, <1>9

\* In whatever order the trades of the topic are delivered, left behind by a failed
\* transaction and delivered again, the stored candles are those of the stored trades
\* (ProcessTrade and its upsert).
THEOREM CandlesFaithful == MarketDataFairSpec => []CandlesAreTrades
<1>1. MarketDataInit => MarketInv
  BY FS_EmptySet DEF MarketDataInit, MarketInv, MarketTyped, EachShows, AllShown
<1>2. MarketInv /\ [MarketDataNext]_marketVars => MarketInv'
  <2> SUFFICES ASSUME MarketInv, [MarketDataNext]_marketVars PROVE MarketInv'
    OBVIOUS
  <2>1. ASSUME UNCHANGED <<marketTrades, candles>>, given' \in Nat, acknowledged' \in Nat PROVE MarketInv'
    BY <2>1 DEF MarketInv, MarketTyped, EachShows, AllShown, In, Touched
  <2>2. given \in Nat /\ acknowledged \in Nat
    BY DEF MarketInv, MarketTyped
  <2>3. CASE ProcessTrade
    <3>1. Trade_ \in Executed
      <4>1. given + 1 \in 1 .. Len(ExecutedTrades)
        BY <2>2, <2>3, MarketDataAssumption DEF ProcessTrade
      <4>2. given + 1 \in DOMAIN ExecutedTrades
        BY <4>1, MarketDataAssumption
      <4> QED BY <4>2 DEF Executed, ToSet, Trade_
    <3>2. given' \in Nat /\ acknowledged' \in Nat
      BY <2>2, <2>3 DEF ProcessTrade
    <3>3. CASE UNCHANGED <<marketTrades, candles>>
      BY <2>1, <3>2, <3>3
    <3>4. CASE /\ ~\E r \in marketTrades : r.id = Trade_.id
               /\ marketTrades' = marketTrades \cup {Trade_} /\ candles' = RolledUp(Trade_)
      <4> DEFINE t == Trade_
      <4>1. t \notin marketTrades /\ marketTrades' = marketTrades \cup {t} /\ candles' = RolledUp(t)
        BY <3>4
      <4> QED BY <3>1, <3>2, <4>1, RollupKeeps
    <3> QED BY <2>3, <3>3, <3>4 DEF ProcessTrade
  <2>4. CASE CommitOffset \/ MarketRestarts
    BY <2>1, <2>2, <2>4 DEF CommitOffset, MarketRestarts
  <2>5. CASE ClockTicks \/ UNCHANGED marketVars \/ \E w \in {"consumer", "refresher"} : ReadTicker(w) \/ SetTicker(w)
    BY <2>1, <2>2, <2>5 DEF ClockTicks, ReadTicker, SetTicker, marketVars
  <2> QED BY <2>3, <2>4, <2>5 DEF MarketDataNext, ConsumesTrades, RefreshAllTickers
<1>3. MarketInv => CandlesAreTrades
  <2> SUFFICES ASSUME MarketInv PROVE CandlesAreTrades
    OBVIOUS
  <2>1. ASSUME NEW c \in candles
        PROVE  /\ In(c) # {} /\ c.volume = FoldFunction(+, 0, [r \in In(c) |-> r.quantity])
               /\ \A r \in In(c) : r.time \in c.openAt..c.closeAt /\ r.price \in c.low..c.high
               /\ \A end \in {<<c.openAt, c.open>>, <<c.closeAt, c.close>>} : \E r \in In(c) : <<r.time, r.price>> = end
               /\ {c.low, c.high} \subseteq {r.price : r \in In(c)}
    <3>1. Shows(c, In(c)) /\ In(c) \in SUBSET Executed /\ IsFiniteSet(In(c)) /\ c \in Candles
      <4>1. In(c) \subseteq marketTrades
        BY DEF In
      <4> QED BY <4>1, FS_Subset DEF MarketInv, MarketTyped, EachShows
    <3>2. c.volume = FoldFunction(+, 0, [r \in In(c) |-> r.quantity])
      BY <3>1, VolumeOf DEF Shows
    <3>3. \A r \in In(c) : r.time \in Nat /\ r.price \in Nat
      BY <3>1, TradeType
    <3>4. \A r \in In(c) : r.time \in c.openAt..c.closeAt /\ r.price \in c.low..c.high
      BY <3>1, <3>3 DEF Shows, Candles
    <3> QED BY <3>1, <3>2, <3>4 DEF Shows
  <2> QED BY <2>1 DEF CandlesAreTrades, MarketInv, AllShown
<1> QED BY <1>1, <1>2, <1>3, PTL DEF MarketDataFairSpec
-----------------------------------------------------------------------------
(***************************************************************************)
(* Notification.                                                           *)
(***************************************************************************)
\* SetToSeq lists each element of a finite set once.
LEMMA SetToSeqIs ==
  ASSUME NEW S, IsFiniteSet(S)
  PROVE  /\ SetToSeq(S) \in [1..Cardinality(S) -> S]
         /\ \A i, j \in 1..Cardinality(S) : SetToSeq(S)[i] = SetToSeq(S)[j] => i = j
         /\ \A x \in S : \E i \in 1..Cardinality(S) : SetToSeq(S)[i] = x
<1> DEFINE n == Cardinality(S)
           f == SetToSeq(S)
<1>1. n \in Nat /\ ExistsBijection(1..n, S)
  BY FS_CardinalityType
<1>2. IsFiniteSet(1..n) /\ Cardinality(1..n) = n
  BY <1>1, FS_Interval
<1>3. PICK g \in [1..n -> S] : IsInjective(g)
  BY <1>1 DEF ExistsBijection, Bijection, Injection, IsInjective
<1>4. f \in [1..n -> S] /\ IsInjective(f)
  BY <1>3 DEF SetToSeq
<1>5. f \in Injection(1..n, S)
  BY <1>4 DEF Injection
<1>6. f \in Surjection(1..n, S)
  <2> HIDE DEF n, f
  <2> QED
  BY <1>2, <1>5, FS_Injection DEF n
<1> QED
  BY <1>4, <1>6 DEF IsInjective, Surjection

\* What a sequence has become when the elements of a finite set have been appended.
IsAppended(s, S, r) ==
  /\ Len(s) <= Len(r)
  /\ \A i \in 1..Len(s) : r[i] = s[i]
  /\ \A i \in (Len(s) + 1)..Len(r) : r[i] \in S
  /\ \A i, j \in (Len(s) + 1)..Len(r) : r[i] = r[j] => i = j
  /\ \A x \in S : \E i \in (Len(s) + 1)..Len(r) : r[i] = x

LEMMA Appending ==
  ASSUME NEW T, NEW s \in Seq(T), NEW S \in SUBSET T, IsFiniteSet(S)
  PROVE  s \o SetToSeq(S) \in Seq(T) /\ IsAppended(s, S, s \o SetToSeq(S))
<1> DEFINE n == Cardinality(S)
           f == SetToSeq(S)
           r == s \o f
<1>1. n \in Nat
  BY FS_CardinalityType
<1>2. /\ f \in [1..n -> S]
      /\ \A i, j \in 1..n : f[i] = f[j] => i = j
      /\ \A x \in S : \E i \in 1..n : f[i] = x
  BY SetToSeqIs
<1> HIDE DEF f, n
<1>3. f \in Seq(T) /\ Len(f) = n
  BY <1>1, <1>2
<1>4. r \in Seq(T) /\ Len(r) = Len(s) + n
  BY <1>1, <1>3
<1>5. \A i \in 1..Len(s) : r[i] = s[i]
  BY <1>1, <1>3
<1>6. \A i \in (Len(s) + 1)..Len(r) : i - Len(s) \in 1..n /\ r[i] = f[i - Len(s)]
  BY <1>1, <1>3, <1>4
<1>7. \A j \in 1..n : j + Len(s) \in (Len(s) + 1)..Len(r) /\ r[j + Len(s)] = f[j]
  BY <1>1, <1>3, <1>4
<1>8. Len(s) \in Nat
  OBVIOUS
<1> HIDE DEF r
<1>9. \A i, j \in (Len(s) + 1)..Len(r) : r[i] = r[j] => i = j
  BY <1>2, <1>4, <1>6, <1>8
<1>10. \A x \in S : \E i \in (Len(s) + 1)..Len(r) : r[i] = x
  BY <1>2, <1>7
<1>11. \A i \in (Len(s) + 1)..Len(r) : r[i] \in S
  BY <1>2, <1>6
<1>12. Len(s) <= Len(r)
  BY <1>1, <1>4, <1>8
<1> QED
  BY <1>4, <1>5, <1>9, <1>10, <1>11, <1>12 DEF IsAppended, r, f

\* What the topics and the callers name, and the rows of the two tables.
Told     == {e \in DOMAIN Kind : Kind[e] # "call"}
CallKeys    == {k \in DOMAIN Kind : Kind[k] = "call"}
Persons  == UNION {Parties[e] : e \in DOMAIN Kind}
NoteRows   == [source : DOMAIN Kind, user : Persons]
OutboxRows == [source : DOMAIN Kind, user : Persons, status : {"PENDING", "PROCESSING", "PROCESSED"},
               owner : Publishers \cup {NoPublisher}, stale : BOOLEAN]

\* The tables of the service hold rows of their kinds, the topics do not change, and a
\* reader is at the message that follows the committed offset.
NotificationTyped ==
  /\ log \in Logs /\ calls = Calls[log]
  /\ inbox \in Seq(NoteRows) /\ outbox \in Seq(OutboxRows)
  /\ handledEvents \subseteq [event : DOMAIN Kind, note : Nat]
  /\ DOMAIN answers = calls
  /\ offset \in [Topics -> Nat]
  /\ reader \in [Topics -> [next : Nat, handled : BOOLEAN]]
  /\ \A t \in Topics : reader[t].next = offset[t] + 1 /\ offset[t] <= Len(log[t])

\* Rows are stored with the mark of their event, one for each of its parties and no more.
For(s, e, u) == {n \in DOMAIN s : s[n].source = e /\ s[n].user = u}
Once(s) ==
  \A e \in DOMAIN Kind : Kind[e] # "portfolio" => \A u \in Parties[e] :
    /\ \A i, j \in For(s, e, u) : i = j
    /\ Processed(e) <=> For(s, e, u) # {}

\* What has been done with a message when its offset may be committed.
Dealt(t, i) ==
  IF Kind[log[t][i]] = "bad" THEN <<t, i>> \in letters
  ELSE \A u \in Parties[log[t][i]] : For(outbox, log[t][i], u) # {}

MessagesDealt ==
  \A t \in Topics : /\ \A i \in 1..offset[t] : Dealt(t, i)
                    /\ reader[t].handled => reader[t].next <= Len(log[t]) /\ Dealt(t, reader[t].next)

\* A key has one row, which names the notification that was stored with it.
KeysNamed ==
  /\ \A r1, r2 \in handledEvents : r1.event = r2.event => r1 = r2
  /\ \A row \in handledEvents : row.event \in CallKeys =>
       row.note \in DOMAIN inbox /\ inbox[row.note].source = row.event
  /\ \A k \in calls : \A n \in answers[k] : \E row \in handledEvents : row.event = k /\ row.note = n

NInv == NotificationTyped /\ Once(inbox) /\ Once(outbox) /\ MessagesDealt /\ KeysNamed

\* The topics hold events and never keys.
LEMMA TopicsHold ==
  ASSUME NEW t \in Topics, log \in Logs
  PROVE  log[t] \in Seq(Told) /\ Calls[log] \subseteq CallKeys
BY NotificationAssumption DEF Told, CallKeys

\* NotifiedOnce counts what the invariant says of single rows.
LEMMA NotifiedOnceFollows == ASSUME NInv PROVE NotifiedOnce
<1> USE DEF NInv, NotificationTyped
<1>1. ASSUME NEW e \in DOMAIN Kind, Kind[e] # "portfolio", NEW u \in Parties[e]
      PROVE  Cardinality(Notes(e, u)) <= 1 /\ Cardinality(Staging(e, u)) = Cardinality(Notes(e, u))
  <2> DEFINE N == For(inbox, e, u)
             O == For(outbox, e, u)
  <2>1. N = Notes(e, u) /\ O = Staging(e, u)
    BY DEF Notes, Staging, For
  <2>2. (\A i, j \in N : i = j) /\ (Processed(e) <=> N # {})
    BY <1>1 DEF Once
  <2>3. (\A i, j \in O : i = j) /\ (Processed(e) <=> O # {})
    BY <1>1 DEF Once
  <2> HIDE DEF N, O, NInv, NotificationTyped
  <2>4. CASE N = {}
    BY <2>1, <2>2, <2>3, <2>4, FS_EmptySet
  <2>5. CASE N # {}
    <3>1. PICK n \in N : TRUE
      BY <2>5
    <3>2. PICK m \in O : TRUE
      BY <2>2, <2>3, <2>5
    <3>3. N = {n} /\ O = {m}
      BY <2>2, <2>3
    <3>4. Cardinality(N) = 1 /\ Cardinality(O) = 1
      BY <3>3, FS_Singleton
    <3> QED
      BY <2>1, <3>4
  <2> QED
    BY <2>4, <2>5
<1>2. ASSUME NEW t \in Topics, NEW i \in 1..offset[t]
      PROVE  IF Kind[log[t][i]] = "bad" THEN <<t, i>> \in letters
             ELSE \A u \in Parties[log[t][i]] : Staging(log[t][i], u) # {}
  BY <1>2 DEF MessagesDealt, Dealt, For, Staging
<1>3. ASSUME NEW k \in calls, NEW n \in answers[k]
      PROVE  n \in DOMAIN inbox /\ inbox[n].source = k /\ answers[k] = {n}
  <2>1. PICK row \in handledEvents : row.event = k /\ row.note = n
    BY <1>3 DEF KeysNamed
  <2>2. k \in CallKeys
    BY NotificationAssumption DEF CallKeys
  <2>3. n \in DOMAIN inbox /\ inbox[n].source = k
    BY <2>1, <2>2 DEF KeysNamed
  <2>4. ASSUME NEW m \in answers[k] PROVE m = n
    <3>1. PICK other \in handledEvents : other.event = k /\ other.note = m
      BY <1>3, <2>4 DEF KeysNamed
    <3> QED
      BY <2>1, <3>1 DEF KeysNamed
  <2> QED
    BY <1>3, <2>3, <2>4
<1> HIDE DEF NInv, NotificationTyped
<1> QED
  BY <1>1, <1>2, <1>3 DEF NotifiedOnce

\* The rows S, one of event e for each user in U, have been appended to s.
RowsAdded(s, S, r, e, U) ==
  /\ Len(s) \in Nat /\ Len(r) \in Nat /\ DOMAIN s = 1..Len(s) /\ DOMAIN r = 1..Len(r)
  /\ IsAppended(s, S, r)
  /\ \A x \in S : x.source = e /\ x.user \in U
  /\ \A x, y \in S : x.user = y.user => x = y
  /\ \A u \in U : \E x \in S : x.user = u

\* What a transaction does to the rows of a table.
GainsRows(s, r, e, U) ==
  /\ \A f, u : f # e => For(r, f, u) = For(s, f, u)
  /\ \A f, u : For(s, f, u) \subseteq For(r, f, u)
  /\ \A u \in U : For(r, e, u) # {}
  /\ \A u \in U : For(s, e, u) = {} => \A i, j \in For(r, e, u) : i = j

LEMMA AppendedFor ==
  ASSUME NEW s, NEW S, NEW r, NEW e, NEW U, RowsAdded(s, S, r, e, U)
  PROVE  GainsRows(s, r, e, U)
<1> USE DEF RowsAdded
<1>1. /\ Len(s) <= Len(r)
      /\ \A i \in 1..Len(s) : r[i] = s[i]
      /\ \A i \in (Len(s) + 1)..Len(r) : r[i] \in S
      /\ \A i, j \in (Len(s) + 1)..Len(r) : r[i] = r[j] => i = j
      /\ \A x \in S : \E i \in (Len(s) + 1)..Len(r) : r[i] = x
  BY DEF IsAppended
<1>2. \A i \in 1..Len(r) : i \in 1..Len(s) \/ i \in (Len(s) + 1)..Len(r)
  BY <1>1
<1>3. \A i \in 1..Len(s) : i \in 1..Len(r)
  BY <1>1
<1>4. \A i \in (Len(s) + 1)..Len(r) : i \in 1..Len(r)
  OBVIOUS
<1>5. \A f, u : For(s, f, u) \subseteq For(r, f, u)
  BY <1>1, <1>3 DEF For
<1>6. ASSUME NEW f, NEW u, f # e PROVE For(r, f, u) = For(s, f, u)
  BY <1>1, <1>2, <1>5, <1>6 DEF For
<1>7. ASSUME NEW u \in U PROVE For(r, e, u) # {}
  <2>1. PICK x \in S : x.user = u
    OBVIOUS
  <2>2. PICK i \in (Len(s) + 1)..Len(r) : r[i] = x
    BY <1>1
  <2> QED
    BY <1>4, <2>1, <2>2 DEF For
<1>8. ASSUME NEW u \in U, For(s, e, u) = {}, NEW i \in For(r, e, u), NEW j \in For(r, e, u) PROVE i = j
  <2>1. \A k \in For(r, e, u) : k \in 1..Len(r) /\ r[k].source = e /\ r[k].user = u
    BY DEF For
  <2>2. \A k \in For(r, e, u) : k \notin 1..Len(s)
    BY <1>1, <1>8, <2>1 DEF For
  <2>3. i \in (Len(s) + 1)..Len(r) /\ j \in (Len(s) + 1)..Len(r)
    BY <1>2, <2>1, <2>2
  <2>4. r[i] \in S /\ r[j] \in S /\ r[i].user = r[j].user
    BY <1>1, <2>1, <2>3
  <2> QED
    BY <1>1, <2>3, <2>4
<1> HIDE DEF RowsAdded
<1> QED
  BY <1>5, <1>6, <1>7, <1>8 DEF GainsRows

\* A transaction stores a notification and a row of the outbox for each party of its event.
StoredFor(e) == outbox' \in Seq(OutboxRows) /\ GainsRows(outbox, outbox', e, Parties[e])
NotedFor(e)  ==
  /\ inbox' \in Seq(NoteRows) /\ GainsRows(inbox, inbox', e, Parties[e])
  /\ \A n \in DOMAIN inbox : n \in DOMAIN inbox' /\ inbox'[n] = inbox[n]
  /\ Parties[e] # {} => Len(inbox) + 1 \in DOMAIN inbox' /\ inbox'[Len(inbox) + 1].source = e

LEMMA ImageFinite ==
  ASSUME NEW U, IsFiniteSet(U), NEW g, DOMAIN g = U
  PROVE  IsFiniteSet({g[u] : u \in U})
<1> DEFINE I == {g[u] : u \in U}
<1>2. [u \in U |-> g[u]] \in Surjection(U, I)
  BY DEF Surjection
<1> HIDE DEF I
<1>3. IsFiniteSet(I)
  BY <1>2, FS_Surjection
<1> QED
  BY <1>3 DEF I

LEMMA Staging_Stores ==
  ASSUME NotificationTyped, NEW e \in DOMAIN Kind, Staged(e, Parties[e])
  PROVE  StoredFor(e) /\ (Kind[e] # "portfolio" => NotedFor(e)) /\ (Kind[e] = "portfolio" => inbox' = inbox)
<1> DEFINE U    == Parties[e]
           Row(u)  == [source |-> e, user |-> u, status |-> "PENDING", owner |-> NoPublisher, stale |-> FALSE]
           Note(u) == [source |-> e, user |-> u]
           R    == {Row(u) : u \in U}
           N    == {Note(u) : u \in U}
<1>1. IsFiniteSet(U) /\ U \subseteq Persons
  BY NotificationAssumption DEF Persons
<1>2. IsFiniteSet(R) /\ IsFiniteSet(N)
  <2> DEFINE rows  == [v \in U |-> Row(v)]
             notes == [v \in U |-> Note(v)]
  <2>1. DOMAIN rows = U /\ DOMAIN notes = U
    OBVIOUS
  <2>2. R = {rows[u] : u \in U} /\ N = {notes[u] : u \in U}
    OBVIOUS
  <2> HIDE DEF rows, notes, U, R, N
  <2>3. IsFiniteSet({rows[u] : u \in U})
    BY <1>1, <2>1, ImageFinite
  <2>4. IsFiniteSet({notes[u] : u \in U})
    BY <1>1, <2>1, ImageFinite
  <2> QED
    BY <2>2, <2>3, <2>4
<1>3. R \in SUBSET OutboxRows
  <2>1. ASSUME NEW u \in U PROVE Row(u) \in OutboxRows
    <3>1. u \in Persons /\ FALSE \in BOOLEAN /\ NoPublisher \in Publishers \cup {NoPublisher}
      BY <1>1
    <3> QED
      BY <3>1 DEF OutboxRows
  <2> HIDE DEF Row
  <2> QED
    BY <2>1
<1>4. N \in SUBSET NoteRows
  BY <1>1 DEF NoteRows
<1>5. /\ \A x \in R : x.source = e /\ x.user \in U
      /\ \A x, y \in R : x.user = y.user => x = y
      /\ \A u \in U : \E x \in R : x.user = u
  <2>1. \A u : Row(u).source = e /\ Row(u).user = u
    OBVIOUS
  <2> HIDE DEF Row, U
  <2>2. ASSUME NEW x \in R PROVE \E u \in U : x = Row(u)
    OBVIOUS
  <2>3. ASSUME NEW u \in U PROVE Row(u) \in R
    OBVIOUS
  <2> HIDE DEF R
  <2>4. \A x \in R : x.source = e /\ x.user \in U /\ x = Row(x.user)
    BY <2>1, <2>2
  <2>5. \A u \in U : \E x \in R : x.user = u
    BY <2>1, <2>3
  <2> QED
    BY <2>4, <2>5
<1>6. /\ \A x \in N : x.source = e /\ x.user \in U
      /\ \A x, y \in N : x.user = y.user => x = y
      /\ \A u \in U : \E x \in N : x.user = u
  <2>1. \A u : Note(u).source = e /\ Note(u).user = u
    OBVIOUS
  <2> HIDE DEF Note
  <2> QED
    BY <2>1
<1>7. outbox' = outbox \o SetToSeq(R) /\ inbox' = IF Kind[e] = "portfolio" THEN inbox ELSE inbox \o SetToSeq(N)
  BY DEF Staged
<1>8. outbox \in Seq(OutboxRows) /\ inbox \in Seq(NoteRows)
  BY DEF NotificationTyped
<1> HIDE DEF R, N
<1>9. StoredFor(e)
  <2>1. outbox' \in Seq(OutboxRows) /\ IsAppended(outbox, R, outbox')
    BY <1>2, <1>3, <1>7, <1>8, Appending
  <2>2. /\ Len(outbox) \in Nat /\ Len(outbox') \in Nat
        /\ DOMAIN outbox = 1..Len(outbox) /\ DOMAIN outbox' = 1..Len(outbox')
    BY <1>8, <2>1
  <2>3. GainsRows(outbox, outbox', e, U)
    <3>1. RowsAdded(outbox, R, outbox', e, U)
      BY <1>5, <2>1, <2>2 DEF RowsAdded
    <3> QED
      BY <3>1, AppendedFor
  <2> QED
    BY <2>1, <2>3 DEF StoredFor
<1>10. ASSUME Kind[e] # "portfolio" PROVE NotedFor(e)
  <2>0. inbox' = inbox \o SetToSeq(N)
    BY <1>7, <1>10
  <2>1. inbox' \in Seq(NoteRows) /\ IsAppended(inbox, N, inbox')
    BY <1>2, <1>4, <2>0, <1>8, Appending
  <2>2. /\ Len(inbox) \in Nat /\ Len(inbox') \in Nat
        /\ DOMAIN inbox = 1..Len(inbox) /\ DOMAIN inbox' = 1..Len(inbox')
    BY <1>8, <2>1
  <2>3. GainsRows(inbox, inbox', e, U)
    <3>1. RowsAdded(inbox, N, inbox', e, U)
      BY <1>6, <2>1, <2>2 DEF RowsAdded
    <3> QED
      BY <3>1, AppendedFor
  <2>4. \A n \in DOMAIN inbox : n \in DOMAIN inbox' /\ inbox'[n] = inbox[n]
    BY <2>1, <2>2 DEF IsAppended
  <2>5. ASSUME U # {} PROVE Len(inbox) + 1 \in DOMAIN inbox' /\ inbox'[Len(inbox) + 1].source = e
    <3>1. PICK x \in N : TRUE
      BY <1>6, <2>5
    <3>2. PICK i \in (Len(inbox) + 1)..Len(inbox') : inbox'[i] = x
      BY <2>1 DEF IsAppended
    <3>3. Len(inbox) + 1 \in (Len(inbox) + 1)..Len(inbox')
      BY <2>2, <3>2
    <3>4. inbox'[Len(inbox) + 1] \in N
      BY <2>1, <3>3 DEF IsAppended
    <3> QED
      BY <1>6, <2>2, <3>3, <3>4
  <2> QED
    BY <2>1, <2>3, <2>4, <2>5 DEF NotedFor
<1> QED
  BY <1>7, <1>9, <1>10

\* What has been dealt with stays so while rows and letters are only added.
LEMMA DealtStays ==
  ASSUME log' = log, letters \subseteq letters', \A f, u : For(outbox, f, u) \subseteq For(outbox', f, u),
         NEW t, NEW i, Dealt(t, i)
  PROVE  Dealt(t, i)'
BY DEF Dealt

\* The first transaction for an event stores what its parties are to have.
LEMMA FirstStores ==
  ASSUME NInv, NEW e \in DOMAIN Kind, Kind[e] # "portfolio", ~Processed(e), NEW n,
         handledEvents' = handledEvents \cup {[event |-> e, note |-> n]},
         GainsRows(inbox, inbox', e, Parties[e]), GainsRows(outbox, outbox', e, Parties[e])
  PROVE  Once(inbox)' /\ Once(outbox)'
<1>1. \A f : Processed(f)' <=> (Processed(f) \/ f = e)
  <2>1. \A row : row \in handledEvents' <=> (row \in handledEvents \/ row = [event |-> e, note |-> n])
    OBVIOUS
  <2>2. [event |-> e, note |-> n].event = e
    OBVIOUS
  <2> QED
    BY <2>1, <2>2 DEF Processed
<1>2. Once(inbox) /\ Once(outbox)
  BY DEF NInv
<1>3. ASSUME NEW f \in DOMAIN Kind, Kind[f] # "portfolio", NEW u \in Parties[f]
      PROVE  (\A i, j \in For(inbox', f, u) : i = j) /\ (Processed(f)' <=> For(inbox', f, u) # {})
  <2>1. (\A i, j \in For(inbox, f, u) : i = j) /\ (Processed(f) <=> For(inbox, f, u) # {})
    BY <1>2, <1>3 DEF Once
  <2>2. CASE f # e
    BY <1>1, <2>1, <2>2 DEF GainsRows
  <2>3. CASE f = e
    BY <1>1, <2>1, <2>3 DEF GainsRows
  <2> QED
    BY <2>2, <2>3
<1>4. ASSUME NEW f \in DOMAIN Kind, Kind[f] # "portfolio", NEW u \in Parties[f]
      PROVE  (\A i, j \in For(outbox', f, u) : i = j) /\ (Processed(f)' <=> For(outbox', f, u) # {})
  <2>1. (\A i, j \in For(outbox, f, u) : i = j) /\ (Processed(f) <=> For(outbox, f, u) # {})
    BY <1>2, <1>4 DEF Once
  <2>2. CASE f # e
    BY <1>1, <2>1, <2>2 DEF GainsRows
  <2>3. CASE f = e
    BY <1>1, <2>1, <2>3 DEF GainsRows
  <2> QED
    BY <2>2, <2>3
<1> QED
  BY <1>3, <1>4 DEF Once

\* The row of an event is stored once, and that of a key names a notification of its own.
LEMMA FirstNames ==
  ASSUME NInv, NEW e \in DOMAIN Kind, ~Processed(e), NEW n,
         handledEvents' = handledEvents \cup {[event |-> e, note |-> n]},
         NotedFor(e), e \in CallKeys => n = Len(inbox) + 1 /\ Parties[e] # {}
  PROVE  /\ \A r1, r2 \in handledEvents' : r1.event = r2.event => r1 = r2
         /\ \A row \in handledEvents' : row.event \in CallKeys =>
              row.note \in DOMAIN inbox' /\ inbox'[row.note].source = row.event
<1> DEFINE new == [event |-> e, note |-> n]
<1>1. new.event = e /\ new.note = n
  OBVIOUS
<1>2. handledEvents' = handledEvents \cup {new}
  OBVIOUS
<1> HIDE DEF new
<1>3. \A row \in handledEvents : row.event # e
  BY DEF Processed
<1>4. KeysNamed
  BY DEF NInv
<1>5. \A m \in DOMAIN inbox : m \in DOMAIN inbox' /\ inbox'[m] = inbox[m]
  BY DEF NotedFor
<1>6. e \in CallKeys => n \in DOMAIN inbox' /\ inbox'[n].source = e
  BY DEF NotedFor
<1>7. \A r1, r2 \in handledEvents' : r1.event = r2.event => r1 = r2
  BY <1>1, <1>2, <1>3, <1>4 DEF KeysNamed
<1>8. ASSUME NEW row \in handledEvents', row.event \in CallKeys
      PROVE  row.note \in DOMAIN inbox' /\ inbox'[row.note].source = row.event
  <2>1. CASE row \in handledEvents
    BY <1>4, <1>5, <1>8, <2>1 DEF KeysNamed
  <2>2. CASE row = new
    BY <1>1, <1>6, <1>8, <2>2
  <2> QED
    BY <1>2, <2>1, <2>2
<1> QED
  BY <1>7, <1>8

\* The consumers handle a message, and then commit it.
LEMMA HandlingKeeps ==
  ASSUME NInv, NEW t \in Topics, UNCHANGED <<log, calls, answers, offset>>,
         handlePoison(t) \/ HandleWithDedup(t) \/ AlreadyProcessed(t) \/ HandlePortfolioUpdated(t)
  PROVE  NInv'
<1> DEFINE e == Message(t)
<1>0. /\ NotificationTyped /\ Once(inbox) /\ Once(outbox) /\ MessagesDealt /\ KeysNamed
      /\ log \in Logs /\ Fetched(t) /\ Handled(t)
  BY DEF NInv, NotificationTyped, handlePoison, HandleWithDedup, AlreadyProcessed, HandlePortfolioUpdated
<1>1. /\ e \in DOMAIN Kind /\ Kind[e] # "call" /\ reader[t].next \in 1..Len(log[t])
      /\ log[t][reader[t].next] = e
  <2>1. log[t] \in Seq(Told)
    BY <1>0, TopicsHold
  <2>2. reader[t].next = offset[t] + 1 /\ offset[t] \in Nat /\ reader[t].next <= Len(log[t])
    BY <1>0 DEF NotificationTyped, Fetched, Next_
  <2>3. reader[t].next \in 1..Len(log[t])
    BY <2>1, <2>2
  <2>4. log[t][reader[t].next] \in Told
    BY <2>1, <2>3
  <2> QED
    BY <2>3, <2>4 DEF Told, Message, Next_
<1>2. /\ reader' \in [Topics -> [next : Nat, handled : BOOLEAN]]
      /\ \A s \in Topics : reader'[s].next = reader[s].next
      /\ \A s \in Topics : s # t => reader'[s].handled = reader[s].handled
  <2>1. reader \in [Topics -> [next : Nat, handled : BOOLEAN]] /\ reader' = [reader EXCEPT ![t].handled = TRUE]
    BY <1>0 DEF NotificationTyped, Handled
  <2>2. reader[t] \in [next : Nat, handled : BOOLEAN]
    BY <2>1
  <2>3. reader'[t] = [next |-> reader[t].next, handled |-> TRUE]
    BY <2>1, <2>2
  <2>4. reader'[t] \in [next : Nat, handled : BOOLEAN] /\ reader'[t].next = reader[t].next
    BY <2>2, <2>3
  <2>5. \A s \in Topics : s # t => reader'[s] = reader[s]
    BY <2>1
  <2>6. DOMAIN reader' = Topics /\ reader' = [s \in Topics |-> reader'[s]]
    BY <2>1
  <2>7. \A s \in Topics : reader'[s] \in [next : Nat, handled : BOOLEAN]
    BY <2>1, <2>4, <2>5
  <2> QED
    BY <2>4, <2>5, <2>6, <2>7
\* Enough to show of what is stored and dead-lettered.
<1> DEFINE Goal ==
      /\ inbox' \in Seq(NoteRows) /\ outbox' \in Seq(OutboxRows)
      /\ handledEvents' \subseteq [event : DOMAIN Kind, note : Nat]
      /\ Once(inbox)' /\ Once(outbox)'
      /\ letters \subseteq letters' /\ \A f, u : For(outbox, f, u) \subseteq For(outbox', f, u)
      /\ Dealt(t, reader[t].next)'
      /\ \A r1, r2 \in handledEvents' : r1.event = r2.event => r1 = r2
      /\ \A row \in handledEvents' : row.event \in CallKeys =>
           row.note \in DOMAIN inbox' /\ inbox'[row.note].source = row.event
      /\ handledEvents \subseteq handledEvents'
<1> HIDE DEF e, Goal
<1>3. ASSUME Goal PROVE NInv'
  <2>1. NotificationTyped'
    BY <1>0, <1>2, <1>3 DEF Goal, NotificationTyped
  <2>2. MessagesDealt'
    <3>1. \A s \in Topics : \A i \in 1..offset[s] : Dealt(s, i)'
      BY <1>0, <1>3, DealtStays DEF Goal, MessagesDealt
    <3>2. ASSUME NEW s \in Topics, reader'[s].handled
          PROVE  reader'[s].next <= Len(log[s]) /\ Dealt(s, reader[s].next)'
      <4>1. CASE s = t
        BY <1>1, <1>2, <1>3, <4>1 DEF Goal
      <4>2. CASE s # t
        <5>1. reader[s].handled /\ reader'[s].next = reader[s].next
          BY <1>2, <3>2, <4>2
        <5>2. reader[s].next <= Len(log[s]) /\ Dealt(s, reader[s].next)
          BY <1>0, <5>1 DEF MessagesDealt
        <5>3. Dealt(s, reader[s].next)'
          <6>1. PICK i : i = reader[s].next
            OBVIOUS
          <6>2. Dealt(s, i)'
            BY <1>3, <5>2, <6>1, DealtStays DEF Goal
          <6> QED
            BY <6>1, <6>2, <1>2 DEF Dealt
        <5> QED
          BY <5>1, <5>2, <5>3
      <4> QED
        BY <4>1, <4>2
    <3> QED
      BY <1>2, <3>1, <3>2 DEF MessagesDealt
  <2>3. KeysNamed'
    BY <1>0, <1>3 DEF Goal, KeysNamed
  <2> QED
    BY <1>3, <2>1, <2>2, <2>3 DEF Goal, NInv
<1>4. Dealt(t, reader[t].next)' <=> (IF Kind[e] = "bad" THEN <<t, reader[t].next>> \in letters'
                                     ELSE \A u \in Parties[e] : For(outbox', e, u) # {})
  BY <1>1, <1>2 DEF Dealt
<1>5. /\ inbox \in Seq(NoteRows) /\ outbox \in Seq(OutboxRows)
      /\ handledEvents \subseteq [event : DOMAIN Kind, note : Nat]
      /\ \A r1, r2 \in handledEvents : r1.event = r2.event => r1 = r2
      /\ \A row \in handledEvents : row.event \in CallKeys =>
           row.note \in DOMAIN inbox /\ inbox[row.note].source = row.event
  BY <1>0 DEF NotificationTyped, KeysNamed
<1>6. ASSUME handlePoison(t) PROVE NInv'
  <2>1. /\ Kind[e] = "bad" /\ letters' = letters \cup {<<t, reader[t].next>>}
        /\ UNCHANGED <<handledEvents, inbox, outbox>>
    BY <1>6 DEF handlePoison, e, Next_
  <2>2. Once(inbox)' /\ Once(outbox)'
    BY <1>0, <2>1 DEF Once, Processed
  <2>3. Goal
    BY <1>4, <1>5, <2>1, <2>2 DEF Goal
  <2> QED
    BY <1>3, <2>3
<1>7. ASSUME AlreadyProcessed(t) PROVE NInv'
  <2>1. Kind[e] \in {"trade", "cancel"} /\ Processed(e) /\ UNCHANGED <<handledEvents, inbox, outbox, letters>>
    BY <1>7 DEF AlreadyProcessed, e
  <2>2. Once(inbox)' /\ Once(outbox)'
    BY <1>0, <2>1 DEF Once, Processed
  <2>3. \A u \in Parties[e] : For(outbox', e, u) # {}
    BY <1>0, <1>1, <2>1 DEF Once
  <2>4. Goal
    BY <1>4, <1>5, <2>1, <2>2, <2>3 DEF Goal
  <2> QED
    BY <1>3, <2>4
<1>8. ASSUME HandleWithDedup(t) PROVE NInv'
  <2> DEFINE n == IF Kind[e] = "cancel" THEN Len(inbox) + 1 ELSE 0
  <2>1. /\ Kind[e] \in {"trade", "cancel"} /\ ~Processed(e) /\ Staged(e, Parties[e]) /\ letters' = letters
        /\ handledEvents' = handledEvents \cup {[event |-> e, note |-> n]}
    BY <1>8 DEF HandleWithDedup, e
  <2>2. StoredFor(e) /\ NotedFor(e)
    BY <1>0, <1>1, <2>1, Staging_Stores
  <2>3. n \in Nat
    BY <1>5
  <2> HIDE DEF n
  <2>4. Once(inbox)' /\ Once(outbox)'
    BY <1>1, <2>1, <2>2, FirstStores DEF StoredFor, NotedFor
  <2>5. e \notin CallKeys
    BY <1>1 DEF CallKeys
  <2>6. /\ \A r1, r2 \in handledEvents' : r1.event = r2.event => r1 = r2
        /\ \A row \in handledEvents' : row.event \in CallKeys =>
             row.note \in DOMAIN inbox' /\ inbox'[row.note].source = row.event
    BY <1>1, <2>1, <2>2, <2>5, FirstNames
  <2>7. handledEvents' \subseteq [event : DOMAIN Kind, note : Nat]
    BY <1>1, <1>5, <2>1, <2>3
  <2>8. (\A u \in Parties[e] : For(outbox', e, u) # {}) /\ (\A f, u : For(outbox, f, u) \subseteq For(outbox', f, u))
    BY <2>2 DEF StoredFor, GainsRows
  <2>9. Goal
    BY <1>4, <2>1, <2>2, <2>4, <2>6, <2>7, <2>8 DEF Goal, StoredFor, NotedFor
  <2> QED
    BY <1>3, <2>9
<1>9. ASSUME HandlePortfolioUpdated(t) PROVE NInv'
  <2>1. Kind[e] = "portfolio" /\ Staged(e, Parties[e]) /\ UNCHANGED <<handledEvents, letters>>
    BY <1>9 DEF HandlePortfolioUpdated, e
  <2>2. StoredFor(e) /\ inbox' = inbox
    BY <1>0, <1>1, <2>1, Staging_Stores
  <2>3. GainsRows(outbox, outbox', e, Parties[e])
    BY <2>2 DEF StoredFor
  <2>4. \A f \in DOMAIN Kind : Kind[f] # "portfolio" => \A u : For(outbox', f, u) = For(outbox, f, u)
    BY <2>1, <2>3 DEF GainsRows
  <2>5. Once(inbox)' /\ Once(outbox)'
    BY <1>0, <2>1, <2>2, <2>4 DEF Once, Processed
  <2>6. (\A u \in Parties[e] : For(outbox', e, u) # {}) /\ (\A f, u : For(outbox, f, u) \subseteq For(outbox', f, u))
    BY <2>3 DEF GainsRows
  <2>7. Goal
    BY <1>4, <1>5, <2>1, <2>2, <2>5, <2>6 DEF Goal, StoredFor
  <2> QED
    BY <1>3, <2>7
<1> QED
  BY <1>6, <1>7, <1>8, <1>9

\* A commit moves the offset past a message that has been dealt with.
LEMMA CommittingKeeps ==
  ASSUME NInv, NEW t \in Topics, CommitMessages(t),
         UNCHANGED <<log, calls, answers, handledEvents, inbox, outbox, letters>>
  PROVE  NInv'
<1>0. NotificationTyped /\ Once(inbox) /\ Once(outbox) /\ MessagesDealt /\ KeysNamed
  BY DEF NInv
<1>1. /\ reader \in [Topics -> [next : Nat, handled : BOOLEAN]] /\ offset \in [Topics -> Nat]
      /\ \A s \in Topics : reader[s].next = offset[s] + 1 /\ offset[s] <= Len(log[s])
  BY <1>0 DEF NotificationTyped
<1> DEFINE n == reader[t].next
<1>2. /\ reader[t].handled /\ n <= Len(log[t])
      /\ offset' = [offset EXCEPT ![t] = n]
      /\ reader' = [reader EXCEPT ![t] = [next |-> n + 1, handled |-> FALSE]]
  BY DEF CommitMessages, Commits, Next_
<1>3. n \in Nat /\ n = offset[t] + 1 /\ Dealt(t, n)
  BY <1>0, <1>1, <1>2 DEF MessagesDealt
<1> HIDE DEF n
<1>4. offset' \in [Topics -> Nat] /\ offset'[t] = n /\ \A s \in Topics : s # t => offset'[s] = offset[s]
  BY <1>1, <1>2, <1>3
<1>5. /\ reader'[t] = [next |-> n + 1, handled |-> FALSE]
      /\ \A s \in Topics : s # t => reader'[s] = reader[s]
      /\ reader' \in [Topics -> [next : Nat, handled : BOOLEAN]]
  <2>1. [next |-> n + 1, handled |-> FALSE] \in [next : Nat, handled : BOOLEAN]
    BY <1>3
  <2> QED
    BY <1>1, <1>2, <2>1
<1>6. reader'[t].next = n + 1 /\ reader'[t].handled = FALSE
  BY <1>5
<1>7. \A s \in Topics : reader'[s].next = offset'[s] + 1 /\ offset'[s] <= Len(log[s])
  BY <1>1, <1>2, <1>4, <1>5, <1>6
<1>8. NotificationTyped'
  BY <1>0, <1>4, <1>5, <1>7 DEF NotificationTyped
<1>9. \A s, i : Dealt(s, i) => Dealt(s, i)'
  BY DealtStays
<1>10. \A s \in Topics : \A i \in 1..offset'[s] : Dealt(s, i)
  <2>1. \A i \in 1..n : i \in 1..offset[t] \/ i = n
    BY <1>1, <1>3
  <2> QED
    BY <1>0, <1>3, <1>4, <2>1 DEF MessagesDealt
<1>11. ASSUME NEW s \in Topics, reader'[s].handled
       PROVE  reader'[s].next <= Len(log[s]) /\ Dealt(s, reader[s].next)'
  <2>1. s # t /\ reader'[s] = reader[s]
    BY <1>5, <1>6, <1>11
  <2>2. reader[s].next <= Len(log[s]) /\ Dealt(s, reader[s].next)
    BY <1>0, <1>11, <2>1 DEF MessagesDealt
  <2> QED
    BY <2>1, <2>2 DEF Dealt
<1>12. MessagesDealt'
  BY <1>9, <1>10, <1>11 DEF MessagesDealt
<1>13. Once(inbox)' /\ Once(outbox)' /\ KeysNamed'
  BY <1>0 DEF Once, Processed, KeysNamed
<1> QED
  BY <1>8, <1>12, <1>13 DEF NInv

\* A call stores a notification with the first use of its key, and otherwise looks it up.
LEMMA CallKeeps ==
  ASSUME NInv, NEW k \in calls, CreateNotification(k)
  PROVE  NInv'
<1>0. /\ NotificationTyped /\ Once(inbox) /\ Once(outbox) /\ MessagesDealt /\ KeysNamed
      /\ UNCHANGED <<log, calls, offset, reader, letters>>
      /\ log \in Logs /\ calls = Calls[log] /\ DOMAIN answers = calls
  BY DEF NInv, NotificationTyped, CreateNotification
<1>1. k \in CallKeys /\ k \in DOMAIN Kind /\ Kind[k] # "portfolio" /\ Parties[k] # {}
  BY <1>0, NotificationAssumption DEF CallKeys
<1>2. /\ inbox \in Seq(NoteRows) /\ outbox \in Seq(OutboxRows)
      /\ handledEvents \subseteq [event : DOMAIN Kind, note : Nat]
  BY <1>0 DEF NotificationTyped
\* What an answer is taken from decides the rest of the invariant.
<1> DEFINE Named(a) == \A c \in calls : \A n \in a[c] : \E row \in handledEvents' : row.event = c /\ row.note = n
<1>3. ASSUME handledEvents \subseteq handledEvents', NEW row \in handledEvents', row.event = k,
             answers' \in {answers, [answers EXCEPT ![k] = @ \cup {row.note}]}
      PROVE  DOMAIN answers' = calls /\ Named(answers')
  <2>1. Named(answers)
    BY <1>0, <1>3 DEF KeysNamed
  <2>2. ASSUME answers' = [answers EXCEPT ![k] = @ \cup {row.note}] PROVE Named(answers')
    <3>1. \A c \in calls : answers'[c] = IF c = k THEN answers[k] \cup {row.note} ELSE answers[c]
      BY <1>0, <2>2
    <3> QED
      BY <1>3, <2>1, <3>1
  <2> QED
    BY <1>0, <1>3, <2>1, <2>2
<1> HIDE DEF Named
<1>4. ASSUME CreateWithDedupTx(k),
             answers' \in {answers, [answers EXCEPT ![k] = @ \cup {Len(inbox) + 1}]}
      PROVE  NInv'
  <2> DEFINE n   == Len(inbox) + 1
             new == [event |-> k, note |-> n]
  <2>1. ~Processed(k) /\ Staged(k, Parties[k]) /\ handledEvents' = handledEvents \cup {[event |-> k, note |-> n]}
    BY <1>4 DEF CreateWithDedupTx
  <2>2. StoredFor(k) /\ NotedFor(k)
    BY <1>0, <1>1, <2>1, Staging_Stores
  <2>3. n \in Nat /\ new.event = k /\ new.note = n /\ new \in handledEvents'
    BY <1>2, <2>1
  <2>4. answers' \in {answers, [answers EXCEPT ![k] = @ \cup {new.note}]}
    BY <1>4, <2>3
  <2>5. n = Len(inbox) + 1
    OBVIOUS
  <2>6. new = [event |-> k, note |-> n]
    OBVIOUS
  <2> HIDE DEF n, new
  <2>7. DOMAIN answers' = calls /\ Named(answers')
    BY <1>3, <2>1, <2>3, <2>4
  <2>8. Once(inbox)' /\ Once(outbox)'
    BY <1>1, <2>1, <2>2, FirstStores DEF StoredFor, NotedFor
  <2>9. /\ \A r1, r2 \in handledEvents' : r1.event = r2.event => r1 = r2
        /\ \A row \in handledEvents' : row.event \in CallKeys =>
             row.note \in DOMAIN inbox' /\ inbox'[row.note].source = row.event
    BY <1>1, <2>1, <2>2, <2>5, FirstNames
  <2>10. handledEvents' \subseteq [event : DOMAIN Kind, note : Nat]
    BY <1>1, <1>2, <2>1, <2>3
  <2>11. NotificationTyped'
    BY <1>0, <2>2, <2>7, <2>10 DEF NotificationTyped, StoredFor, NotedFor
  <2>12. \A f, u : For(outbox, f, u) \subseteq For(outbox', f, u)
    BY <2>2 DEF StoredFor, GainsRows
  <2>13. \A t, i : Dealt(t, i) => Dealt(t, i)'
    BY <1>0, <2>12, DealtStays
  <2>14. \A t : Dealt(t, reader[t].next) => Dealt(t, reader[t].next)'
    BY <1>0, <2>13 DEF Dealt
  <2>15. MessagesDealt'
    BY <1>0, <2>13, <2>14 DEF MessagesDealt
  <2>16. KeysNamed'
    BY <1>0, <2>7, <2>9 DEF KeysNamed, Named
  <2> QED
    BY <2>8, <2>11, <2>15, <2>16 DEF NInv
<1>5. ASSUME UNCHANGED <<handledEvents, inbox, outbox>>, NEW row \in handledEvents, row.event = k,
             answers' = [answers EXCEPT ![k] = @ \cup {row.note}]
      PROVE  NInv'
  <2>1. DOMAIN answers' = calls /\ Named(answers')
    BY <1>3, <1>5
  <2>2. NotificationTyped'
    BY <1>0, <1>5, <2>1 DEF NotificationTyped
  <2>3. Once(inbox)' /\ Once(outbox)' /\ MessagesDealt'
    BY <1>0, <1>5 DEF Once, Processed, MessagesDealt, Dealt
  <2>4. KeysNamed'
    BY <1>0, <1>5, <2>1 DEF KeysNamed, Named
  <2> QED
    BY <2>2, <2>3, <2>4 DEF NInv
<1> QED
  BY <1>4, <1>5 DEF CreateNotification

\* A restart gives the readers the committed offsets.
LEMMA RestartKeeps == ASSUME NInv, NEW p, Restart(p) PROVE NInv'
<1>0. /\ NotificationTyped /\ Once(inbox) /\ Once(outbox) /\ MessagesDealt /\ KeysNamed
      /\ UNCHANGED <<log, calls, offset, handledEvents, inbox, outbox, letters, answers>>
      /\ reader' = [t \in Topics |-> [next |-> offset[t] + 1, handled |-> FALSE]]
  BY DEF NInv, Restart
<1>1. offset \in [Topics -> Nat]
  BY <1>0 DEF NotificationTyped
<1>2. \A t \in Topics : /\ reader'[t].next = offset[t] + 1 /\ reader'[t].handled = FALSE
                        /\ reader'[t] \in [next : Nat, handled : BOOLEAN]
  BY <1>0, <1>1
<1>3. reader' \in [Topics -> [next : Nat, handled : BOOLEAN]]
  BY <1>0, <1>2
<1>4. NotificationTyped'
  BY <1>0, <1>2, <1>3 DEF NotificationTyped
<1>5. MessagesDealt'
  BY <1>0, <1>2 DEF MessagesDealt, Dealt
<1>6. Once(inbox)' /\ Once(outbox)' /\ KeysNamed'
  BY <1>0 DEF Once, Processed, KeysNamed
<1> QED
  BY <1>4, <1>5, <1>6 DEF NInv

\* The publishers change what is said of rows, and never whose they are.
LEMMA SameRowsKeep ==
  ASSUME NInv, Rest, outbox' \in Seq(OutboxRows), DOMAIN outbox' = DOMAIN outbox,
         \A n \in DOMAIN outbox : outbox'[n].source = outbox[n].source /\ outbox'[n].user = outbox[n].user
  PROVE  NInv'
<1>0. /\ NotificationTyped /\ Once(inbox) /\ Once(outbox) /\ MessagesDealt /\ KeysNamed
      /\ UNCHANGED <<log, calls, offset, reader, handledEvents, inbox, letters, answers>>
  BY DEF NInv, Rest
<1>1. \A f, u : For(outbox', f, u) = For(outbox, f, u)
  BY DEF For
<1>2. NotificationTyped'
  BY <1>0 DEF NotificationTyped
<1>3. Once(inbox)' /\ Once(outbox)' /\ KeysNamed'
  BY <1>0, <1>1 DEF Once, Processed, KeysNamed
<1>4. MessagesDealt'
  <2>1. \A t, i : Dealt(t, i) => Dealt(t, i)'
    BY <1>0, <1>1, DealtStays
  <2>2. \A t : Dealt(t, reader[t].next) => Dealt(t, reader[t].next)'
    BY <1>0, <2>1 DEF Dealt
  <2> QED
    BY <1>0, <2>1, <2>2 DEF MessagesDealt
<1> QED
  BY <1>2, <1>3, <1>4 DEF NInv

LEMMA PublishingKeeps ==
  ASSUME NInv, Rest,
         \/ \E p \in Publishers : PublisherStep(p) \/ AbortBatch(p)
         \/ RecoverStaleOutboxClaims \/ \E n \in DOMAIN outbox : LeaseRunsOut(n)
  PROVE  NInv'
<1>0. outbox \in Seq(OutboxRows)
  BY DEF NInv, NotificationTyped
\* A row of the outbox with other marks is a row of it.
<1> DEFINE Marked(r, s, o, x) == [r EXCEPT !.status = s, !.owner = o, !.stale = x]
           Alike(r, q) == q \in OutboxRows /\ q.source = r.source /\ q.user = r.user
<1>1. ASSUME NEW r \in OutboxRows, NEW s \in {"PENDING", "PROCESSING", "PROCESSED"},
             NEW o \in Publishers \cup {NoPublisher}, NEW x \in BOOLEAN
      PROVE  Alike(r, Marked(r, s, o, x))
  <2>1. PICK r1 : r1 = [r EXCEPT !.status = s]
    OBVIOUS
  <2>2. r1 \in OutboxRows /\ r1.source = r.source /\ r1.user = r.user
    BY <2>1 DEF OutboxRows
  <2>3. PICK r2 : r2 = [r1 EXCEPT !.owner = o]
    OBVIOUS
  <2>4. r2 \in OutboxRows /\ r2.source = r.source /\ r2.user = r.user
    BY <2>2, <2>3 DEF OutboxRows
  <2>5. PICK r3 : r3 = [r2 EXCEPT !.stale = x]
    OBVIOUS
  <2>6. r3 \in OutboxRows /\ r3.source = r.source /\ r3.user = r.user
    BY <2>2, <2>4, <2>5 DEF OutboxRows
  <2>7. r3 = Marked(r, s, o, x)
    BY <2>1, <2>3, <2>5
  <2> QED
    BY <2>6, <2>7
<1>2. ASSUME NEW r \in OutboxRows PROVE Alike(r, r)
  OBVIOUS
<1> HIDE DEF Marked, Alike
\* So is a table whose rows are all alike.
<1>3. ASSUME NEW q, outbox' = [n \in DOMAIN outbox |-> q[n]], \A n \in DOMAIN outbox : Alike(outbox[n], q[n])
      PROVE  NInv'
  <2>1. PICK k \in Nat : DOMAIN outbox = 1..k
    BY <1>0
  <2>2. \A n \in 1..k : q[n] \in OutboxRows
    BY <1>3, <2>1 DEF Alike
  <2>3. outbox' \in Seq(OutboxRows) /\ DOMAIN outbox' = DOMAIN outbox
    BY <1>3, <2>1, <2>2
  <2>4. \A n \in DOMAIN outbox : outbox'[n].source = outbox[n].source /\ outbox'[n].user = outbox[n].user
    BY <1>3 DEF Alike
  <2> QED
    BY <2>3, <2>4, SameRowsKeep
<1>4. ASSUME outbox' = outbox PROVE NInv'
  BY <1>0, <1>4, SameRowsKeep
<1>5. \A n \in DOMAIN outbox : outbox[n] \in OutboxRows
  BY <1>0
<1>6. ASSUME NEW rows, outbox' = Back(rows) PROVE NInv'
  <2> DEFINE q == [n \in DOMAIN outbox |-> IF n \in rows THEN Marked(outbox[n], "PENDING", NoPublisher, FALSE) ELSE outbox[n]]
  <2>1. outbox' = q
    BY <1>6 DEF Back, Marked
  <2>2. ASSUME NEW n \in DOMAIN outbox PROVE Alike(outbox[n], q[n])
    BY <1>1, <1>2, <1>5
  <2>3. outbox' = [n \in DOMAIN outbox |-> q[n]]
    BY <2>1
  <2> HIDE DEF q
  <2> QED
    BY <1>3, <2>2, <2>3
<1>7. ASSUME NEW p \in Publishers, FetchPendingRows(p) PROVE NInv'
  <2>1. PICK oldest : outbox' = [n \in DOMAIN outbox |-> IF n \in oldest
            THEN Marked(outbox[n], "PROCESSING", p, FALSE) ELSE outbox[n]]
    BY <1>7 DEF FetchPendingRows, Marked
  <2> DEFINE q == [n \in DOMAIN outbox |-> IF n \in oldest THEN Marked(outbox[n], "PROCESSING", p, FALSE) ELSE outbox[n]]
  <2>2. ASSUME NEW n \in DOMAIN outbox PROVE Alike(outbox[n], q[n])
    BY <1>1, <1>2, <1>5
  <2>3. outbox' = [n \in DOMAIN outbox |-> q[n]]
    BY <2>1
  <2> HIDE DEF q
  <2> QED
    BY <1>3, <2>2, <2>3
<1>8. ASSUME NEW p \in Publishers, MarkRowPublished(p) PROVE NInv'
  <2> DEFINE n == held[p].sent
             q == [m \in DOMAIN outbox |-> IF m = n THEN Marked(outbox[m], "PROCESSED", NoPublisher, FALSE) ELSE outbox[m]]
  <2>1. outbox' = outbox \/ outbox' = [outbox EXCEPT ![n].status = "PROCESSED", ![n].owner = NoPublisher, ![n].stale = FALSE]
    BY <1>8 DEF MarkRowPublished
  <2>2. ASSUME outbox' = [outbox EXCEPT ![n].status = "PROCESSED", ![n].owner = NoPublisher, ![n].stale = FALSE]
        PROVE  outbox' = [m \in DOMAIN outbox |-> q[m]]
    BY <2>2, Zenon DEF Marked
  <2>3. ASSUME NEW m \in DOMAIN outbox PROVE Alike(outbox[m], q[m])
    BY <1>1, <1>2, <1>5
  <2> HIDE DEF q
  <2> QED
    BY <1>3, <1>4, <2>1, <2>2, <2>3
<1>9. ASSUME NEW n \in DOMAIN outbox, LeaseRunsOut(n) PROVE NInv'
  <2> DEFINE q == [m \in DOMAIN outbox |-> IF m = n THEN Marked(outbox[m], outbox[m].status, outbox[m].owner, TRUE) ELSE outbox[m]]
  <2>1. outbox' = [outbox EXCEPT ![n].stale = TRUE]
    BY <1>9 DEF LeaseRunsOut
  <2>2. outbox[n] = [source |-> outbox[n].source, user |-> outbox[n].user, status |-> outbox[n].status,
                     owner |-> outbox[n].owner, stale |-> outbox[n].stale]
    BY <1>5 DEF OutboxRows
  <2>3. [outbox[n] EXCEPT !.stale = TRUE] = Marked(outbox[n], outbox[n].status, outbox[n].owner, TRUE)
    BY <2>2, Zenon DEF Marked
  <2>4. outbox' = [m \in DOMAIN outbox |-> IF m = n THEN [outbox[m] EXCEPT !.stale = TRUE] ELSE outbox[m]]
    BY <2>1
  <2>5. outbox' = [m \in DOMAIN outbox |-> q[m]]
    BY <2>3, <2>4
  <2>6. ASSUME NEW m \in DOMAIN outbox PROVE Alike(outbox[m], q[m])
    <3>1. outbox[m].status \in {"PENDING", "PROCESSING", "PROCESSED"} /\ outbox[m].owner \in Publishers \cup {NoPublisher}
      BY <1>5 DEF OutboxRows
    <3> QED
      BY <1>1, <1>2, <1>5, <3>1
  <2> HIDE DEF q
  <2> QED
    BY <1>3, <2>5, <2>6
<1>10. ASSUME NEW p \in Publishers, PublisherStep(p) PROVE NInv'
  BY <1>4, <1>7, <1>8, <1>10 DEF PublisherStep, PublishRow
<1>11. ASSUME NEW p \in Publishers, AbortBatch(p) PROVE NInv'
  BY <1>4, <1>6, <1>11 DEF AbortBatch
<1>12. ASSUME RecoverStaleOutboxClaims PROVE NInv'
  BY <1>6, <1>12 DEF RecoverStaleOutboxClaims
<1> QED
  BY <1>9, <1>10, <1>11, <1>12

\* Whatever is redelivered, retried, lost or delayed, and whoever dies, a notification is
\* stored and queued once for each party of an event, the committed offsets pass only
\* what is stored or dead-lettered, and a key is answered with one notification.
THEOREM NotificationsOnce == NotificationFairSpec => []NotifiedOnce
<1>1. NotificationInit => NInv
  <2> SUFFICES ASSUME NotificationInit PROVE NInv
    OBVIOUS
  <2>1. /\ log \in Logs /\ calls = Calls[log] /\ offset = [t \in Topics |-> 0]
        /\ reader = [t \in Topics |-> [next |-> 1, handled |-> FALSE]]
        /\ handledEvents = {} /\ inbox = <<>> /\ outbox = <<>> /\ answers = [k \in calls |-> {}]
    BY DEF NotificationInit
  <2>2. \A t \in Topics : Len(log[t]) \in Nat
    <3>1. ASSUME NEW t \in Topics PROVE log[t] \in Seq(Told)
      BY <2>1, TopicsHold
    <3> QED
      BY <3>1
  <2>3. \A t \in Topics : reader[t] \in [next : Nat, handled : BOOLEAN] /\ reader[t].next = 1 /\ reader[t].handled = FALSE
    BY <2>1
  <2>4. NotificationTyped
    <3>1. offset \in [Topics -> Nat] /\ reader \in [Topics -> [next : Nat, handled : BOOLEAN]]
      BY <2>1, <2>3
    <3>2. \A t \in Topics : reader[t].next = offset[t] + 1 /\ offset[t] <= Len(log[t])
      BY <2>1, <2>2, <2>3
    <3> QED
      BY <2>1, <3>1, <3>2 DEF NotificationTyped
  <2>5. Once(inbox) /\ Once(outbox) /\ KeysNamed
    BY <2>1 DEF Once, Processed, For, KeysNamed
  <2>6. MessagesDealt
    BY <2>1, <2>3 DEF MessagesDealt
  <2> QED
    BY <2>4, <2>5, <2>6 DEF NInv
<1>2. NInv /\ [NotificationNext]_notificationVars => NInv'
  <2> SUFFICES ASSUME NInv, [NotificationNext]_notificationVars PROVE NInv'
    OBVIOUS
  <2>1. ASSUME NEW t \in Topics, ConsumerStep(t) PROVE NInv'
    BY <2>1, HandlingKeeps, CommittingKeeps DEF ConsumerStep
  <2>2. ASSUME NEW k \in calls, CreateNotification(k) PROVE NInv'
    BY <2>2, CallKeeps
  <2>3. ASSUME NEW p \in Publishers, Restart(p) PROVE NInv'
    BY <2>3, RestartKeeps
  <2>4. ASSUME NEW p \in Publishers, Rest, PublisherStep(p) \/ AbortBatch(p) PROVE NInv'
    BY <2>4, PublishingKeeps
  <2>5. ASSUME Rest, RecoverStaleOutboxClaims \/ \E n \in DOMAIN outbox : LeaseRunsOut(n) PROVE NInv'
    BY <2>5, PublishingKeeps
  <2>6. ASSUME UNCHANGED notificationVars PROVE NInv'
    BY <2>6, SameRowsKeep DEF notificationVars, Rest, NInv, NotificationTyped
  <2> QED
    BY <2>1, <2>2, <2>3, <2>4, <2>5, <2>6 DEF NotificationNext
<1>3. NInv => NotifiedOnce
  BY NotifiedOnceFollows
<1> QED
  BY <1>1, <1>2, <1>3, PTL DEF NotificationFairSpec
-----------------------------------------------------------------------------
(***************************************************************************)
(* TradeHistory.                                                           *)
(***************************************************************************)
\* The table holds trades of the topic, each once, of two users.
TradesTyped ==
  /\ fetched \in Nat /\ acked \in Nat
  /\ trades \subseteq ToSet(SettledTrades) /\ IsFiniteSet(trades)
  /\ \A r1, r2 \in trades : r1.id = r2.id => r1 = r2
  /\ \A r \in trades : r.id \in Nat \ {0} /\ r.time \in Nat /\ r.buyer # r.seller

\* Row r is of the history of u; it has been shown to the reader.
Of(u, r)    == u = Tape \/ r.buyer = u \/ r.seller = u
IsShown(id) == \E i \in 1..Len(walk.shown) : walk.shown[i] = id

\* What has been shown is what the cursor has passed, each row once, and of the rows
\* there were at the beginning nothing has been passed over.
WalkSound ==
  /\ walk.shown \in Seq(Nat) /\ walk.after \in [time : Nat, id : Nat]
  /\ \A i, j \in 1..Len(walk.shown) : walk.shown[i] = walk.shown[j] => i = j
  /\ \A i \in 1..Len(walk.shown) : \E r \in trades : r.id = walk.shown[i]
  /\ \A d \in walk.owed : \E r \in trades : r.id = d /\ Of(walk.user, r)
  /\ walk.open => \A r \in trades : IsShown(r.id) => ~Before(walk.after, r)
  /\ walk.open => \A r \in trades : r.id \in walk.owed => IsShown(r.id) \/ Before(walk.after, r)
  /\ ~walk.open => \A d \in walk.owed : IsShown(d)

HInv == TradesTyped /\ WalkSound

\* A reader's entries are the rows of their history, one for each.
LEMMA EntriesAre ==
  ASSUME TradesTyped, NEW u
  PROVE  /\ \A e \in Entries(u) : e.trade \in trades /\ Of(u, e.trade)
         /\ \A e, f \in Entries(u) : e.trade.id = f.trade.id => e = f
         /\ \A r \in trades : Of(u, r) => \E e \in Entries(u) : e.trade = r
         /\ IsFiniteSet(Entries(u))
<1>0. /\ \A r1, r2 \in trades : r1.id = r2.id => r1 = r2
      /\ \A r \in trades : r.buyer # r.seller
      /\ IsFiniteSet(trades)
  BY DEF TradesTyped
<1> DEFINE E(r, s) == [trade |-> r, side |-> s]
<1>1. \A e : e \in Entries(u) <=>
        \E r \in trades : \/ u = Tape /\ e = E(r, "any")
                          \/ u # Tape /\ r.buyer = u /\ e = E(r, "buyer")
                          \/ u # Tape /\ r.seller = u /\ e = E(r, "seller")
  BY DEF Entries
<1>2. \A r, s : E(r, s).trade = r
  OBVIOUS
<1> HIDE DEF E
<1>3. \A e \in Entries(u) : e.trade \in trades /\ Of(u, e.trade)
  BY <1>1, <1>2 DEF Of
<1>4. \A e, f \in Entries(u) : e.trade.id = f.trade.id => e = f
  BY <1>0, <1>1, <1>2
<1>5. \A r \in trades : Of(u, r) => \E e \in Entries(u) : e.trade = r
  BY <1>1, <1>2 DEF Of
<1>6. IsFiniteSet(Entries(u))
  <2> DEFINE f == [e \in Entries(u) |-> e.trade]
  <2>1. f \in Injection(Entries(u), trades)
    BY <1>3, <1>4 DEF Injection, IsInjective
  <2> HIDE DEF f
  <2> QED
    BY <1>0, <2>1, FS_Injection
<1> QED
  BY <1>3, <1>4, <1>5, <1>6

\* A page holds rows below its cursor, each once; if it is not full nothing is left
\* below the cursor, and if it is, what is left is below its last row.
LEMMA PageIs ==
  ASSUME TradesTyped, NEW u, NEW after \in [time : Nat, id : Nat], NEW page \in Pages(u, after)
  PROVE  /\ page \in Seq(Entries(u)) /\ Len(page) <= PageLimit
         /\ \A i \in 1..Len(page) : page[i].trade \in trades /\ Before(after, page[i].trade)
         /\ \A i, j \in 1..Len(page) : page[i].trade.id = page[j].trade.id => i = j
         /\ Len(page) # PageLimit =>
              \A r \in trades : Of(u, r) /\ Before(after, r) => \E i \in 1..Len(page) : page[i].trade = r
         /\ Len(page) = PageLimit =>
              LET c == [time |-> page[PageLimit].trade.time, id |-> page[PageLimit].trade.id]
              IN /\ c \in [time : Nat, id : Nat] /\ c # NoCursor
                 /\ \A r \in trades : ~Before(after, r) => ~Before(c, r)
                 /\ \A i \in 1..Len(page) : ~Before(c, page[i].trade)
                 /\ \A r \in trades : Of(u, r) /\ Before(after, r) =>
                      (\E i \in 1..Len(page) : page[i].trade = r) \/ Before(c, r)
<1> DEFINE below == {e \in Entries(u) : Before(after, e.trade)}
           n     == Cardinality(below)
           size  == IF n < PageLimit THEN n ELSE PageLimit
<1>0. /\ \A e \in Entries(u) : e.trade \in trades /\ Of(u, e.trade)
      /\ \A e, f \in Entries(u) : e.trade.id = f.trade.id => e = f
      /\ \A r \in trades : Of(u, r) => \E e \in Entries(u) : e.trade = r
      /\ IsFiniteSet(Entries(u))
  BY EntriesAre
<1>1. /\ page \in [1..size -> below] /\ IsInjective(page)
      /\ \A i, j \in 1..size : i < j => ~Newer(page[j], page[i])
      /\ \A e \in below : (\E i \in 1..size : page[i] = e) \/ (\A i \in 1..size : ~Newer(e, page[i]))
  BY DEF Pages
<1>2. below \subseteq Entries(u) /\ \A e \in below : Before(after, e.trade)
  OBVIOUS
<1>3. \A r \in trades : Of(u, r) /\ Before(after, r) => \E e \in below : e.trade = r
  BY <1>0
<1>4. IsFiniteSet(below)
  BY <1>0, <1>2, FS_Subset
<1> HIDE DEF below
<1>5. n \in Nat
  BY <1>4, FS_CardinalityType
<1>6. size \in Nat /\ size <= PageLimit /\ PageLimit \in Nat \ {0} /\ (size # PageLimit => size = n)
  BY <1>5, TradeHistoryAssumption
<1> HIDE DEF size
<1>7. page \in Seq(Entries(u)) /\ Len(page) = size /\ DOMAIN page = 1..size
  BY <1>1, <1>2, <1>6
<1>8. \A i \in 1..size : page[i] \in below /\ page[i] \in Entries(u) /\ page[i].trade \in trades
  BY <1>0, <1>1, <1>2
<1>9. \A i, j \in 1..size : page[i].trade.id = page[j].trade.id => i = j
  BY <1>0, <1>1, <1>8 DEF IsInjective
<1>10. ASSUME size # PageLimit PROVE \A e \in below : \E i \in 1..size : page[i] = e
  <2>1. page \in Injection(1..size, below)
    BY <1>1 DEF Injection
  <2>2. IsFiniteSet(1..size) /\ Cardinality(1..size) = Cardinality(below)
    BY <1>6, <1>10, FS_Interval
  <2>3. page \in Surjection(1..size, below)
    BY <1>4, <2>1, <2>2, FS_Injection
  <2> QED
    BY <2>3 DEF Surjection
<1>11. ASSUME size = PageLimit
       PROVE  LET c == [time |-> page[PageLimit].trade.time, id |-> page[PageLimit].trade.id]
              IN /\ c \in [time : Nat, id : Nat] /\ c # NoCursor
                 /\ \A r \in trades : ~Before(after, r) => ~Before(c, r)
                 /\ \A i \in 1..size : ~Before(c, page[i].trade)
                 /\ \A r \in trades : Of(u, r) /\ Before(after, r) =>
                      (\E i \in 1..size : page[i].trade = r) \/ Before(c, r)
  <2>1. PageLimit \in 1..size
    BY <1>6, <1>11
  <2>2. PICK last \in trades : last = page[PageLimit].trade
    BY <1>8, <2>1
  <2>3. \A r \in trades : r.time \in Nat /\ r.id \in Nat /\ r.id # 0 /\ (r.id = last.id => r = last)
    BY DEF TradesTyped
  <2>4. Before(after, last)
    BY <1>2, <1>8, <2>1, <2>2
  <2> DEFINE c == [time |-> last.time, id |-> last.id]
  <2>5. c \in [time : Nat, id : Nat] /\ c # NoCursor /\ c.time = last.time /\ c.id = last.id
    <3>1. c.id # 0 /\ NoCursor.id = 0
      BY <2>3 DEF NoCursor
    <3> QED
      BY <2>3, <3>1
  <2> HIDE DEF c
  <2>6. \A r : Before(c, r) <=> (r.time < last.time \/ (r.time = last.time /\ r.id < last.id))
    BY <2>5 DEF Before
  <2>7. ASSUME NEW r \in trades, ~Before(after, r) PROVE ~Before(c, r)
    <3>1. /\ after # NoCursor /\ after.time \in Nat /\ after.id \in Nat
          /\ ~(r.time < after.time \/ (r.time = after.time /\ r.id < after.id))
      BY <2>7 DEF Before
    <3>2. last.time < after.time \/ (last.time = after.time /\ last.id < after.id)
      BY <2>4, <3>1 DEF Before
    <3> QED
      BY <2>3, <2>6, <3>1, <3>2
  <2>8. ASSUME NEW i \in 1..size PROVE ~Before(c, page[i].trade)
    <3>1. PICK r \in trades : r = page[i].trade
      BY <1>8
    <3>2. CASE i = PageLimit
      BY <2>2, <2>3, <2>6, <3>1, <3>2
    <3>3. CASE i # PageLimit
      <4>1. ~Newer(page[PageLimit], page[i])
        BY <1>1, <1>6, <1>11, <2>1, <3>3
      <4>2. ~(last.time > r.time \/ (last.time = r.time /\ last.id > r.id))
        BY <2>2, <3>1, <4>1 DEF Newer
      <4> QED
        BY <2>3, <2>6, <3>1, <4>2
    <3> QED
      BY <3>2, <3>3
  <2>9. ASSUME NEW r \in trades, Of(u, r), Before(after, r), ~\E i \in 1..size : page[i].trade = r
        PROVE  Before(c, r)
    <3>1. PICK e \in below : e.trade = r
      BY <1>3, <2>9
    <3>2. ~Newer(e, page[PageLimit])
      BY <1>1, <2>1, <2>9, <3>1
    <3>3. ~(r.time > last.time \/ (r.time = last.time /\ r.id > last.id))
      BY <2>2, <3>1, <3>2 DEF Newer
    <3>4. r.id # last.id
      BY <2>1, <2>2, <2>3, <2>9
    <3> QED
      BY <2>3, <2>6, <3>3, <3>4
  <2> QED
    BY <2>2, <2>5, <2>7, <2>8, <2>9 DEF c
<1>12. \A i \in 1..size : Before(after, page[i].trade)
  BY <1>2, <1>8
<1>13. size # PageLimit => \A r \in trades : Of(u, r) /\ Before(after, r) => \E i \in 1..size : page[i].trade = r
  BY <1>3, <1>10
<1> QED
  BY <1>6, <1>7, <1>8, <1>9, <1>11, <1>12, <1>13

\* Two sequences one after the other.
LEMMA Joined ==
  ASSUME NEW s \in Seq(Nat), NEW t \in Seq(Nat), NEW all, all = s \o t
  PROVE  /\ all \in Seq(Nat) /\ Len(all) = Len(s) + Len(t) /\ Len(s) \in Nat /\ Len(t) \in Nat
         /\ \A i \in 1..Len(s) : all[i] = s[i]
         /\ \A i \in 1..Len(t) : all[Len(s) + i] = t[i] /\ Len(s) + i \in 1..Len(all)
         /\ \A i \in 1..Len(all) : i \in 1..Len(s) \/ (i - Len(s) \in 1..Len(t) /\ all[i] = t[i - Len(s)])
OBVIOUS

\* A page that is shown keeps what is said of the walk.
LEMMA ListingKeeps == ASSUME HInv, ListTrades PROVE HInv'
<1>0. TradesTyped /\ WalkSound /\ walk.open /\ UNCHANGED <<fetched, acked, trades>>
  BY DEF HInv, ListTrades
<1>1. PICK page \in Pages(walk.user, walk.after) :
        walk' = [walk EXCEPT !.shown = @ \o [i \in DOMAIN page |-> page[i].trade.id],
                             !.open  = Len(page) = PageLimit,
                             !.after = IF Len(page) = PageLimit
                                         THEN [time |-> page[PageLimit].trade.time, id |-> page[PageLimit].trade.id] ELSE @]
  BY DEF ListTrades
<1>2. PICK u, after, shown, owed : u = walk.user /\ after = walk.after /\ shown = walk.shown /\ owed = walk.owed
  OBVIOUS
<1> DEFINE full == Len(page) = PageLimit
           ids  == [i \in DOMAIN page |-> page[i].trade.id]
           c    == [time |-> page[PageLimit].trade.time, id |-> page[PageLimit].trade.id]
           next_ == IF full THEN c ELSE after
<1>3. /\ walk'.user = u /\ walk'.owed = owed /\ walk'.shown = shown \o ids
      /\ walk'.open = full /\ walk'.after = next_
  BY <1>1, <1>2
<1> HIDE DEF next_
<1>4. after \in [time : Nat, id : Nat] /\ page \in Pages(u, after) /\ shown \in Seq(Nat)
  BY <1>0, <1>1, <1>2 DEF WalkSound
<1>5. /\ page \in Seq(Entries(u)) /\ Len(page) <= PageLimit
      /\ \A i \in 1..Len(page) : page[i].trade \in trades /\ Before(after, page[i].trade)
      /\ \A i, j \in 1..Len(page) : page[i].trade.id = page[j].trade.id => i = j
      /\ ~full => \A r \in trades : Of(u, r) /\ Before(after, r) => \E i \in 1..Len(page) : page[i].trade = r
      /\ full => /\ c \in [time : Nat, id : Nat] /\ c # NoCursor
                 /\ \A r \in trades : ~Before(after, r) => ~Before(c, r)
                 /\ \A i \in 1..Len(page) : ~Before(c, page[i].trade)
                 /\ \A r \in trades : Of(u, r) /\ Before(after, r) =>
                      (\E i \in 1..Len(page) : page[i].trade = r) \/ Before(c, r)
  BY <1>0, <1>4, PageIs
<1>6. /\ \A r1, r2 \in trades : r1.id = r2.id => r1 = r2
      /\ \A r \in trades : r.id \in Nat
  BY <1>0 DEF TradesTyped
<1>7. /\ \A i, j \in 1..Len(shown) : shown[i] = shown[j] => i = j
      /\ \A i \in 1..Len(shown) : \E r \in trades : r.id = shown[i]
      /\ \A d \in owed : \E r \in trades : r.id = d /\ Of(u, r)
      /\ \A r \in trades : IsShown(r.id) => ~Before(after, r)
      /\ \A r \in trades : r.id \in owed => IsShown(r.id) \/ Before(after, r)
      /\ \A d : IsShown(d) <=> \E i \in 1..Len(shown) : shown[i] = d
  BY <1>0, <1>2 DEF WalkSound, IsShown
<1>8. ids \in Seq(Nat) /\ Len(ids) = Len(page) /\ Len(page) \in Nat /\ \A i \in 1..Len(page) : ids[i] = page[i].trade.id
  <2>1. DOMAIN page = 1..Len(page) /\ Len(page) \in Nat
    BY <1>5
  <2>2. \A i \in 1..Len(page) : page[i].trade.id \in Nat
    BY <1>5, <1>6
  <2> QED
    BY <2>1, <2>2
<1> HIDE DEF ids, full, c
<1>9. PICK all : all = shown \o ids
  OBVIOUS
<1>10. /\ all \in Seq(Nat) /\ Len(all) = Len(shown) + Len(page) /\ Len(shown) \in Nat
       /\ \A i \in 1..Len(shown) : all[i] = shown[i]
       /\ \A i \in 1..Len(page) : all[Len(shown) + i] = page[i].trade.id /\ Len(shown) + i \in 1..Len(all)
       /\ \A i \in 1..Len(all) : i \in 1..Len(shown) \/ (i - Len(shown) \in 1..Len(page) /\ all[i] = page[i - Len(shown)].trade.id)
  <2>1. shown \in Seq(Nat) /\ ids \in Seq(Nat) /\ all = shown \o ids
    BY <1>4, <1>8, <1>9
  <2>2. /\ all \in Seq(Nat) /\ Len(all) = Len(shown) + Len(ids) /\ Len(shown) \in Nat
        /\ \A i \in 1..Len(shown) : all[i] = shown[i]
        /\ \A i \in 1..Len(ids) : all[Len(shown) + i] = ids[i] /\ Len(shown) + i \in 1..Len(all)
        /\ \A i \in 1..Len(all) :
             i \in 1..Len(shown) \/ (i - Len(shown) \in 1..Len(ids) /\ all[i] = ids[i - Len(shown)])
    BY <2>1, Joined
  <2> QED
    BY <1>8, <2>2
<1>11. \A d : IsShown(d)' <=> IsShown(d) \/ \E i \in 1..Len(page) : page[i].trade.id = d
  <2>1. \A d : IsShown(d)' <=> \E i \in 1..Len(all) : all[i] = d
    BY <1>3, <1>9 DEF IsShown
  <2>2. ASSUME NEW d, NEW i \in 1..Len(all), all[i] = d
        PROVE  IsShown(d) \/ \E j \in 1..Len(page) : page[j].trade.id = d
    BY <1>7, <1>10, <2>2
  <2>3. ASSUME NEW d, IsShown(d) PROVE \E i \in 1..Len(all) : all[i] = d
    <3>1. PICK i \in 1..Len(shown) : shown[i] = d
      BY <1>7, <2>3
    <3>2. i \in 1..Len(all) /\ all[i] = d
      BY <1>8, <1>10, <3>1
    <3> QED
      BY <3>2
  <2>4. ASSUME NEW d, NEW j \in 1..Len(page), page[j].trade.id = d PROVE \E i \in 1..Len(all) : all[i] = d
    BY <1>10, <2>4
  <2> QED
    BY <2>1, <2>2, <2>3, <2>4
<1>12. \A i \in 1..Len(page) : ~IsShown(page[i].trade.id)
  BY <1>5, <1>7
<1>13. \A i, j \in 1..Len(all) : all[i] = all[j] => i = j
  <2> SUFFICES ASSUME NEW i \in 1..Len(all), NEW j \in 1..Len(all), all[i] = all[j] PROVE i = j
    OBVIOUS
  <2>1. CASE i \in 1..Len(shown) /\ j \in 1..Len(shown)
    BY <1>7, <1>10, <2>1
  <2>2. ASSUME NEW k \in 1..Len(all), NEW m \in 1..Len(all), all[k] = all[m],
               k \in 1..Len(shown), m \notin 1..Len(shown)
        PROVE  FALSE
    <3>1. PICK x \in 1..Len(page) : all[m] = page[x].trade.id
      BY <1>10, <2>2
    <3>2. shown[k] = page[x].trade.id
      BY <1>10, <2>2, <3>1
    <3> QED
      BY <1>7, <1>12, <2>2, <3>1, <3>2
  <2>3. CASE i \notin 1..Len(shown) /\ j \notin 1..Len(shown)
    <3>1. PICK x \in 1..Len(page) : x = i - Len(shown) /\ all[i] = page[x].trade.id
      BY <1>10, <2>3
    <3>2. PICK y \in 1..Len(page) : y = j - Len(shown) /\ all[j] = page[y].trade.id
      BY <1>10, <2>3
    <3>3. x = y
      BY <1>5, <3>1, <3>2
    <3> QED
      BY <1>10, <3>1, <3>2, <3>3
  <2> QED
    BY <2>1, <2>2, <2>3
<1>14. \A i \in 1..Len(all) : \E r \in trades : r.id = all[i]
  <2> SUFFICES ASSUME NEW i \in 1..Len(all) PROVE \E r \in trades : r.id = all[i]
    OBVIOUS
  <2>1. CASE i \in 1..Len(shown)
    BY <1>7, <1>10, <2>1
  <2>2. CASE i \notin 1..Len(shown)
    <3>1. PICK x \in 1..Len(page) : all[i] = page[x].trade.id
      BY <1>10, <2>2
    <3> QED
      BY <1>5, <3>1
  <2> QED
    BY <2>1, <2>2
<1>15. next_ \in [time : Nat, id : Nat]
  BY <1>4, <1>5 DEF next_
<1>16. full => \A r \in trades : IsShown(r.id)' => ~Before(c, r)
  <2> SUFFICES ASSUME full, NEW r \in trades, IsShown(r.id)' PROVE ~Before(c, r)
    OBVIOUS
  <2>1. CASE IsShown(r.id)
    BY <1>5, <1>7, <2>1
  <2>2. CASE \E i \in 1..Len(page) : page[i].trade.id = r.id
    BY <1>5, <1>6, <2>2
  <2> QED
    BY <1>11, <2>1, <2>2
<1>17. \A r \in trades : r.id \in owed /\ ~IsShown(r.id) => Of(u, r) /\ Before(after, r)
  BY <1>6, <1>7
<1>18. full => \A r \in trades : r.id \in owed => IsShown(r.id)' \/ Before(c, r)
  BY <1>5, <1>11, <1>17
<1>19. ~full => \A d \in owed : IsShown(d)'
  BY <1>5, <1>7, <1>11, <1>17
<1>20. WalkSound'
  <2>1. walk'.shown = all /\ walk'.after = next_ /\ walk'.owed = owed /\ walk'.user = u /\ walk'.open = full
    BY <1>3, <1>9
  <2>2. full => next_ = c
    BY DEF next_
  <2>3. walk'.shown \in Seq(Nat) /\ walk'.after \in [time : Nat, id : Nat]
    BY <1>10, <1>15, <2>1
  <2>4. /\ \A i, j \in 1..Len(walk'.shown) : walk'.shown[i] = walk'.shown[j] => i = j
        /\ \A i \in 1..Len(walk'.shown) : \E r \in trades' : r.id = walk'.shown[i]
    BY <1>0, <1>13, <1>14, <2>1
  <2>5. \A d \in walk'.owed : \E r \in trades' : r.id = d /\ Of(walk'.user, r)
    BY <1>0, <1>7, <2>1
  <2>6. walk'.open => \A r \in trades' : IsShown(r.id)' => ~Before(walk'.after, r)
    BY <1>0, <1>16, <2>1, <2>2
  <2>7. walk'.open => \A r \in trades' : r.id \in walk'.owed => IsShown(r.id)' \/ Before(walk'.after, r)
    BY <1>0, <1>18, <2>1, <2>2
  <2>8. ~walk'.open => \A d \in walk'.owed : IsShown(d)'
    BY <1>19, <2>1
  <2> QED
    BY <2>3, <2>4, <2>5, <2>6, <2>7, <2>8 DEF WalkSound
<1>21. TradesTyped'
  BY <1>0 DEF TradesTyped
<1> QED
  BY <1>20, <1>21 DEF HInv

LEMMA ConsumingKeeps == ASSUME HInv, Consume PROVE HInv'
<1>0. /\ TradesTyped /\ WalkSound /\ fetched < Len(SettledTrades) /\ fetched' = fetched + 1 /\ walk' = walk
      /\ Create \/ sendToDLQ \/ LeavesBehind
  BY DEF HInv, Consume
<1>1. fetched \in Nat /\ acked \in Nat /\ fetched + 1 \in DOMAIN SettledTrades
  BY <1>0, TradeHistoryAssumption DEF TradesTyped
<1>2. /\ Event \in ToSet(SettledTrades)
      /\ Event.id \in Nat \ {0} /\ Event.time \in Nat
  BY <1>1, TradeHistoryAssumption DEF Event, ToSet
<1>3. acked' \in Nat
  BY <1>0, <1>1 DEF Create, sendToDLQ, LeavesBehind, commitMsg
<1>4. \/ trades' = trades
      \/ trades' = trades \cup {Event} /\ Event.buyer # Event.seller /\ \A r \in trades : r.id # Event.id
  BY <1>0 DEF Create, sendToDLQ, LeavesBehind, Poison, Stored_
<1>5. PICK e : e = Event
  OBVIOUS
<1>6. /\ trades \subseteq trades' /\ IsFiniteSet(trades')
      /\ \A r \in trades' \ trades : r = e /\ e.buyer # e.seller /\ \A q \in trades : q.id # e.id
  BY <1>0, <1>4, <1>5, FS_AddElement DEF TradesTyped
<1>7. TradesTyped'
  BY <1>0, <1>1, <1>2, <1>3, <1>5, <1>6 DEF TradesTyped
<1>8. ASSUME NEW r \in trades', IsShown(r.id) \/ r.id \in walk.owed PROVE r \in trades
  <2>1. PICK q \in trades : q.id = r.id
    BY <1>0, <1>8 DEF WalkSound, IsShown
  <2> QED
    BY <1>6, <2>1
<1>9. WalkSound'
  <2>1. \A d : IsShown(d)' <=> IsShown(d)
    BY <1>0 DEF IsShown
  <2> QED
    BY <1>0, <1>6, <1>8, <2>1 DEF WalkSound
<1> QED
  BY <1>7, <1>9 DEF HInv

LEMMA StartingKeeps == ASSUME HInv, NEW u, StartWalk(u) PROVE HInv'
<1>0. /\ TradesTyped /\ UNCHANGED <<fetched, acked, trades>>
      /\ walk' = [user |-> u, owed |-> {e.trade.id : e \in Entries(u)}, shown |-> <<>>, after |-> NoCursor, open |-> TRUE]
  BY DEF HInv, StartWalk
<1>1. /\ walk'.user = u /\ walk'.owed = {e.trade.id : e \in Entries(u)} /\ walk'.shown = <<>>
      /\ walk'.after = NoCursor /\ walk'.open
  BY <1>0
<1>2. \A d \in walk'.owed : \E r \in trades : r.id = d /\ Of(u, r)
  BY <1>0, <1>1, EntriesAre
<1>3. \A r : Before(NoCursor, r)
  BY DEF Before
<1>4. NoCursor \in [time : Nat, id : Nat]
  BY DEF NoCursor
<1>5. \A d : ~IsShown(d)'
  BY <1>1 DEF IsShown
<1>6. WalkSound'
  BY <1>0, <1>1, <1>2, <1>3, <1>4, <1>5 DEF WalkSound
<1>7. TradesTyped'
  BY <1>0 DEF TradesTyped
<1> QED
  BY <1>6, <1>7 DEF HInv

\* However the rows of one time are ordered, and whatever is stored or redelivered
\* between two pages, a walk through a history shows no trade twice, and by its end
\* every trade there was at its beginning.
THEOREM WalksShowEachOnce == TradeHistorySpec => []WalkShowsEachOnce
<1>1. TradeHistoryInit => HInv
  <2> SUFFICES ASSUME TradeHistoryInit PROVE HInv
    OBVIOUS
  <2>1. TradesTyped
    BY FS_EmptySet DEF TradeHistoryInit, TradesTyped
  <2>2. /\ walk.user = Tape /\ walk.owed = {} /\ walk.shown = <<>> /\ walk.after = NoCursor /\ walk.open = FALSE
    BY DEF TradeHistoryInit, NoWalk
  <2>3. WalkSound
    BY <2>2 DEF WalkSound, IsShown, NoCursor
  <2> QED
    BY <2>1, <2>3 DEF HInv
<1>2. HInv /\ [TradeHistoryNext]_historyVars => HInv'
  <2> SUFFICES ASSUME HInv, [TradeHistoryNext]_historyVars PROVE HInv'
    OBVIOUS
  <2>1. CASE Consume
    BY <2>1, ConsumingKeeps
  <2>2. CASE ConsumerRestarts
    BY <2>2 DEF ConsumerRestarts, HInv, TradesTyped, WalkSound, IsShown
  <2>3. CASE \E u \in Readers : StartWalk(u)
    BY <2>3, StartingKeeps
  <2>4. CASE ListTrades
    BY <2>4, ListingKeeps
  <2>5. CASE UNCHANGED historyVars
    BY <2>5 DEF historyVars, HInv, TradesTyped, WalkSound, IsShown
  <2> QED
    BY <2>1, <2>2, <2>3, <2>4, <2>5 DEF TradeHistoryNext
<1>3. HInv => WalkShowsEachOnce
  <2> SUFFICES ASSUME HInv PROVE WalkShowsEachOnce
    OBVIOUS
  <2>1. /\ walk.shown \in Seq(Nat)
        /\ \A i, j \in 1..Len(walk.shown) : walk.shown[i] = walk.shown[j] => i = j
        /\ ~walk.open => \A d \in walk.owed : IsShown(d)
    BY DEF HInv, WalkSound
  <2>2. DOMAIN walk.shown = 1..Len(walk.shown)
    BY <2>1
  <2> QED
    BY <2>1, <2>2 DEF WalkShowsEachOnce, IsInjective, IsShown, ToSet
<1> QED
  BY <1>1, <1>2, <1>3, PTL DEF TradeHistorySpec

-----------------------------------------------------------------------------
(***************************************************************************)
(* Gateway: the indices of the hub.                                        *)
(***************************************************************************)
\* The indices hold clients and streams, and a client that left has no subscriptions.
HubTyped ==
  /\ clients \subseteq Clients
  /\ clientSubs \in [Clients -> SUBSET Streams]
  /\ subs \in [Streams -> SUBSET Clients]
  /\ \A c \in Clients \ clients : clientSubs[c] = {}

Listening == {p \in clients \X MarketStreams : p[2] \in clientSubs[p[1]]}
HubInv == HubTyped /\ HubConsistent

LEMMA StreamsAre ==
  /\ Streams \subseteq {"orderbook", "ticker", "trades", "notifications"} /\ Feeds \subseteq Streams
  /\ IsFiniteSet(Streams) /\ IsFiniteSet(MarketStreams)
<1>1. Streams \subseteq {"orderbook", "ticker", "trades", "notifications"} /\ Feeds \subseteq Streams
  BY GatewayAssumption DEF Streams
<1>2. IsFiniteSet({"orderbook"}) /\ IsFiniteSet({"ticker"}) /\ IsFiniteSet({"trades"}) /\ IsFiniteSet({"notifications"})
  BY FS_Singleton
<1>3. IsFiniteSet({"orderbook"} \cup {"ticker"})
  BY <1>2, FS_Union
<1>4. IsFiniteSet({"trades"} \cup {"notifications"})
  BY <1>2, FS_Union
<1>5. IsFiniteSet(({"orderbook"} \cup {"ticker"}) \cup ({"trades"} \cup {"notifications"}))
  BY <1>3, <1>4, FS_Union
<1>6. Streams \in SUBSET (({"orderbook"} \cup {"ticker"}) \cup ({"trades"} \cup {"notifications"}))
  BY <1>1
<1>7. IsFiniteSet(Streams)
  BY <1>5, <1>6, FS_Subset
<1>8. MarketStreams \in SUBSET Streams
  BY DEF MarketStreams
<1>9. IsFiniteSet(MarketStreams)
  BY <1>7, <1>8, FS_Subset
<1> QED
  BY <1>1, <1>7, <1>9

LEMMA ListeningFinite == ASSUME HubTyped PROVE IsFiniteSet(Listening)
<1>1. IsFiniteSet(Clients \X MarketStreams)
  BY GatewayAssumption, StreamsAre, FS_Product
<1>2. Listening \in SUBSET (Clients \X MarketStreams)
  BY DEF Listening, HubTyped
<1> QED
  BY <1>1, <1>2, FS_Subset

\* A subscription is entered in the three indices, and taken out of them.
LEMMA SubscribingKeepsIndices ==
  ASSUME HubInv, NEW c \in Clients, NEW s \in Streams, Subscribe(c, s)
  PROVE  HubInv'
<1>0. /\ HubTyped /\ c \in clients /\ s \notin clientSubs[c] /\ UNCHANGED <<clients>>
      /\ clientSubs' = [clientSubs EXCEPT ![c] = @ \cup {s}]
      /\ subs' = [subs EXCEPT ![s] = @ \cup {c}]
      /\ marketSubs' = IF s \in MarketStreams THEN marketSubs + 1 ELSE marketSubs
      /\ marketSubs = Cardinality(Listening) /\ \A t \in Streams : subs[t] = {d \in clients : t \in clientSubs[d]}
  BY DEF Subscribe, HubInv, HubConsistent, Listening
<1>1. \A d \in Clients : clientSubs'[d] = IF d = c THEN clientSubs[c] \cup {s} ELSE clientSubs[d]
  BY <1>0 DEF HubTyped
<1>2. \A t \in Streams : subs'[t] = IF t = s THEN subs[s] \cup {c} ELSE subs[t]
  BY <1>0 DEF HubTyped
<1>3. HubTyped'
  BY <1>0, <1>1, <1>2 DEF HubTyped
<1>4. \A t \in Streams : subs'[t] = {d \in clients : t \in clientSubs'[d]}
  BY <1>0, <1>1, <1>2 DEF HubTyped
<1>5. marketSubs' = Cardinality(Listening')
  <2>1. IsFiniteSet(Listening)
    BY <1>0, ListeningFinite
  <2>2. CASE s \in MarketStreams
    <3>1. <<c, s>> \notin Listening /\ Listening' = Listening \cup {<<c, s>>}
      BY <1>0, <1>1, <2>2 DEF Listening, HubTyped
    <3> QED
      BY <1>0, <2>1, <2>2, <3>1, FS_AddElement
  <2>3. CASE s \notin MarketStreams
    <3>1. Listening' = Listening
      BY <1>0, <1>1, <2>3 DEF Listening, HubTyped
    <3> QED
      BY <1>0, <2>3, <3>1
  <2> QED
    BY <2>2, <2>3
<1> QED
  BY <1>0, <1>3, <1>4, <1>5 DEF HubInv, HubConsistent, Listening

LEMMA UnsubscribingKeepsIndices ==
  ASSUME HubInv, NEW c \in Clients, NEW s \in Streams, Unsubscribe(c, s)
  PROVE  HubInv'
<1>0. /\ HubTyped /\ s \in clientSubs[c] /\ UNCHANGED <<clients>>
      /\ clientSubs' = [clientSubs EXCEPT ![c] = @ \ {s}]
      /\ subs' = [subs EXCEPT ![s] = @ \ {c}]
      /\ marketSubs' = IF s \in MarketStreams THEN marketSubs - 1 ELSE marketSubs
      /\ marketSubs = Cardinality(Listening) /\ \A t \in Streams : subs[t] = {d \in clients : t \in clientSubs[d]}
  BY DEF Unsubscribe, HubInv, HubConsistent, Listening
<1>1. \A d \in Clients : clientSubs'[d] = IF d = c THEN clientSubs[c] \ {s} ELSE clientSubs[d]
  BY <1>0 DEF HubTyped
<1>2. \A t \in Streams : subs'[t] = IF t = s THEN subs[s] \ {c} ELSE subs[t]
  BY <1>0 DEF HubTyped
<1>3. HubTyped'
  BY <1>0, <1>1, <1>2 DEF HubTyped
<1>4. \A t \in Streams : subs'[t] = {d \in clients : t \in clientSubs'[d]}
  BY <1>0, <1>1, <1>2 DEF HubTyped
<1>5. marketSubs' = Cardinality(Listening')
  <2>1. IsFiniteSet(Listening)
    BY <1>0, ListeningFinite
  <2>2. CASE s \in MarketStreams
    <3>1. <<c, s>> \in Listening /\ Listening' = Listening \ {<<c, s>>}
      BY <1>0, <1>1, <2>2 DEF Listening, HubTyped
    <3> QED
      BY <1>0, <2>1, <2>2, <3>1, FS_RemoveElement
  <2>3. CASE s \notin MarketStreams
    <3>1. Listening' = Listening
      BY <1>0, <1>1, <2>3 DEF Listening, HubTyped
    <3> QED
      BY <1>0, <2>3, <3>1
  <2> QED
    BY <2>2, <2>3
<1> QED
  BY <1>0, <1>3, <1>4, <1>5 DEF HubInv, HubConsistent, Listening

LEMMA LeavingKeepsIndices ==
  ASSUME HubInv, NEW c \in Clients, Unregister(c)
  PROVE  HubInv'
<1>0. /\ HubTyped /\ c \in clients /\ clients' = clients \ {c}
      /\ subs' = [s \in Streams |-> subs[s] \ {c}]
      /\ marketSubs' = marketSubs - Cardinality(clientSubs[c] \cap MarketStreams)
      /\ clientSubs' = [clientSubs EXCEPT ![c] = {}]
      /\ marketSubs = Cardinality(Listening) /\ \A t \in Streams : subs[t] = {d \in clients : t \in clientSubs[d]}
  BY DEF Unregister, HubInv, HubConsistent, Listening
<1>1. \A d \in Clients : clientSubs'[d] = IF d = c THEN {} ELSE clientSubs[d]
  BY <1>0 DEF HubTyped
<1>2. \A t \in Streams : subs'[t] = subs[t] \ {c}
  BY <1>0
<1>3. HubTyped'
  <2>1. subs' \in [Streams -> SUBSET Clients]
    BY <1>0 DEF HubTyped
  <2>2. clientSubs' \in [Clients -> SUBSET Streams]
    BY <1>0 DEF HubTyped
  <2> QED
    BY <1>0, <1>1, <2>1, <2>2 DEF HubTyped
<1>4. \A t \in Streams : subs'[t] = {d \in clients' : t \in clientSubs'[d]}
  BY <1>0, <1>1, <1>2 DEF HubTyped
<1>5. marketSubs' = Cardinality(Listening')
  <2> DEFINE own   == clientSubs[c] \cap MarketStreams
             pairs == {p \in Listening : p[1] = c}
             f     == [t \in own |-> <<c, t>>]
  <2>1. IsFiniteSet(Listening)
    BY <1>0, ListeningFinite
  <2>2. Listening' = Listening \ pairs /\ Listening \cap pairs = pairs
    BY <1>0, <1>1 DEF Listening, HubTyped
  <2>3. f \in Bijection(own, pairs)
    <3>1. f \in [own -> pairs]
      BY <1>0 DEF Listening
    <3>2. \A a, b \in own : f[a] = f[b] => a = b
      OBVIOUS
    <3>3. \A p \in pairs : \E t \in own : f[t] = p
      BY <1>0 DEF Listening
    <3> QED
      BY <3>1, <3>2, <3>3 DEF Bijection, Injection, Surjection, IsInjective
  <2>4. IsFiniteSet(own)
    BY StreamsAre, FS_Intersection
  <2> HIDE DEF own, pairs, f
  <2>5. Cardinality(pairs) = Cardinality(own)
    BY <2>3, <2>4, FS_Bijection DEF ExistsBijection
  <2>6. Cardinality(Listening \ pairs) = Cardinality(Listening) - Cardinality(Listening \cap pairs)
    BY <2>1, FS_Difference
  <2> QED
    BY <1>0, <2>2, <2>5, <2>6 DEF own
<1> QED
  BY <1>0, <1>3, <1>4, <1>5 DEF HubInv, HubConsistent, Listening

LEMMA RegisteringKeepsIndices ==
  ASSUME HubInv, NEW c \in Clients, RegisterClient(c)
  PROVE  HubInv'
<1>0. /\ HubTyped /\ c \notin clients /\ clients' = clients \cup {c}
      /\ clientSubs' = [clientSubs EXCEPT ![c] = {}] /\ UNCHANGED <<subs, marketSubs>>
      /\ marketSubs = Cardinality(Listening) /\ \A t \in Streams : subs[t] = {d \in clients : t \in clientSubs[d]}
  BY DEF RegisterClient, HubInv, HubConsistent, Listening
<1>1. clientSubs[c] = {} /\ clientSubs' = clientSubs
  BY <1>0 DEF HubTyped
<1>2. HubTyped'
  BY <1>0, <1>1 DEF HubTyped
<1>3. Listening' = Listening
  BY <1>0, <1>1 DEF Listening
<1>4. \A t \in Streams : subs'[t] = {d \in clients' : t \in clientSubs'[d]}
  BY <1>0, <1>1
<1> QED
  BY <1>0, <1>2, <1>3, <1>4 DEF HubInv, HubConsistent, Listening

-----------------------------------------------------------------------------
(***************************************************************************)
(* Gateway: what the clients are sent of trades and of notifications.      *)
(***************************************************************************)
\* The streams of which nothing may be skipped, and what messages are made of.
Exact   == Streams \cap {"trades", "notifications"}
Loads   == Nat \cup Notices
Parcels == {m \in [stream : Streams, kind : Streams \cup {"control"}, body : Loads] :
              m.kind = m.stream \/ (m.kind = "control" /\ m.stream \in Feeds)}
Casts   == [step : {"idle", "collect", "send", "commit"}, body : Loads,
            kind : Streams \cup {"control", "none"}, to : SUBSET Clients]

\* The queues and the broadcasts hold messages of their stream, and only a broadcast
\* that sends has clients to send to.
DeliveryTyped ==
  /\ queue \in [Clients -> Seq(Parcels)]
  /\ seen = [c \in Clients |-> [s \in Streams |-> seen[c][s]]]
  /\ \A c \in Clients : \A s \in Exact : seen[c][s] \in Seq(Loads)
  /\ asked \in [Clients -> [stream : Streams \cup {"none"}, value : Int]]
  /\ redisValue \in [Feeds -> Nat] /\ handed \in Nat /\ consumed \in Nat
  /\ casting \in [Streams -> Casts]
  /\ \A s \in Streams : /\ casting[s].step # "send" => casting[s].to = {}
                        /\ casting[s].step \in {"collect", "send"} =>
                             casting[s].kind = s \/ (casting[s].kind = "control" /\ s \in Feeds)
  /\ since = [c \in Clients |-> since[c]]
  /\ \A c \in Clients : \A m \in since[c] : m.stream \in Exact

\* A client may be sent b after a; b has been handed out.
Ok(s, a, b) == IF s = "trades" THEN a >= b => b \in again ELSE a # b
Known(s, b) ==
  IF s = "trades" THEN b \in Nat /\ \A n \in Nat : handed < n /\ n <= b => n \in again ELSE b \in relayed

\* What a client has been and will be sent of a stream is in order; another message may
\* follow it.
InLine(c, s) ==
  /\ \A i, j \in 1..Len(seen[c][s]) : i < j => Ok(s, seen[c][s][i], seen[c][s][j])
  /\ \A i \in 1..Len(seen[c][s]) : \A j \in Waiting(c, s) : Ok(s, seen[c][s][i], queue[c][j].body)
  /\ \A i, j \in Waiting(c, s) : i < j => Ok(s, queue[c][i].body, queue[c][j].body)
Fresh(c, s, b) == \A x \in Coming(c, s) : Ok(s, x, b)

LinesSound == \A c \in Clients : \A s \in Exact : InLine(c, s) /\ \A x \in Coming(c, s) : Known(s, x)

\* A broadcast is of a message that none of those it goes to has been sent, or of one
\* that a new reader was given again.
CastsSound ==
  \A s \in Exact : /\ casting[s].step \in {"collect", "send"} => Known(s, casting[s].body)
                   /\ casting[s].step = "collect" => \A c \in Clients : Fresh(c, s, casting[s].body)
                   /\ \A c \in casting[s].to : Fresh(c, s, casting[s].body)

\* Who was subscribed when a message was broadcast has it coming, or is still to be sent it.
SinceSound ==
  \A c \in Clients \ closed : \A m \in since[c] :
    m.body \in Coming(c, m.stream) \/ (casting[m.stream].body = m.body /\ c \in casting[m.stream].to)

DeliveryInv == DeliveryTyped /\ LinesSound /\ CastsSound /\ SinceSound

LEMMA ExactAre ==
  /\ Exact \subseteq Streams /\ \A s \in Exact : s \notin Feeds /\ s # "control" /\ Lossless(s)
  /\ \A s \in Streams \ Exact : s \in Feeds /\ ~Lossless(s)
  /\ ~Lossless("control") /\ "control" \notin Streams
<1>1. Feeds \subseteq {"orderbook", "ticker"}
  BY GatewayAssumption
<1>2. \A s \in Streams : s \in Feeds \/ s = "trades" \/ s = "notifications"
  BY DEF Streams
<1> QED
  BY <1>1, <1>2 DEF Exact, Lossless

\* The bodies that are coming, one by one.
LEMMA ComingIs ==
  ASSUME DeliveryTyped, NEW c \in Clients, NEW s \in Exact
  PROVE  /\ \A x : x \in Coming(c, s) <=>
              \/ \E i \in 1..Len(seen[c][s]) : seen[c][s][i] = x
              \/ \E j \in Waiting(c, s) : queue[c][j].body = x
         /\ DOMAIN seen[c][s] = 1..Len(seen[c][s])
         /\ \A j : j \in Waiting(c, s) <=> j \in 1..Len(queue[c]) /\ queue[c][j].kind = s
<1>1. seen[c][s] \in Seq(Loads) /\ queue[c] \in Seq(Parcels)
  BY DEF DeliveryTyped
<1>2. DOMAIN seen[c][s] = 1..Len(seen[c][s]) /\ DOMAIN queue[c] = 1..Len(queue[c])
  BY <1>1
<1> QED
  BY <1>2 DEF Coming, Bodies, Waiting, ToSet

\* What the property says of a stream is what the invariant says of it.
LEMMA InLineIs ==
  ASSUME DeliveryTyped, NEW c \in Clients, NEW s \in Exact, InLine(c, s)
  PROVE  \A p \in SentBefore(c, s) : Ok(s, p[1], p[2])
<1>0. DOMAIN seen[c][s] = 1..Len(seen[c][s])
  BY ComingIs
<1> SUFFICES ASSUME NEW p \in SentBefore(c, s) PROVE Ok(s, p[1], p[2])
  OBVIOUS
<1>1. CASE p \in {<<seen[c][s][q[1]], seen[c][s][q[2]]>> :
                    q \in {r \in (DOMAIN seen[c][s]) \X (DOMAIN seen[c][s]) : r[1] < r[2]}}
  BY <1>0, <1>1 DEF InLine
<1>2. CASE p \in (ToSet(seen[c][s]) \X Bodies(c, s))
  BY <1>0, <1>2 DEF InLine, ToSet, Bodies
<1>3. CASE p \in {<<queue[c][q[1]].body, queue[c][q[2]].body>> :
                    q \in {r \in Waiting(c, s) \X Waiting(c, s) : r[1] < r[2]}}
  BY <1>3 DEF InLine
<1> QED
  BY <1>1, <1>2, <1>3 DEF SentBefore

LEMMA ExecutionsFollow == ASSUME DeliveryInv PROVE ExecutionsUnbroken
<1>0. DeliveryTyped /\ LinesSound /\ SinceSound
  BY DEF DeliveryInv
<1>1. ASSUME NEW c \in Clients \ closed, NEW m \in since[c]
      PROVE  m.body \in Coming(c, m.stream) \/ (casting[m.stream].body = m.body /\ c \in casting[m.stream].to)
  BY <1>0 DEF SinceSound
<1>2. ASSUME NEW c \in Clients \ closed, NEW s \in Exact, NEW p \in SentBefore(c, s)
      PROVE  Ok(s, p[1], p[2])
  BY <1>0, InLineIs DEF LinesSound
<1>3. ASSUME NEW c \in Clients \ closed, "trades" \in Streams, NEW p \in SentBefore(c, "trades"), p[1] >= p[2]
      PROVE  p[2] \in again
  BY <1>2, <1>3 DEF Exact, Ok
<1>4. ASSUME NEW c \in Clients \ closed, "notifications" \in Streams, NEW p \in SentBefore(c, "notifications")
      PROVE  p[1] # p[2]
  BY <1>2, <1>4 DEF Exact, Ok
<1> QED
  BY <1>1, <1>3, <1>4 DEF ExecutionsUnbroken

\* While nothing is sent or written, what is coming stays in order.
LEMMA LinesStay ==
  ASSUME DeliveryTyped, queue' = queue, \A c \in Clients : \A s \in Exact : seen'[c][s] = seen[c][s],
         again \subseteq again'
  PROVE  /\ \A c \in Clients : \A s \in Exact : Coming(c, s)' = Coming(c, s) /\ (InLine(c, s) => InLine(c, s)')
         /\ \A c \in Clients : \A s \in Exact : \A b : Fresh(c, s, b) => Fresh(c, s, b)'
<1>1. \A s, a, b : Ok(s, a, b) => Ok(s, a, b)'
  BY DEF Ok
<1>2. ASSUME NEW c \in Clients, NEW s \in Exact
      PROVE  Coming(c, s)' = Coming(c, s) /\ Waiting(c, s)' = Waiting(c, s)
  BY <1>2 DEF Coming, Bodies, Waiting
<1>3. ASSUME NEW c \in Clients, NEW s \in Exact, InLine(c, s) PROVE InLine(c, s)'
  BY <1>1, <1>2, <1>3 DEF InLine
<1>4. ASSUME NEW c \in Clients, NEW s \in Exact, NEW b, Fresh(c, s, b) PROVE Fresh(c, s, b)'
  BY <1>1, <1>2, <1>4 DEF Fresh
<1> QED
  BY <1>2, <1>3, <1>4

\* A message that is sent comes last.
LEMMA SendingIs ==
  ASSUME DeliveryTyped, LinesSound, NEW c \in Clients, NEW m \in Parcels, Send(c, m),
         UNCHANGED <<seen, again, handed, relayed>>,
         m.kind \in Exact => Fresh(c, m.kind, m.body) /\ Known(m.kind, m.body)
  PROVE  /\ queue' \in [Clients -> Seq(Parcels)] /\ closed \subseteq closed'
         /\ LinesSound'
         /\ \A d \in Clients : \A s \in Exact : /\ Coming(d, s) \subseteq Coming(d, s)'
                                                /\ d # c \/ s # m.kind => Coming(d, s)' = Coming(d, s)
         /\ m.kind \in Exact /\ c \notin closed' => m.body \in Coming(c, m.kind)'
<1>0. queue \in [Clients -> Seq(Parcels)] /\ \A d \in Clients : \A s \in Exact : seen[d][s] \in Seq(Loads)
  BY DEF DeliveryTyped
<1>1. closed \subseteq closed' /\ (~Fits(c) /\ m.kind \in Exact => c \in closed')
  BY ExactAre DEF Send
<1>2. (Fits(c) => queue' = [queue EXCEPT ![c] = Append(queue[c], m)]) /\ (~Fits(c) => queue' = queue)
  BY DEF Send
<1>3. \A s, b : (Known(s, b)' <=> Known(s, b)) /\ \A a : Ok(s, a, b)' <=> Ok(s, a, b)
  BY DEF Known, Ok
<1>4. CASE ~Fits(c)
  <2>1. queue' = queue
    BY <1>2, <1>4
  <2>2. \A d, s : Coming(d, s)' = Coming(d, s)
    BY <2>1 DEF Coming, Bodies, Waiting
  <2>3. LinesSound'
    BY <1>3, <2>1, <2>2, LinesStay DEF LinesSound
  <2> QED
    BY <1>0, <1>1, <1>4, <2>1, <2>2, <2>3
<1>5. CASE Fits(c)
  <2>1. /\ queue'[c] = Append(queue[c], m) /\ queue'[c] \in Seq(Parcels)
        /\ \A d \in Clients : d # c => queue'[d] = queue[d]
        /\ queue' \in [Clients -> Seq(Parcels)]
    <3>1. queue[c] \in Seq(Parcels) /\ queue' = [queue EXCEPT ![c] = Append(queue[c], m)]
      BY <1>0, <1>2, <1>5
    <3>2. Append(queue[c], m) \in Seq(Parcels)
      BY <3>1
    <3> QED
      BY <1>0, <3>1, <3>2
  <2> DEFINE n == Len(queue[c]) + 1
  <2>2. /\ n \in Nat /\ n > 0 /\ Len(queue'[c]) = n /\ queue'[c][n] = m
        /\ \A j \in 1..Len(queue[c]) : j \in 1..n /\ queue'[c][j] = queue[c][j] /\ j < n
        /\ \A j \in 1..n : j = n \/ j \in 1..Len(queue[c])
    BY <1>0, <2>1
  <2>3. \A d \in Clients : DOMAIN queue[d] = 1..Len(queue[d]) /\ DOMAIN queue'[d] = 1..Len(queue'[d])
    BY <1>0, <2>1
  <2> HIDE DEF n
  <2>4. \A d \in Clients : \A s \in Exact : d # c => Waiting(d, s)' = Waiting(d, s) /\ Coming(d, s)' = Coming(d, s)
    BY <2>1 DEF Coming, Bodies, Waiting
  <2>5. \A s \in Exact : Waiting(c, s)' = IF s = m.kind THEN Waiting(c, s) \cup {n} ELSE Waiting(c, s)
    <3>1. \A s, j : j \in Waiting(c, s)' <=> j \in 1..n /\ queue'[c][j].kind = s
      BY <2>2, <2>3 DEF Waiting
    <3>2. \A s, j : j \in Waiting(c, s) <=> j \in 1..Len(queue[c]) /\ queue[c][j].kind = s
      BY <2>3 DEF Waiting
    <3>3. n \in 1..n
      BY <2>2
    <3>4. ASSUME NEW s, NEW j PROVE j \in Waiting(c, s)' <=> (j \in Waiting(c, s) \/ (s = m.kind /\ j = n))
      <4>1. CASE j = n
        BY <2>2, <3>1, <3>2, <3>3, <4>1
      <4>2. CASE j # n
        BY <2>2, <3>1, <3>2, <4>2
      <4> QED
        BY <4>1, <4>2
    <3> QED
      BY <3>4
  <2>6. \A s : \A j \in Waiting(c, s) : queue'[c][j] = queue[c][j] /\ j < n /\ j \in 1..Len(queue[c])
    BY <2>2, <2>3 DEF Waiting
  <2>7. \A s \in Exact : Coming(c, s)' = IF s = m.kind THEN Coming(c, s) \cup {m.body} ELSE Coming(c, s)
    <3> SUFFICES ASSUME NEW s \in Exact
                 PROVE  Bodies(c, s)' = IF s = m.kind THEN Bodies(c, s) \cup {m.body} ELSE Bodies(c, s)
      BY DEF Coming
    <3>1. \A j \in Waiting(c, s) : queue'[c][j].body = queue[c][j].body
      BY <2>6
    <3>2. queue'[c][n].body = m.body
      BY <2>2
    <3> QED
      BY <2>5, <3>1, <3>2 DEF Bodies
  <2>8. ASSUME NEW s \in Exact PROVE InLine(c, s)'
    <3>1. InLine(c, s)
      BY DEF LinesSound
    <3>2. \A i, j \in 1..Len(seen[c][s]) : i < j => Ok(s, seen[c][s][i], seen[c][s][j])
      BY <1>3, <3>1 DEF InLine
    <3>3. ASSUME NEW x \in Coming(c, s), s = m.kind PROVE Ok(s, x, m.body)
      BY <1>3, <3>3 DEF Fresh
    <3>4. ASSUME NEW i \in 1..Len(seen[c][s]), NEW j \in Waiting(c, s)' PROVE Ok(s, seen[c][s][i], queue'[c][j].body)
      <4>1. CASE j \in Waiting(c, s)
        BY <1>3, <2>6, <3>1, <4>1 DEF InLine
      <4>2. CASE j \notin Waiting(c, s)
        <5>1. s = m.kind /\ j = n
          BY <2>5, <4>2
        <5>2. seen[c][s][i] \in Coming(c, s)
          BY ComingIs
        <5> QED
          BY <2>2, <3>3, <5>1, <5>2
      <4> QED
        BY <4>1, <4>2
    <3>5. ASSUME NEW i \in Waiting(c, s)', NEW j \in Waiting(c, s)', i < j
          PROVE  Ok(s, queue'[c][i].body, queue'[c][j].body)
      <4>1. CASE j \in Waiting(c, s)
        <5>1. i \in Waiting(c, s)
          BY <2>2, <2>5, <2>6, <3>5, <4>1
        <5> QED
          BY <1>3, <2>6, <3>1, <3>5, <4>1, <5>1 DEF InLine
      <4>2. CASE j \notin Waiting(c, s)
        <5>1. s = m.kind /\ j = n
          BY <2>5, <4>2
        <5>2. i \in Waiting(c, s)
          BY <2>2, <2>5, <3>5, <5>1
        <5>3. queue'[c][i].body \in Coming(c, s)
          BY <2>6, <5>2, ComingIs
        <5> QED
          BY <2>2, <3>3, <5>1, <5>3
      <4> QED
        BY <4>1, <4>2
    <3> QED
      BY <1>3, <3>2, <3>4, <3>5 DEF InLine
  <2>9. ASSUME NEW d \in Clients, d # c, NEW s \in Exact PROVE InLine(d, s)'
    <3>1. InLine(d, s)
      BY DEF LinesSound
    <3>2. Waiting(d, s)' = Waiting(d, s) /\ queue'[d] = queue[d]
      BY <2>1, <2>4, <2>9
    <3> QED
      BY <1>3, <3>1, <3>2 DEF InLine
  <2>10. LinesSound'
    <3>1. ASSUME NEW d \in Clients, NEW s \in Exact PROVE InLine(d, s)' /\ \A x \in Coming(d, s)' : Known(s, x)'
      <4>1. \A x \in Coming(d, s) : Known(s, x)
        BY DEF LinesSound
      <4>2. InLine(d, s)'
        BY <2>8, <2>9
      <4>3. \A x \in Coming(d, s)' : x \in Coming(d, s) \/ (d = c /\ s = m.kind /\ x = m.body)
        BY <2>4, <2>7
      <4> QED
        BY <1>3, <4>1, <4>2, <4>3
    <3> QED
      BY <3>1 DEF LinesSound
  <2> QED
    BY <1>1, <2>1, <2>4, <2>7, <2>10
<1> QED
  BY <1>4, <1>5

\* Writing moves the first message of a queue to what its client has been sent.
LEMMA WritingKeeps ==
  ASSUME DeliveryTyped, LinesSound, NEW c \in Clients, WritePump(c)
  PROVE  /\ queue' \in [Clients -> Seq(Parcels)]
         /\ seen' = [d \in Clients |-> [s \in Streams |-> seen'[d][s]]]
         /\ \A d \in Clients : \A s \in Exact : seen'[d][s] \in Seq(Loads)
         /\ LinesSound'
         /\ \A d \in Clients : \A s \in Exact : Coming(d, s)' = Coming(d, s)
<1> DEFINE m == Head(queue[c])
           becomes == IF m.kind = "control" THEN Append(seen[c][m.stream], 0)
                   ELSE IF m.kind \in Feeds THEN <<Highest(Append(seen[c][m.stream], m.body))>>
                   ELSE Append(seen[c][m.stream], m.body)
<1>0. /\ queue \in [Clients -> Seq(Parcels)] /\ queue[c] # <<>> /\ queue' = [queue EXCEPT ![c] = Tail(queue[c])]
      /\ seen' = IF m.kind = "control" /\ m.body = 1 THEN seen ELSE [seen EXCEPT ![c][m.stream] = becomes]
      /\ seen = [d \in Clients |-> [s \in Streams |-> seen[d][s]]]
      /\ \A d \in Clients : \A s \in Exact : seen[d][s] \in Seq(Loads)
      /\ UNCHANGED <<again, handed, relayed>>
  BY DEF DeliveryTyped, WritePump, sourceVars
<1>1. queue[c] \in Seq(Parcels) /\ m \in Parcels /\ Tail(queue[c]) \in Seq(Parcels)
  BY <1>0
<1>2. m.stream \in Streams /\ m.body \in Loads /\ (m.kind \in Exact => m.kind = m.stream) /\ (m.stream \in Exact => m.kind = m.stream)
  BY <1>1, ExactAre DEF Parcels
<1> HIDE DEF becomes, m
<1>3. /\ queue' \in [Clients -> Seq(Parcels)] /\ queue'[c] = Tail(queue[c])
      /\ \A d \in Clients : d # c => queue'[d] = queue[d]
  BY <1>0, <1>1
<1>4. \A s, a, b : (Known(s, b)' <=> Known(s, b)) /\ (Ok(s, a, b)' <=> Ok(s, a, b))
  BY <1>0 DEF Known, Ok
\* What has been sent of the streams that lose nothing.
<1>5. /\ \A d \in Clients : \A s \in Streams : (d # c \/ s # m.stream) => seen'[d][s] = seen[d][s]
      /\ m.stream \in Exact => seen'[c][m.stream] = Append(seen[c][m.stream], m.body)
      /\ seen' = [d \in Clients |-> [s \in Streams |-> seen'[d][s]]]
  <2>1. CASE seen' = seen
    <3>1. m.stream \notin Exact \/ seen' = [seen EXCEPT ![c][m.stream] = becomes]
      BY <1>0, <1>2, ExactAre
    <3>2. CASE m.stream \notin Exact
      BY <1>0, <2>1, <3>2
    <3>3. CASE m.stream \in Exact
      <4>1. seen' = [seen EXCEPT ![c][m.stream] = becomes]
        BY <3>1, <3>3
      <4>2. seen'[c][m.stream] = becomes
        BY <1>0, <1>2, <4>1
      <4>3. becomes = Append(seen[c][m.stream], m.body)
        BY <1>2, <3>3, ExactAre DEF becomes
      <4> QED
        BY <1>0, <2>1, <4>2, <4>3
    <3> QED
      BY <3>2, <3>3
  <2>2. CASE seen' = [seen EXCEPT ![c][m.stream] = becomes]
    <3>1. \A d \in Clients : \A s \in Streams : seen'[d][s] = IF d = c /\ s = m.stream THEN becomes ELSE seen[d][s]
      BY <1>0, <1>2, <2>2
    <3>2. seen' = [d \in Clients |-> [s \in Streams |-> IF d = c /\ s = m.stream THEN becomes ELSE seen[d][s]]]
      BY <1>0, <1>2, <2>2
    <3>3. m.stream \in Exact => becomes = Append(seen[c][m.stream], m.body)
      BY <1>2, ExactAre DEF becomes
    <3> HIDE DEF becomes
    <3> QED
      BY <1>2, <3>1, <3>2, <3>3
  <2> QED
    BY <1>0, <2>1, <2>2
<1>6. \A d \in Clients : \A s \in Exact : seen'[d][s] \in Seq(Loads)
  <2> SUFFICES ASSUME NEW d \in Clients, NEW s \in Exact PROVE seen'[d][s] \in Seq(Loads)
    OBVIOUS
  <2>1. CASE d = c /\ s = m.stream
    <3>1. seen[c][s] \in Seq(Loads)
      BY <1>0
    <3>2. Append(seen[c][s], m.body) \in Seq(Loads)
      BY <1>2, <3>1
    <3> QED
      BY <1>5, <2>1, <3>2
  <2>2. CASE d # c \/ s # m.stream
    BY <1>0, <1>5, <2>2, ExactAre
  <2> QED
    BY <2>1, <2>2
<1>7. /\ Len(queue[c]) \in Nat /\ Len(queue[c]) > 0 /\ queue[c][1] = m /\ Len(queue'[c]) = Len(queue[c]) - 1
      /\ \A j \in 1..Len(queue'[c]) : j + 1 \in 1..Len(queue[c]) /\ queue'[c][j] = queue[c][j + 1]
      /\ DOMAIN queue[c] = 1..Len(queue[c]) /\ DOMAIN queue'[c] = 1..Len(queue'[c])
  BY <1>0, <1>1, <1>3 DEF m
\* The queue of c, but for the message written, has moved up by one.
<1>8. ASSUME NEW s \in Exact
      PROVE  /\ \A j : j \in Waiting(c, s)' => j \in Nat /\ j + 1 \in Waiting(c, s) /\ queue'[c][j] = queue[c][j + 1]
             /\ \A j : j \in Waiting(c, s) => j \in Nat /\ (j = 1 \/ (j - 1 \in Waiting(c, s)' /\ queue'[c][j - 1] = queue[c][j]))
             /\ 1 \in Waiting(c, s) <=> m.stream = s
  <2>1. ASSUME NEW j, j \in Waiting(c, s)'
        PROVE  j \in Nat /\ j + 1 \in Waiting(c, s) /\ queue'[c][j] = queue[c][j + 1]
    BY <1>7, <2>1 DEF Waiting
  <2>2. ASSUME NEW j, j \in Waiting(c, s), j # 1
        PROVE  j \in Nat /\ j - 1 \in Waiting(c, s)' /\ queue'[c][j - 1] = queue[c][j]
    <3>1. j \in 1..Len(queue[c]) /\ queue[c][j].kind = s /\ j - 1 \in 1..Len(queue'[c])
      BY <1>7, <2>2 DEF Waiting
    <3>2. queue'[c][j - 1] = queue[c][j]
      BY <1>7, <3>1
    <3> QED
      BY <1>7, <3>1, <3>2 DEF Waiting
  <2>3. 1 \in Waiting(c, s) <=> m.stream = s
    BY <1>2, <1>7, <1>8 DEF Waiting
  <2> QED
    BY <2>1, <2>2, <2>3
<1>9. ASSUME NEW d \in Clients, NEW s \in Exact, d # c \/ s # m.stream
      PROVE  Coming(d, s)' = Coming(d, s) /\ InLine(d, s)'
  <2>1. InLine(d, s) /\ seen'[d][s] = seen[d][s]
    BY <1>5, <1>9, ExactAre DEF LinesSound
  <2>2. CASE d # c
    <3>1. Waiting(d, s)' = Waiting(d, s) /\ Coming(d, s)' = Coming(d, s) /\ queue'[d] = queue[d]
      BY <1>3, <2>1, <2>2 DEF Waiting, Coming, Bodies
    <3> QED
      BY <1>4, <2>1, <3>1 DEF InLine
  <2>3. CASE d = c /\ s # m.stream
    <3>1. \A j \in Waiting(c, s)' : j \in Nat /\ j + 1 \in Waiting(c, s) /\ queue'[c][j] = queue[c][j + 1]
      BY <1>8
    <3>2. \A j \in Waiting(c, s) : j \in Nat /\ j - 1 \in Waiting(c, s)' /\ queue'[c][j - 1] = queue[c][j]
      BY <1>8, <2>3
    <3>3. Bodies(c, s)' = Bodies(c, s)
      BY <3>1, <3>2 DEF Bodies
    <3>4. Coming(c, s)' = Coming(c, s)
      BY <2>1, <2>3, <3>3 DEF Coming
    <3>5. ASSUME NEW i \in 1..Len(seen[c][s]), NEW j \in Waiting(c, s)' PROVE Ok(s, seen[c][s][i], queue'[c][j].body)
      BY <2>1, <2>3, <3>1 DEF InLine
    <3>6. ASSUME NEW i \in Waiting(c, s)', NEW j \in Waiting(c, s)', i < j
          PROVE  Ok(s, queue'[c][i].body, queue'[c][j].body)
      <4>1. i + 1 \in Waiting(c, s) /\ j + 1 \in Waiting(c, s) /\ i + 1 < j + 1
        BY <3>1, <3>6
      <4>2. Ok(s, queue[c][i + 1].body, queue[c][j + 1].body)
        BY <2>1, <2>3, <4>1 DEF InLine
      <4> QED
        BY <3>1, <4>2
    <3>7. \A i, j \in 1..Len(seen[c][s]) : i < j => Ok(s, seen[c][s][i], seen[c][s][j])
      BY <2>1, <2>3 DEF InLine
    <3>8. InLine(c, s)'
      BY <1>4, <2>1, <2>3, <3>5, <3>6, <3>7 DEF InLine
    <3> QED
      BY <2>3, <3>4, <3>8
  <2> QED
    BY <1>9, <2>2, <2>3
<1>10. ASSUME NEW s \in Exact, s = m.stream PROVE Coming(c, s)' = Coming(c, s) /\ InLine(c, s)'
  <2> DEFINE n == Len(seen[c][s]) + 1
  <2>1. /\ n \in Nat /\ n > 0 /\ seen'[c][s] = Append(seen[c][s], m.body) /\ Len(seen'[c][s]) = n /\ seen'[c][s][n] = m.body
        /\ \A i \in 1..Len(seen[c][s]) : i \in 1..n /\ seen'[c][s][i] = seen[c][s][i] /\ i < n
        /\ \A i \in 1..n : i = n \/ i \in 1..Len(seen[c][s])
        /\ n \in 1..n
        /\ DOMAIN seen[c][s] = 1..Len(seen[c][s]) /\ DOMAIN seen'[c][s] = 1..n
    <3>1. seen[c][s] \in Seq(Loads) /\ seen'[c][s] = Append(seen[c][s], m.body)
      BY <1>0, <1>5, <1>10
    <3> QED
      BY <1>2, <3>1
  <2> HIDE DEF n
  <2>2. /\ \A j \in Waiting(c, s)' : j \in Nat /\ j + 1 \in Waiting(c, s) /\ queue'[c][j] = queue[c][j + 1]
        /\ \A j \in Waiting(c, s) : j \in Nat /\ (j = 1 \/ (j - 1 \in Waiting(c, s)' /\ queue'[c][j - 1] = queue[c][j]))
        /\ 1 \in Waiting(c, s) /\ queue[c][1].body = m.body
    BY <1>7, <1>8, <1>10
  <2>3. ToSet(seen'[c][s]) = ToSet(seen[c][s]) \cup {m.body}
    BY <2>1 DEF ToSet
  <2>4. Bodies(c, s) = Bodies(c, s)' \cup {m.body}
    <3>1. ASSUME NEW j \in Waiting(c, s) PROVE queue[c][j].body = m.body \/ queue[c][j].body \in Bodies(c, s)'
      BY <2>2 DEF Bodies
    <3>2. ASSUME NEW j \in Waiting(c, s)' PROVE queue'[c][j].body \in Bodies(c, s)
      BY <2>2 DEF Bodies
    <3>3. m.body \in Bodies(c, s)
      BY <2>2 DEF Bodies
    <3> QED
      BY <3>1, <3>2, <3>3 DEF Bodies
  <2>5. Coming(c, s)' = Coming(c, s)
    BY <2>3, <2>4 DEF Coming
  <2>6. InLine(c, s)
    BY DEF LinesSound
  <2>7. \A i, j \in 1..n : i < j => Ok(s, seen'[c][s][i], seen'[c][s][j])
    <3> SUFFICES ASSUME NEW i \in 1..n, NEW j \in 1..n, i < j PROVE Ok(s, seen'[c][s][i], seen'[c][s][j])
      OBVIOUS
    <3>1. i \in 1..Len(seen[c][s]) /\ seen'[c][s][i] = seen[c][s][i]
      BY <2>1
    <3>2. CASE j = n
      BY <2>1, <2>2, <2>6, <3>1, <3>2 DEF InLine
    <3>3. CASE j # n
      BY <2>1, <2>6, <3>1, <3>3 DEF InLine
    <3> QED
      BY <3>2, <3>3
  <2>8. \A i \in 1..n : \A j \in Waiting(c, s)' : Ok(s, seen'[c][s][i], queue'[c][j].body)
    <3> SUFFICES ASSUME NEW i \in 1..n, NEW j \in Waiting(c, s)' PROVE Ok(s, seen'[c][s][i], queue'[c][j].body)
      OBVIOUS
    <3>1. j \in Nat /\ j + 1 \in Waiting(c, s) /\ queue'[c][j] = queue[c][j + 1]
      BY <2>2
    <3>2. CASE i = n
      <4>1. 1 < j + 1
        <5>1. j \in 1..Len(queue'[c])
          BY <1>7 DEF Waiting
        <5> QED
          BY <5>1
      <4>2. Ok(s, queue[c][1].body, queue[c][j + 1].body)
        BY <2>2, <2>6, <3>1, <4>1 DEF InLine
      <4> QED
        BY <2>1, <2>2, <3>1, <3>2, <4>2
    <3>3. CASE i # n
      BY <2>1, <2>6, <3>1, <3>3 DEF InLine
    <3> QED
      BY <3>2, <3>3
  <2>9. \A i, j \in Waiting(c, s)' : i < j => Ok(s, queue'[c][i].body, queue'[c][j].body)
    <3> SUFFICES ASSUME NEW i \in Waiting(c, s)', NEW j \in Waiting(c, s)', i < j
                 PROVE Ok(s, queue'[c][i].body, queue'[c][j].body)
      OBVIOUS
    <3>1. i + 1 \in Waiting(c, s) /\ j + 1 \in Waiting(c, s) /\ i + 1 < j + 1
          /\ queue'[c][i] = queue[c][i + 1] /\ queue'[c][j] = queue[c][j + 1]
      BY <2>2
    <3>2. Ok(s, queue[c][i + 1].body, queue[c][j + 1].body)
      BY <2>6, <3>1 DEF InLine
    <3> QED
      BY <3>1, <3>2
  <2> QED
    BY <1>4, <2>1, <2>5, <2>7, <2>8, <2>9 DEF InLine
<1>11. LinesSound'
  BY <1>4, <1>9, <1>10 DEF LinesSound
<1> QED
  BY <1>3, <1>5, <1>6, <1>9, <1>10, <1>11

\* Steps that send nothing and begin no broadcast.
LEMMA QuietKeeps ==
  ASSUME DeliveryInv, UNCHANGED <<queue, seen, casting, again, handed, relayed>>, closed \subseteq closed',
         since' = [c \in Clients |-> since'[c]], \A c \in Clients : since'[c] \subseteq since[c],
         asked' \in [Clients -> [stream : Streams \cup {"none"}, value : Int]],
         redisValue' \in [Feeds -> Nat], consumed' \in Nat
  PROVE  DeliveryInv'
<1>0. DeliveryTyped /\ LinesSound /\ CastsSound /\ SinceSound
  BY DEF DeliveryInv
<1>1. \A c \in Clients : \A s \in Exact : /\ Coming(c, s)' = Coming(c, s) /\ (InLine(c, s) => InLine(c, s)')
                                          /\ \A b : Fresh(c, s, b) => Fresh(c, s, b)'
  BY <1>0, LinesStay
<1>2. \A s, b : Known(s, b)' <=> Known(s, b)
  BY DEF Known
<1>3. DeliveryTyped'
  <2>1. \A c \in Clients : \A m \in since'[c] : m.stream \in Exact
    BY <1>0 DEF DeliveryTyped
  <2> QED
    BY <1>0, <2>1 DEF DeliveryTyped
<1>4. LinesSound'
  BY <1>0, <1>1, <1>2 DEF LinesSound
<1>5. CastsSound'
  <2>1. \A s \in Exact : casting[s].to \subseteq Clients
    BY <1>0 DEF DeliveryTyped, Casts, Exact
  <2>2. ASSUME NEW s \in Exact
        PROVE  /\ casting[s].step \in {"collect", "send"} => Known(s, casting[s].body)'
               /\ casting[s].step = "collect" => \A c \in Clients : Fresh(c, s, casting[s].body)'
               /\ \A c \in casting[s].to : Fresh(c, s, casting[s].body)'
    <3>1. PICK b : b = casting[s].body
      OBVIOUS
    <3>2. /\ casting[s].step \in {"collect", "send"} => Known(s, b)
          /\ casting[s].step = "collect" => \A c \in Clients : Fresh(c, s, b)
          /\ \A c \in casting[s].to : Fresh(c, s, b)
      BY <1>0, <3>1 DEF CastsSound
    <3>3. /\ casting[s].step \in {"collect", "send"} => Known(s, b)'
          /\ casting[s].step = "collect" => \A c \in Clients : Fresh(c, s, b)'
          /\ \A c \in casting[s].to : Fresh(c, s, b)'
      BY <1>1, <1>2, <2>1, <3>2
    <3>4. b = casting'[s].body
      BY <3>1
    <3> QED
      BY <3>3, <3>4
  <2> QED
    BY <2>2 DEF CastsSound
<1>6. SinceSound'
  <2> SUFFICES ASSUME NEW c \in Clients \ closed', NEW m \in since'[c]
               PROVE  m.body \in Coming(c, m.stream)' \/ (casting[m.stream].body = m.body /\ c \in casting[m.stream].to)
    BY DEF SinceSound
  <2>1. c \in Clients \ closed /\ m \in since[c] /\ m.stream \in Exact
    BY <1>0 DEF DeliveryTyped
  <2>2. PICK s \in Exact : s = m.stream
    BY <2>1
  <2>3. Coming(c, s)' = Coming(c, s)
    BY <1>1
  <2>4. m.body \in Coming(c, s) \/ (casting[s].body = m.body /\ c \in casting[s].to)
    BY <1>0, <2>1, <2>2 DEF SinceSound
  <2> QED
    BY <2>2, <2>3, <2>4
<1> QED
  BY <1>3, <1>4, <1>5, <1>6 DEF DeliveryInv

\* A broadcast that has nobody left to send to becomes h.
LEMMA RecastKeeps ==
  ASSUME DeliveryInv, UNCHANGED <<queue, seen, closed, asked, redisValue>>, again \subseteq again',
         handed' \in Nat, consumed' \in Nat,
         \A t \in Exact : \A b : Known(t, b) => Known(t, b)',
         NEW s \in Streams, NEW h \in Casts, casting' = [casting EXCEPT ![s] = h], casting[s].to = {},
         h.step # "send" => h.to = {},
         h.step \in {"collect", "send"} => h.kind = s \/ (h.kind = "control" /\ s \in Feeds),
         s \in Exact =>
           /\ h.step \in {"collect", "send"} => Known(s, h.body)'
           /\ h.step = "collect" \/ h.to # {} => \A c \in Clients : Fresh(c, s, h.body)',
         since' = [c \in Clients |-> since'[c]],
         \A c \in Clients : \A m \in since'[c] :
           m \in since[c] \/ (s \in Exact /\ m.stream = s /\ m.body = h.body /\ c \in h.to)
  PROVE  DeliveryInv'
<1>0. DeliveryTyped /\ LinesSound /\ CastsSound /\ SinceSound
  BY DEF DeliveryInv
<1>1. \A c \in Clients : \A t \in Exact : /\ Coming(c, t)' = Coming(c, t) /\ (InLine(c, t) => InLine(c, t)')
                                          /\ \A b : Fresh(c, t, b) => Fresh(c, t, b)'
  BY <1>0, LinesStay
<1>2. casting' \in [Streams -> Casts] /\ casting'[s] = h /\ \A t \in Streams : t # s => casting'[t] = casting[t]
  BY <1>0 DEF DeliveryTyped
<1>3. DeliveryTyped'
  <2>1. \A c \in Clients : \A m \in since'[c] : m.stream \in Exact
    BY <1>0 DEF DeliveryTyped
  <2>2. \A t \in Streams : /\ casting'[t].step # "send" => casting'[t].to = {}
                           /\ casting'[t].step \in {"collect", "send"} =>
                                casting'[t].kind = t \/ (casting'[t].kind = "control" /\ t \in Feeds)
    BY <1>0, <1>2 DEF DeliveryTyped
  <2> QED
    BY <1>0, <1>2, <2>1, <2>2 DEF DeliveryTyped
<1>4. LinesSound'
  BY <1>0, <1>1 DEF LinesSound
<1>5. CastsSound'
  <2>1. \A t \in Exact : t \in Streams /\ casting[t].to \subseteq Clients
    BY <1>0 DEF DeliveryTyped, Casts, Exact
  <2>2. ASSUME NEW t \in Exact
        PROVE  /\ casting'[t].step \in {"collect", "send"} => Known(t, casting[t].body)'
               /\ casting'[t].step = "collect" => \A c \in Clients : Fresh(c, t, casting[t].body)'
               /\ \A c \in casting'[t].to : Fresh(c, t, casting[t].body)'
    <3>1. PICK b : b = casting'[t].body
      OBVIOUS
    <3>2. CASE t = s
      <4>1. casting'[t] = h /\ b = h.body /\ h.to \subseteq Clients
        BY <1>2, <3>1, <3>2 DEF Casts
      <4>2. /\ h.step \in {"collect", "send"} => Known(t, b)'
            /\ h.step = "collect" \/ h.to # {} => \A c \in Clients : Fresh(c, t, b)'
        BY <3>2, <4>1
      <4>3. /\ casting'[t].step \in {"collect", "send"} => Known(t, b)'
            /\ casting'[t].step = "collect" => \A c \in Clients : Fresh(c, t, b)'
            /\ \A c \in casting'[t].to : Fresh(c, t, b)'
        BY <4>1, <4>2
      <4> QED
        BY <3>1, <4>3
    <3>3. CASE t # s
      <4>1. casting'[t] = casting[t]
        BY <1>2, <2>1, <3>3
      <4>2. /\ casting[t].step \in {"collect", "send"} => Known(t, b)
            /\ casting[t].step = "collect" => \A c \in Clients : Fresh(c, t, b)
            /\ \A c \in casting[t].to : Fresh(c, t, b)
        BY <1>0, <3>1, <4>1 DEF CastsSound
      <4>3. /\ casting'[t].step \in {"collect", "send"} => Known(t, b)'
            /\ casting'[t].step = "collect" => \A c \in Clients : Fresh(c, t, b)'
            /\ \A c \in casting'[t].to : Fresh(c, t, b)'
        BY <1>1, <2>1, <4>1, <4>2
      <4> QED
        BY <3>1, <4>3
    <3> QED
      BY <3>2, <3>3
  <2> QED
    BY <2>2 DEF CastsSound
<1>6. SinceSound'
  <2> SUFFICES ASSUME NEW c \in Clients \ closed', NEW m \in since'[c]
               PROVE  m.body \in Coming(c, m.stream)' \/ (casting'[m.stream].body = m.body /\ c \in casting'[m.stream].to)
    BY DEF SinceSound
  <2>1. CASE s \in Exact /\ m.stream = s /\ m.body = h.body /\ c \in h.to
    BY <1>2, <2>1
  <2>2. CASE m \in since[c]
    <3>1. PICK t \in Exact : t = m.stream
      BY <1>0, <2>2 DEF DeliveryTyped
    <3>2. m.body \in Coming(c, t) \/ (casting[t].body = m.body /\ c \in casting[t].to)
      BY <1>0, <2>2, <3>1 DEF SinceSound
    <3>3. Coming(c, t)' = Coming(c, t)
      BY <1>1
    <3>4. casting[t].body = m.body /\ c \in casting[t].to => casting'[t] = casting[t]
      BY <1>2 DEF Exact
    <3> QED
      BY <3>1, <3>2, <3>3, <3>4
  <2> QED
    BY <2>1, <2>2
<1> QED
  BY <1>3, <1>4, <1>5, <1>6 DEF DeliveryInv

\* A message is sent to c, of which a broadcast takes notice.
LEMMA SendKeeps ==
  ASSUME DeliveryInv, NEW c \in Clients, NEW m \in Parcels, Send(c, m),
         UNCHANGED <<seen, again, handed, relayed, since, consumed, redisValue>>,
         asked' \in [Clients -> [stream : Streams \cup {"none"}, value : Int]],
         m.kind \in Exact => Fresh(c, m.kind, m.body) /\ Known(m.kind, m.body),
         casting' \in [Streams -> Casts],
         \A t \in Streams : /\ casting'[t].step = casting[t].step /\ casting'[t].kind = casting[t].kind
                            /\ casting'[t].body = casting[t].body
                            /\ \/ casting'[t].to = casting[t].to
                               \/ /\ casting'[t].to = casting[t].to \ {c}
                                  /\ t \in Exact => m.kind = t /\ m.body = casting[t].body,
         \A t \in Exact : m.kind = t => c \notin casting'[t].to /\ casting[t].step = "send"
  PROVE  DeliveryInv'
<1>0. DeliveryTyped /\ LinesSound /\ CastsSound /\ SinceSound
  BY DEF DeliveryInv
<1>1. /\ queue' \in [Clients -> Seq(Parcels)] /\ closed \subseteq closed'
      /\ LinesSound'
      /\ \A d \in Clients : \A s \in Exact : /\ Coming(d, s) \subseteq Coming(d, s)'
                                             /\ d # c \/ s # m.kind => Coming(d, s)' = Coming(d, s)
      /\ m.kind \in Exact /\ c \notin closed' => m.body \in Coming(c, m.kind)'
  BY <1>0, SendingIs
<1>2. \A s, b : (Known(s, b)' <=> Known(s, b)) /\ \A a : Ok(s, a, b)' <=> Ok(s, a, b)
  BY DEF Known, Ok
<1>3. \A d \in Clients : \A s \in Exact : d # c \/ s # m.kind => \A b : Fresh(d, s, b) => Fresh(d, s, b)'
  BY <1>1, <1>2 DEF Fresh
<1>4. \A t \in Exact : t \in Streams /\ casting[t].to \subseteq Clients
  BY <1>0 DEF DeliveryTyped, Casts, Exact
<1>5. DeliveryTyped'
  <2>1. \A t \in Streams : /\ casting'[t].step # "send" => casting'[t].to = {}
                           /\ casting'[t].step \in {"collect", "send"} =>
                                casting'[t].kind = t \/ (casting'[t].kind = "control" /\ t \in Feeds)
    BY <1>0 DEF DeliveryTyped
  <2> QED
    BY <1>0, <1>1, <2>1 DEF DeliveryTyped
<1>6. CastsSound'
  <2> SUFFICES ASSUME NEW t \in Exact
               PROVE  /\ casting'[t].step \in {"collect", "send"} => Known(t, casting[t].body)'
                      /\ casting'[t].step = "collect" => \A d \in Clients : Fresh(d, t, casting[t].body)'
                      /\ \A d \in casting'[t].to : Fresh(d, t, casting[t].body)'
    BY DEF CastsSound
  <2>1. PICK b : b = casting[t].body
    OBVIOUS
  <2>2. /\ casting[t].step \in {"collect", "send"} => Known(t, b)
        /\ casting[t].step = "collect" => \A d \in Clients : Fresh(d, t, b)
        /\ \A d \in casting[t].to : Fresh(d, t, b)
    BY <1>0, <2>1 DEF CastsSound
  <2>3. /\ casting'[t].step = casting[t].step /\ b = casting'[t].body /\ casting'[t].to \subseteq casting[t].to
    BY <1>4, <2>1
  <2>4. casting[t].step = "collect" => \A d \in Clients : Fresh(d, t, b)'
    BY <1>3, <2>2
  <2>5. \A d \in casting'[t].to : Fresh(d, t, b)'
    BY <1>3, <1>4, <2>2, <2>3
  <2> QED
    BY <1>2, <2>2, <2>3, <2>4, <2>5
<1>7. SinceSound'
  <2> SUFFICES ASSUME NEW d \in Clients \ closed', NEW n \in since[d]
               PROVE  n.body \in Coming(d, n.stream)' \/ (casting'[n.stream].body = n.body /\ d \in casting'[n.stream].to)
    BY DEF SinceSound
  <2>1. PICK t \in Exact : t = n.stream
    BY <1>0 DEF DeliveryTyped
  <2>2. n.body \in Coming(d, t) \/ (casting[t].body = n.body /\ d \in casting[t].to)
    BY <1>0, <1>1, <2>1 DEF SinceSound
  <2>3. CASE n.body \in Coming(d, t)
    BY <1>1, <2>1, <2>3
  <2>4. CASE casting[t].body = n.body /\ d \in casting[t].to /\ d \in casting'[t].to
    BY <1>4, <2>1, <2>4
  <2>5. CASE casting[t].body = n.body /\ d \in casting[t].to /\ d \notin casting'[t].to
    <3>1. d = c /\ m.kind = t /\ m.body = casting[t].body
      BY <1>4, <2>5
    <3>2. m.body \in Coming(c, m.kind)'
      BY <1>1, <3>1
    <3>3. PICK k : k = m.kind
      OBVIOUS
    <3>4. m.body \in Coming(c, k)'
      BY <3>2, <3>3
    <3> QED
      BY <2>1, <2>5, <3>1, <3>3, <3>4
  <2> QED
    BY <2>2, <2>3, <2>4, <2>5
<1> QED
  BY <1>1, <1>5, <1>6, <1>7 DEF DeliveryInv

LEMMA SnapshotKeeps == ASSUME DeliveryInv, NEW c \in Clients, SendSnapshot(c) PROVE DeliveryInv'
<1> DEFINE f == asked[c].stream
           m == IF asked[c].value = 0 THEN Parcel(f, "control", 1) ELSE Parcel(f, f, asked[c].value)
<1>0. /\ DeliveryTyped /\ f \in Feeds /\ asked[c].value >= 0 /\ Send(c, m) /\ asked' = [asked EXCEPT ![c] = Ready]
      /\ UNCHANGED <<seen, again, handed, relayed, since, consumed, redisValue, casting>>
  BY DEF DeliveryInv, SendSnapshot, sourceVars, keyVars
<1>1. asked \in [Clients -> [stream : Streams \cup {"none"}, value : Int]]
  BY <1>0 DEF DeliveryTyped
<1>2. asked[c].value \in Nat /\ f \in Streams /\ 0 \in Nat /\ 1 \in Nat
  BY <1>0, <1>1, StreamsAre
<1>3. m \in Parcels /\ m.kind \notin Exact
  BY <1>0, <1>2, ExactAre DEF Parcel, Parcels, Loads
<1>4. Ready \in [stream : Streams \cup {"none"}, value : Int]
  BY DEF Ready
<1>5. asked' \in [Clients -> [stream : Streams \cup {"none"}, value : Int]]
  BY <1>0, <1>1, <1>4
<1>6. casting' \in [Streams -> Casts]
  BY <1>0 DEF DeliveryTyped
<1> HIDE DEF m, f
<1> QED
  BY <1>0, <1>3, <1>5, <1>6, SendKeeps

LEMMA SendToKeeps == ASSUME DeliveryInv, NEW s \in Streams, NEW c \in Clients, SendTo(s, c) PROVE DeliveryInv'
<1> DEFINE g == casting[s]
           m == Parcel(s, g.kind, g.body)
           h == [step |-> g.step, body |-> g.body, kind |-> g.kind, to |-> g.to \ {c}]
<1>0. /\ DeliveryTyped /\ CastsSound /\ g.step = "send" /\ c \in g.to /\ Send(c, m)
      /\ casting' = [casting EXCEPT ![s].to = g.to \ {c}]
      /\ UNCHANGED <<seen, again, handed, relayed, since, consumed, redisValue, asked>>
  BY DEF DeliveryInv, SendTo, sourceVars, keyVars
<1>1. g \in Casts /\ casting \in [Streams -> Casts]
  BY <1>0 DEF DeliveryTyped
<1>2. casting' = [casting EXCEPT ![s] = h] /\ h \in Casts
  <2>1. g = [step |-> g.step, body |-> g.body, kind |-> g.kind, to |-> g.to]
    BY <1>1 DEF Casts
  <2>2. [g EXCEPT !.to = g.to \ {c}] = h
    BY <2>1
  <2>3. casting' = [casting EXCEPT ![s] = [g EXCEPT !.to = g.to \ {c}]]
    BY <1>0
  <2>4. h \in Casts
    BY <1>1 DEF Casts
  <2> QED
    BY <2>2, <2>3, <2>4
<1>3. g.kind = s \/ (g.kind = "control" /\ s \in Feeds)
  BY <1>0 DEF DeliveryTyped
<1>4. m \in Parcels /\ m.kind = g.kind /\ m.body = g.body
  <2>1. g.body \in Loads
    BY <1>1 DEF Casts
  <2> QED
    BY <1>3, <2>1 DEF Parcel, Parcels
<1>5. m.kind \in Exact => m.kind = s
  BY <1>3, <1>4, ExactAre
<1>6. m.kind \in Exact => Fresh(c, m.kind, m.body) /\ Known(m.kind, m.body)
  BY <1>0, <1>4, <1>5 DEF CastsSound
<1>7. s \in Exact => m.kind = s /\ m.body = casting[s].body
  BY <1>3, <1>4, ExactAre
<1>8. h.step = g.step /\ h.kind = g.kind /\ h.body = g.body /\ h.to = g.to \ {c}
  OBVIOUS
<1> HIDE DEF m, h
<1>9. casting' \in [Streams -> Casts] /\ casting'[s] = h /\ \A t \in Streams : t # s => casting'[t] = casting[t]
  BY <1>1, <1>2
<1>10. \A t \in Streams : /\ casting'[t].step = casting[t].step /\ casting'[t].kind = casting[t].kind
                          /\ casting'[t].body = casting[t].body
                          /\ \/ casting'[t].to = casting[t].to
                             \/ /\ casting'[t].to = casting[t].to \ {c}
                                /\ t \in Exact => m.kind = t /\ m.body = casting[t].body
  BY <1>7, <1>8, <1>9
<1>11. \A t \in Exact : m.kind = t => c \notin casting'[t].to /\ casting[t].step = "send"
  BY <1>0, <1>5, <1>8, <1>9
<1>12. asked' \in [Clients -> [stream : Streams \cup {"none"}, value : Int]]
  BY <1>0 DEF DeliveryTyped
<1>13. UNCHANGED <<seen, again, handed, relayed, since, consumed, redisValue>> /\ Send(c, m) /\ m \in Parcels
  BY <1>0, <1>4
<1>14. casting' \in [Streams -> Casts]
  BY <1>9
<1> HIDE DEF g
<1> QED
  BY <1>6, <1>10, <1>11, <1>12, <1>13, <1>14, SendKeeps

\* A quiet client step: sessions, subscriptions and the reading of a snapshot.
LEMMA SessionKeeps ==
  ASSUME DeliveryInv, NEW c \in Clients,
         \/ RegisterClient(c) \/ ConnectionLost(c) \/ Unregister(c) \/ ReadSnapshot(c)
         \/ \E s \in Streams : Subscribe(c, s) \/ Unsubscribe(c, s)
  PROVE  DeliveryInv'
<1>0. /\ asked \in [Clients -> [stream : Streams \cup {"none"}, value : Int]]
      /\ redisValue \in [Feeds -> Nat] /\ consumed \in Nat /\ since = [d \in Clients |-> since[d]]
  BY DEF DeliveryInv, DeliveryTyped
<1>1. /\ UNCHANGED <<queue, seen, casting, again, handed, relayed, redisValue, consumed>> /\ closed \subseteq closed'
  BY DEF RegisterClient, ConnectionLost, Unregister, ReadSnapshot, Subscribe, Unsubscribe, sourceVars, keyVars
<1>2. since' = [d \in Clients |-> since'[d]] /\ \A d \in Clients : since'[d] \subseteq since[d]
  <2>1. CASE since' = since
    BY <1>0, <2>1
  <2>2. CASE \E s : since' = [since EXCEPT ![c] = {m \in since[c] : m.stream # s}]
    <3>1. PICK s : since' = [since EXCEPT ![c] = {m \in since[c] : m.stream # s}]
      BY <2>2
    <3>2. since' = [d \in Clients |-> IF d = c THEN {m \in since[c] : m.stream # s} ELSE since[d]]
      BY <1>0, <3>1
    <3> QED
      BY <3>2
  <2> QED
    BY <2>1, <2>2 DEF RegisterClient, ConnectionLost, Unregister, ReadSnapshot, Subscribe, Unsubscribe
<1>3. asked' \in [Clients -> [stream : Streams \cup {"none"}, value : Int]]
  <2>1. CASE asked' = asked
    BY <1>0, <2>1
  <2>2. ASSUME NEW s \in Streams, asked' = [asked EXCEPT ![c] = [stream |-> s, value |-> -1]]
        PROVE  asked' \in [Clients -> [stream : Streams \cup {"none"}, value : Int]]
    <3>1. [stream |-> s, value |-> -1] \in [stream : Streams \cup {"none"}, value : Int]
      OBVIOUS
    <3> QED
      BY <1>0, <2>2, <3>1
  <2>3. ASSUME NEW v \in Nat, asked' = [asked EXCEPT ![c].value = v]
        PROVE  asked' \in [Clients -> [stream : Streams \cup {"none"}, value : Int]]
    <3>1. asked[c] = [stream |-> asked[c].stream, value |-> asked[c].value] /\ asked[c].stream \in Streams \cup {"none"}
      BY <1>0
    <3>2. [asked[c] EXCEPT !.value = v] = [stream |-> asked[c].stream, value |-> v]
      BY <3>1
    <3>3. asked' = [asked EXCEPT ![c] = [stream |-> asked[c].stream, value |-> v]]
      BY <2>3, <3>2
    <3>4. [stream |-> asked[c].stream, value |-> v] \in [stream : Streams \cup {"none"}, value : Int]
      BY <3>1
    <3> QED
      BY <1>0, <3>3, <3>4
  <2>4. ASSUME ReadSnapshot(c) PROVE \E v \in Nat : asked' = [asked EXCEPT ![c].value = v]
    <3>1. asked[c].stream \in Feeds
      BY <2>4 DEF ReadSnapshot
    <3>2. redisValue[asked[c].stream] \in Nat /\ 0 \in Nat
      BY <1>0, <3>1
    <3> QED
      BY <2>4, <3>2 DEF ReadSnapshot
  <2>5. ASSUME NEW s \in Streams, Subscribe(c, s) PROVE asked' = asked \/ asked' = [asked EXCEPT ![c] = [stream |-> s, value |-> -1]]
    BY <2>5 DEF Subscribe
  <2>6. RegisterClient(c) \/ ConnectionLost(c) \/ Unregister(c) \/ (\E s \in Streams : Unsubscribe(c, s)) => asked' = asked
    BY DEF RegisterClient, ConnectionLost, Unregister, Unsubscribe
  <2> QED
    BY <2>1, <2>2, <2>3, <2>4, <2>5, <2>6
<1> QED
  BY <1>0, <1>1, <1>2, <1>3, QuietKeeps

LEMMA WriteKeeps == ASSUME DeliveryInv, NEW c \in Clients, WritePump(c) PROVE DeliveryInv'
<1>0. /\ DeliveryTyped /\ LinesSound /\ CastsSound /\ SinceSound
      /\ UNCHANGED <<closed, asked, casting, again, handed, relayed, since, consumed, redisValue>>
  BY DEF DeliveryInv, WritePump, sourceVars, keyVars
<1>1. /\ queue' \in [Clients -> Seq(Parcels)]
      /\ seen' = [d \in Clients |-> [s \in Streams |-> seen'[d][s]]]
      /\ \A d \in Clients : \A s \in Exact : seen'[d][s] \in Seq(Loads)
      /\ LinesSound'
      /\ \A d \in Clients : \A s \in Exact : Coming(d, s)' = Coming(d, s)
  BY <1>0, WritingKeeps
<1>2. \A s, b : (Known(s, b)' <=> Known(s, b)) /\ \A a : Ok(s, a, b)' <=> Ok(s, a, b)
  BY <1>0 DEF Known, Ok
<1>3. \A d \in Clients : \A s \in Exact : \A b : Fresh(d, s, b) => Fresh(d, s, b)'
  BY <1>1, <1>2 DEF Fresh
<1>4. DeliveryTyped'
  <2>1. \A t \in Streams : /\ casting[t].step # "send" => casting[t].to = {}
                           /\ casting[t].step \in {"collect", "send"} =>
                                casting[t].kind = t \/ (casting[t].kind = "control" /\ t \in Feeds)
    BY <1>0 DEF DeliveryTyped
  <2>2. seen' = [d \in Clients |-> [s \in Streams |-> seen'[d][s]]] /\ since' = [d \in Clients |-> since'[d]]
    BY <1>0, <1>1 DEF DeliveryTyped
  <2> QED
    BY <1>0, <1>1, <2>1, <2>2 DEF DeliveryTyped
<1>5. CastsSound'
  <2> SUFFICES ASSUME NEW t \in Exact
               PROVE  /\ casting[t].step \in {"collect", "send"} => Known(t, casting[t].body)'
                      /\ casting[t].step = "collect" => \A d \in Clients : Fresh(d, t, casting[t].body)'
                      /\ \A d \in casting[t].to : Fresh(d, t, casting[t].body)'
    BY <1>0 DEF CastsSound
  <2>1. PICK b : b = casting[t].body
    OBVIOUS
  <2>2. /\ casting[t].step \in {"collect", "send"} => Known(t, b)
        /\ casting[t].step = "collect" => \A d \in Clients : Fresh(d, t, b)
        /\ \A d \in casting[t].to : Fresh(d, t, b)
    BY <1>0, <2>1 DEF CastsSound
  <2>3. b = casting'[t].body /\ casting[t].to \subseteq Clients
    BY <1>0, <2>1 DEF DeliveryTyped, Casts, Exact
  <2>4. /\ casting[t].step \in {"collect", "send"} => Known(t, b)'
        /\ casting[t].step = "collect" => \A d \in Clients : Fresh(d, t, b)'
        /\ \A d \in casting[t].to : Fresh(d, t, b)'
    BY <1>2, <1>3, <2>2, <2>3
  <2> QED
    BY <2>3, <2>4
<1>6. SinceSound'
  <2> SUFFICES ASSUME NEW d \in Clients \ closed, NEW n \in since[d]
               PROVE  n.body \in Coming(d, n.stream)' \/ (casting[n.stream].body = n.body /\ d \in casting[n.stream].to)
    BY <1>0 DEF SinceSound
  <2>1. PICK t \in Exact : t = n.stream
    BY <1>0 DEF DeliveryTyped
  <2>2. Coming(d, t)' = Coming(d, t)
    BY <1>1
  <2> QED
    BY <1>0, <2>1, <2>2 DEF SinceSound
<1> QED
  BY <1>1, <1>4, <1>5, <1>6 DEF DeliveryInv

\* A broadcast is begun on a stream that is quiet.
LEMMA QuietIs ==
  ASSUME DeliveryTyped, NEW s \in Streams, casting[s] = Quiet
  PROVE  casting[s].to = {} /\ Quiet \in Casts /\ Quiet.step = "idle" /\ Quiet.to = {}
BY DEF Quiet, Casts, Loads

LEMMA PollKeeps == ASSUME DeliveryInv, NEW f \in Feeds, Poll(f) \/ KeyWritten(f) PROVE DeliveryInv'
<1>0. /\ DeliveryTyped /\ f \in Streams /\ f \notin Exact /\ UNCHANGED <<asked, since, consumed>>
      /\ asked \in [Clients -> [stream : Streams \cup {"none"}, value : Int]] /\ handed \in Nat /\ consumed \in Nat
      /\ redisValue \in [Feeds -> Nat] /\ since = [c \in Clients |-> since[c]]
  BY StreamsAre, ExactAre DEF DeliveryInv, DeliveryTyped, Poll, KeyWritten, sourceVars
<1>1. CASE Poll(f)
  <2>1. /\ casting[f] = Quiet /\ UNCHANGED <<queue, seen, closed, asked, redisValue, again, handed, consumed, relayed, since>>
    BY <1>1 DEF Poll, sourceVars
  <2>2. PICK kind \in {"control", f}, body \in Loads :
          casting' = [casting EXCEPT ![f] = [step |-> "collect", body |-> body, kind |-> kind, to |-> {}]]
    <3>1. 0 \in Loads /\ redisValue[f] \in Loads
      BY <1>0 DEF Loads
    <3> QED
      BY <1>1, <3>1 DEF Poll, Broadcast
  <2> DEFINE h == [step |-> "collect", body |-> body, kind |-> kind, to |-> {}]
  <2>3. h \in Casts /\ h.to = {} /\ (h.kind = f \/ (h.kind = "control" /\ f \in Feeds))
    BY <1>0 DEF Casts
  <2>4. casting[f].to = {}
    BY <1>0, <2>1, QuietIs
  <2>5. \A t \in Exact : \A b : Known(t, b) => Known(t, b)'
    BY <2>1 DEF Known
  <2>6. since' = [c \in Clients |-> since'[c]] /\ \A c \in Clients : since'[c] = since[c]
    BY <1>0
  <2>7. casting' = [casting EXCEPT ![f] = h]
    BY <2>2
  <2> HIDE DEF h
  <2> QED
    BY <1>0, <2>1, <2>3, <2>4, <2>5, <2>6, <2>7, RecastKeeps
<1>2. CASE KeyWritten(f)
  <2>1. /\ UNCHANGED <<queue, seen, casting, again, handed, relayed, closed>>
        /\ redisValue' = [redisValue EXCEPT ![f] = redisValue[f] + 1]
    BY <1>2 DEF KeyWritten, sourceVars
  <2>2. redisValue' \in [Feeds -> Nat]
    BY <1>0, <2>1
  <2>3. since' = [c \in Clients |-> since'[c]] /\ \A c \in Clients : since'[c] \subseteq since[c]
    BY <1>0
  <2> QED
    BY <1>0, <2>1, <2>2, <2>3, QuietKeeps
<1> QED
  BY <1>1, <1>2

LEMMA CollectKeeps ==
  ASSUME DeliveryInv, HubTyped, NEW s \in Streams, CollectSubscribers(s)
  PROVE  DeliveryInv'
<1>1. DeliveryTyped /\ CastsSound
  BY DEF DeliveryInv
<1>2. PICK g \in Casts, to \in SUBSET Clients : g = casting[s] /\ to = subs[s]
  BY <1>1 DEF DeliveryTyped, HubTyped
<1>3. PICK r : r = [g EXCEPT !.step = "send"]
  OBVIOUS
<1>4. PICK h : h = [r EXCEPT !.to = to]
  OBVIOUS
<1>5. /\ g.step = "collect" /\ casting' = [casting EXCEPT ![s].step = "send", ![s].to = to]
      /\ since' = IF ~Lossless(g.kind) THEN since
                  ELSE [c \in Clients |-> IF c \in to THEN since[c] \cup {Parcel(s, s, g.body)} ELSE since[c]]
      /\ UNCHANGED <<queue, seen, closed, asked, redisValue, again, handed, consumed, relayed>>
  BY <1>2 DEF CollectSubscribers, sourceVars, keyVars
<1>6. h = [step |-> "send", body |-> g.body, kind |-> g.kind, to |-> to] /\ h \in Casts
  <2>1. r = [step |-> "send", body |-> g.body, kind |-> g.kind, to |-> g.to]
    BY <1>3 DEF Casts
  <2>2. h = [step |-> "send", body |-> g.body, kind |-> g.kind, to |-> to]
    BY <1>4, <2>1
  <2> QED
    BY <2>2 DEF Casts
<1>7. casting' = [casting EXCEPT ![s] = h]
  <2>1. casting \in [Streams -> Casts]
    BY <1>1 DEF DeliveryTyped
  <2>2. casting' = [[casting EXCEPT ![s] = r] EXCEPT ![s].to = to]
    BY <1>2, <1>3, <1>5, <2>1
  <2>3. [casting EXCEPT ![s] = r][s] = r
    BY <2>1
  <2>4. [[casting EXCEPT ![s] = r] EXCEPT ![s].to = to] = [[casting EXCEPT ![s] = r] EXCEPT ![s] = h]
    BY <1>4, <2>3
  <2> QED
    BY <2>1, <2>2, <2>4
<1>8. /\ casting[s].to = {} /\ (g.kind = s \/ (g.kind = "control" /\ s \in Feeds)) /\ handed \in Nat /\ consumed \in Nat
      /\ since = [c \in Clients |-> since[c]]
  BY <1>1, <1>2, <1>5 DEF DeliveryTyped
<1>9. Lossless(g.kind) => s \in Exact
  BY <1>8, ExactAre
<1>10. since' = [c \in Clients |-> since'[c]]
  BY <1>5, <1>8
<1>11. \A c \in Clients : \A m \in since'[c] : m \in since[c] \/ (s \in Exact /\ m.stream = s /\ m.body = h.body /\ c \in h.to)
  <2> SUFFICES ASSUME NEW c \in Clients, NEW m \in since'[c]
               PROVE  m \in since[c] \/ (s \in Exact /\ m.stream = s /\ m.body = h.body /\ c \in h.to)
    OBVIOUS
  <2>1. Parcel(s, s, g.body).stream = s /\ Parcel(s, s, g.body).body = g.body /\ h.body = g.body /\ h.to = to
    BY <1>6 DEF Parcel
  <2>2. m \in since[c] \/ (Lossless(g.kind) /\ c \in to /\ m = Parcel(s, s, g.body))
    BY <1>5
  <2> QED
    BY <1>9, <2>1, <2>2
<1>12. \A t \in Exact : \A b : Known(t, b) => Known(t, b)'
  BY <1>5 DEF Known
<1>13. s \in Exact => Known(s, h.body)' /\ \A c \in Clients : Fresh(c, s, h.body)'
  <2>1. PICK b : b = h.body
    OBVIOUS
  <2>2. s \in Exact => Known(s, b) /\ \A c \in Clients : Fresh(c, s, b)
    BY <1>1, <1>2, <1>5, <1>6, <2>1 DEF CastsSound
  <2>3. s \in Exact => Known(s, b)' /\ \A c \in Clients : Fresh(c, s, b)'
    BY <1>1, <1>5, <1>12, <2>2, LinesStay
  <2> QED
    BY <2>1, <2>3
<1>14. h.kind = s \/ (h.kind = "control" /\ s \in Feeds)
  BY <1>6, <1>8
<1>15. h.step = "send"
  BY <1>6
<1>16. s \in Exact => /\ h.step \in {"collect", "send"} => Known(s, h.body)'
                      /\ h.step = "collect" \/ h.to # {} => \A c \in Clients : Fresh(c, s, h.body)'
  BY <1>13
<1>17. UNCHANGED <<queue, seen, closed, asked, redisValue>> /\ again \subseteq again' /\ handed' \in Nat /\ consumed' \in Nat
  BY <1>5, <1>8
<1> QED
  BY <1>6, <1>7, <1>8, <1>10, <1>11, <1>12, <1>14, <1>15, <1>16, <1>17, RecastKeeps

\* The broadcast is over: the message of a trade is to be committed.
LEMMA BroadcastedKeeps ==
  ASSUME DeliveryInv, NEW s \in Streams, Broadcasted(s)
  PROVE  DeliveryInv'
<1>1. DeliveryTyped
  BY DEF DeliveryInv
<1>2. PICK g \in Casts : g = casting[s]
  BY <1>1 DEF DeliveryTyped
<1>3. PICK h : h = IF s = "trades" THEN [g EXCEPT !.step = "commit"] ELSE Quiet
  OBVIOUS
<1>4. /\ casting[s].to = {} /\ casting' = [casting EXCEPT ![s] = h]
      /\ UNCHANGED <<queue, seen, closed, asked, redisValue, again, handed, consumed, relayed, since>>
  BY <1>2, <1>3 DEF Broadcasted, sourceVars, keyVars
<1>5. h \in Casts /\ h.to = {} /\ h.step \notin {"collect", "send"}
  <2>1. CASE s = "trades"
    <3>1. h = [step |-> "commit", body |-> g.body, kind |-> g.kind, to |-> g.to]
      BY <1>3, <2>1 DEF Casts
    <3> QED
      BY <1>2, <1>4, <3>1 DEF Casts
  <2>2. CASE s # "trades"
    BY <1>3, <2>2 DEF Quiet, Casts, Loads
  <2> QED
    BY <2>1, <2>2
<1>6. handed \in Nat /\ consumed \in Nat /\ since = [c \in Clients |-> since[c]]
  BY <1>1 DEF DeliveryTyped
<1>7. \A t \in Exact : \A b : Known(t, b) => Known(t, b)'
  BY <1>4 DEF Known
<1>8. since' = [c \in Clients |-> since'[c]] /\ \A c \in Clients : since'[c] = since[c]
  BY <1>4, <1>6
<1>9. UNCHANGED <<queue, seen, closed, asked, redisValue>> /\ again \subseteq again' /\ handed' \in Nat /\ consumed' \in Nat
  BY <1>4, <1>6
<1> QED
  BY <1>4, <1>5, <1>7, <1>8, <1>9, RecastKeeps

LEMMA ConsumeKeeps == ASSUME DeliveryInv, ConsumeTrade PROVE DeliveryInv'
<1>1. DeliveryTyped /\ LinesSound
  BY DEF DeliveryInv
<1>2. PICK b \in Nat : b = handed + 1
  BY <1>1 DEF DeliveryTyped
<1>3. /\ casting["trades"] = Quiet /\ handed < Len(TradeTopic) /\ handed' = b
      /\ \/ casting' = [casting EXCEPT !["trades"] = [step |-> "collect", body |-> b, kind |-> "trades", to |-> {}]]
         \/ casting' = [casting EXCEPT !["trades"].step = "commit"]
      /\ UNCHANGED <<queue, seen, closed, asked, redisValue, again, consumed, relayed, since>>
  BY <1>2 DEF ConsumeTrade, Broadcast, keyVars
<1>4. "trades" \in Streams /\ "trades" \in Exact
  <2>1. TradeTopic \in Seq(BOOLEAN)
    BY GatewayAssumption
  <2>2. TradeTopic # <<>>
    BY <1>1, <1>3, <2>1 DEF DeliveryTyped
  <2> QED
    BY <2>2 DEF Streams, Exact
<1>5. PICK h : /\ h \in {[step |-> "collect", body |-> b, kind |-> "trades", to |-> {}],
                         [step |-> "commit", body |-> 0, kind |-> "none", to |-> {}]}
               /\ casting' = [casting EXCEPT !["trades"] = h]
  <2>1. casting["trades"] = [step |-> "idle", body |-> 0, kind |-> "none", to |-> {}]
    BY <1>3 DEF Quiet
  <2>2. [casting["trades"] EXCEPT !.step = "commit"] = [step |-> "commit", body |-> 0, kind |-> "none", to |-> {}]
    BY <2>1
  <2>3. casting' = [casting EXCEPT !["trades"].step = "commit"] =>
          casting' = [casting EXCEPT !["trades"] = [step |-> "commit", body |-> 0, kind |-> "none", to |-> {}]]
    BY <2>2
  <2> QED
    BY <1>3, <2>3
<1>6. h \in Casts /\ h.to = {} /\ (h.step = "collect" => h.kind = "trades" /\ h.body = b) /\ h.step # "send"
  BY <1>4, <1>5 DEF Casts, Loads
<1>7. casting["trades"].to = {}
  BY <1>1, <1>3, <1>4, QuietIs
<1>8. consumed \in Nat /\ handed \in Nat /\ since = [c \in Clients |-> since[c]]
  BY <1>1 DEF DeliveryTyped
<1>9. \A t \in Exact : \A x : Known(t, x) => Known(t, x)'
  BY <1>2, <1>3, <1>8 DEF Known
\* The trade is the next one, or one that a new reader was given again.
<1>10. Known("trades", b)' /\ \A c \in Clients : Fresh(c, "trades", b)'
  <2>1. Known("trades", b)'
    BY <1>3 DEF Known
  <2>2. ASSUME NEW c \in Clients PROVE Fresh(c, "trades", b)
    <3>1. \A x \in Coming(c, "trades") : Known("trades", x)
      BY <1>1, <1>4 DEF LinesSound
    <3> QED
      BY <1>2, <1>8, <3>1 DEF Fresh, Ok, Known
  <2> QED
    BY <1>1, <1>3, <1>4, <2>1, <2>2, LinesStay
<1>11. /\ h.step \in {"collect", "send"} => Known("trades", h.body)'
       /\ h.step = "collect" \/ h.to # {} => \A c \in Clients : Fresh(c, "trades", h.body)'
  BY <1>6, <1>10
<1>12. since' = [c \in Clients |-> since'[c]] /\ \A c \in Clients : since'[c] = since[c]
  BY <1>3, <1>8
<1>13. UNCHANGED <<queue, seen, closed, asked, redisValue>> /\ again \subseteq again' /\ handed' \in Nat /\ consumed' \in Nat
  BY <1>3, <1>8
<1>14. h.step \in {"collect", "send"} => h.kind = "trades"
  BY <1>6
<1> QED
  BY <1>4, <1>5, <1>6, <1>7, <1>9, <1>11, <1>12, <1>13, <1>14, RecastKeeps

LEMMA CommitKeeps == ASSUME DeliveryInv, CommitTrade PROVE DeliveryInv'
<1>1. DeliveryTyped
  BY DEF DeliveryInv
<1>2. /\ "trades" \in Streams /\ casting["trades"].step = "commit"
      /\ casting' = [casting EXCEPT !["trades"] = Quiet] /\ consumed' \in {handed, consumed}
      /\ UNCHANGED <<queue, seen, closed, asked, redisValue, again, handed, relayed, since>>
  BY DEF CommitTrade, keyVars
<1>3. consumed \in Nat /\ handed \in Nat /\ since = [c \in Clients |-> since[c]] /\ casting["trades"].to = {}
  BY <1>1, <1>2 DEF DeliveryTyped
<1>4. Quiet \in Casts /\ Quiet.step = "idle" /\ Quiet.to = {}
  BY DEF Quiet, Casts, Loads
<1>5. \A t \in Exact : \A x : Known(t, x) => Known(t, x)'
  BY <1>2 DEF Known
<1>6. since' = [c \in Clients |-> since'[c]] /\ \A c \in Clients : since'[c] = since[c]
  BY <1>2, <1>3
<1>7. UNCHANGED <<queue, seen, closed, asked, redisValue>> /\ again \subseteq again' /\ handed' \in Nat /\ consumed' \in Nat
  BY <1>2, <1>3
<1>8. PICK h \in Casts : h = Quiet
  BY <1>4
<1>9. /\ casting' = [casting EXCEPT !["trades"] = h] /\ h.step = "idle" /\ h.to = {}
  BY <1>2, <1>4, <1>8
<1> QED
  BY <1>2, <1>3, <1>5, <1>6, <1>7, <1>9, RecastKeeps

\* What a new reader is given again has been handed out before.
LEMMA ReconnectKeeps == ASSUME DeliveryInv, Reconnect PROVE DeliveryInv'
<1>1. DeliveryTyped
  BY DEF DeliveryInv
<1>2. /\ "trades" \in Streams /\ casting["trades"] = Quiet /\ handed' = consumed
      /\ again' = again \cup (consumed + 1)..handed
      /\ UNCHANGED <<queue, seen, closed, asked, redisValue, casting, consumed, relayed, since>>
  BY DEF Reconnect, keyVars
<1>3. /\ consumed \in Nat /\ handed \in Nat /\ since = [c \in Clients |-> since[c]] /\ casting \in [Streams -> Casts]
  BY <1>1 DEF DeliveryTyped
<1>4. Quiet \in Casts /\ Quiet.step = "idle" /\ Quiet.to = {}
  BY DEF Quiet, Casts, Loads
<1>5. \A t \in Exact : \A x : Known(t, x) => Known(t, x)'
  <2> SUFFICES ASSUME NEW x \in Nat, NEW n \in Nat, consumed < n, n <= x, handed < n => n \in again
               PROVE  n \in again'
    BY <1>2 DEF Known
  <2> QED
    BY <1>2, <1>3
<1>6. since' = [c \in Clients |-> since'[c]] /\ \A c \in Clients : since'[c] = since[c]
  BY <1>2, <1>3
<1>7. UNCHANGED <<queue, seen, closed, asked, redisValue>> /\ again \subseteq again' /\ handed' \in Nat /\ consumed' \in Nat
  BY <1>2, <1>3
<1>8. PICK h \in Casts : h = Quiet
  BY <1>4
<1>9. /\ casting' = [casting EXCEPT !["trades"] = h] /\ h.step = "idle" /\ h.to = {} /\ casting["trades"].to = {}
  BY <1>2, <1>3, <1>4, <1>8
<1> QED
  BY <1>2, <1>5, <1>6, <1>7, <1>9, RecastKeeps

\* The relay broadcasts what its cache does not hold.
LEMMA RelayKeeps == ASSUME DeliveryInv, NEW n \in Notices, RelayNotice(n) PROVE DeliveryInv'
<1>1. DeliveryTyped /\ LinesSound
  BY DEF DeliveryInv
<1>2. /\ casting["notifications"] = Quiet
      /\ UNCHANGED <<queue, seen, closed, asked, redisValue, again, handed, consumed, since>>
      /\ \/ UNCHANGED <<relayed, casting>>
         \/ /\ n \notin relayed /\ relayed' = relayed \cup {n}
            /\ casting' = [casting EXCEPT !["notifications"] =
                             [step |-> "collect", body |-> n, kind |-> "notifications", to |-> {}]]
  BY DEF RelayNotice, Relays, Broadcast, keyVars
<1>3. "notifications" \in Streams /\ "notifications" \in Exact
  BY DEF Streams, Exact
<1>4. /\ consumed \in Nat /\ handed \in Nat /\ since = [c \in Clients |-> since[c]]
      /\ asked \in [Clients -> [stream : Streams \cup {"none"}, value : Int]] /\ redisValue \in [Feeds -> Nat]
  BY <1>1 DEF DeliveryTyped
<1>5. since' = [c \in Clients |-> since'[c]] /\ \A c \in Clients : since'[c] = since[c]
  BY <1>2, <1>4
<1>6. CASE UNCHANGED <<relayed, casting>>
  BY <1>2, <1>4, <1>5, <1>6, QuietKeeps
<1>7. CASE n \notin relayed /\ relayed' = relayed \cup {n}
           /\ casting' = [casting EXCEPT !["notifications"] =
                            [step |-> "collect", body |-> n, kind |-> "notifications", to |-> {}]]
  <2>1. PICK h : h = [step |-> "collect", body |-> n, kind |-> "notifications", to |-> {}]
    OBVIOUS
  <2>2. /\ h \in Casts /\ h.to = {} /\ h.step = "collect" /\ h.kind = "notifications" /\ h.body = n
        /\ casting' = [casting EXCEPT !["notifications"] = h]
    BY <1>3, <1>7, <2>1 DEF Casts, Loads
  <2>3. casting["notifications"].to = {}
    BY <1>1, <1>2, <1>3, QuietIs
  <2>4. \A t \in Exact : \A x : Known(t, x) => Known(t, x)'
    BY <1>2, <1>7 DEF Known
  <2>5. Known("notifications", n)'
    BY <1>7 DEF Known
  <2>6. ASSUME NEW c \in Clients PROVE Fresh(c, "notifications", n)
    <3>1. \A x \in Coming(c, "notifications") : x \in relayed
      BY <1>1, <1>3 DEF LinesSound, Known
    <3> QED
      BY <1>7, <3>1 DEF Fresh, Ok
  <2>7. \A c \in Clients : Fresh(c, "notifications", n)'
    BY <1>1, <1>2, <1>3, <2>6, LinesStay
  <2>8. Known("notifications", h.body)' /\ \A c \in Clients : Fresh(c, "notifications", h.body)'
    BY <2>2, <2>5, <2>7
  <2>9. UNCHANGED <<queue, seen, closed, asked, redisValue>> /\ again \subseteq again' /\ handed' \in Nat /\ consumed' \in Nat
    BY <1>2, <1>4
  <2> QED
    BY <1>3, <1>5, <2>2, <2>3, <2>4, <2>8, <2>9, RecastKeeps
<1> QED
  BY <1>2, <1>6, <1>7

LEMMA SwitchKeeps == ASSUME DeliveryInv, RedisSwitches PROVE DeliveryInv'
<1>1. /\ consumed \in Nat /\ since = [c \in Clients |-> since[c]]
      /\ asked \in [Clients -> [stream : Streams \cup {"none"}, value : Int]] /\ redisValue \in [Feeds -> Nat]
  BY DEF DeliveryInv, DeliveryTyped
<1>2. UNCHANGED <<queue, seen, closed, casting, asked, redisValue, again, handed, consumed, relayed, since>>
  BY DEF RedisSwitches, sourceVars
<1>3. since' = [c \in Clients |-> since'[c]] /\ \A c \in Clients : since'[c] \subseteq since[c]
  BY <1>1, <1>2
<1> QED
  BY <1>1, <1>2, <1>3, QuietKeeps

LEMMA DeliveryBegins == ASSUME GatewayInit PROVE DeliveryInv
<1>1. /\ queue = [c \in Clients |-> <<>>] /\ asked = [c \in Clients |-> Ready] /\ redisValue = [f \in Feeds |-> 0]
      /\ casting = [s \in Streams |-> Quiet] /\ handed = 0 /\ consumed = 0 /\ again = {}
      /\ seen = [c \in Clients |-> [s \in Streams |-> <<>>]] /\ since = [c \in Clients |-> {}]
  BY DEF GatewayInit
<1>2. Quiet \in Casts /\ Quiet.step = "idle" /\ Quiet.to = {}
  BY DEF Quiet, Casts, Loads
<1>3. Ready \in [stream : Streams \cup {"none"}, value : Int]
  BY DEF Ready
<1>4. \A c \in Clients : \A s \in Exact : seen[c][s] = <<>> /\ queue[c] = <<>>
  BY <1>1 DEF Exact
<1>5. \A t \in Streams : casting[t].step = "idle" /\ casting[t].to = {}
  BY <1>1, <1>2
<1>6. queue \in [Clients -> Seq(Parcels)] /\ asked \in [Clients -> [stream : Streams \cup {"none"}, value : Int]]
  BY <1>1, <1>3
<1>7. DeliveryTyped
  <2>1. seen = [c \in Clients |-> [s \in Streams |-> seen[c][s]]] /\ since = [c \in Clients |-> since[c]]
    BY <1>1
  <2>2. \A c \in Clients : \A s \in Exact : seen[c][s] \in Seq(Loads)
    <3>1. <<>> \in Seq(Loads)
      OBVIOUS
    <3>2. ASSUME NEW c \in Clients, NEW s \in Exact PROVE seen[c][s] \in Seq(Loads)
      <4>1. seen[c][s] = <<>>
        BY <1>4
      <4> QED
        BY <3>1, <4>1
    <3> QED
      BY <3>2
  <2>3. redisValue \in [Feeds -> Nat] /\ handed \in Nat /\ consumed \in Nat /\ casting \in [Streams -> Casts]
    BY <1>1, <1>2
  <2>4. \A c \in Clients : \A m \in since[c] : m.stream \in Exact
    BY <1>1
  <2> QED
    BY <1>5, <1>6, <2>1, <2>2, <2>3, <2>4 DEF DeliveryTyped
<1>8. \A c \in Clients : \A s \in Exact : Coming(c, s) = {} /\ Waiting(c, s) = {} /\ Len(seen[c][s]) = 0
  BY <1>4 DEF Coming, Bodies, Waiting, ToSet
<1>9. LinesSound
  BY <1>8 DEF LinesSound, InLine
<1>10. CastsSound
  BY <1>5 DEF CastsSound, Exact
<1>11. SinceSound
  BY <1>1 DEF SinceSound
<1> QED
  BY <1>7, <1>9, <1>10, <1>11 DEF DeliveryInv

\* Outside the sessions and the subscriptions the hub's indices are as they were.
LEMMA HubStays == ASSUME HubInv, UNCHANGED hubVars PROVE HubInv'
BY DEF HubInv, HubTyped, HubConsistent, hubVars

\* The indices of the hub agree and no client that is connected skips a trade or a
\* notification, is given one twice or out of order, but for the trades of a new reader.
THEOREM HubIsSound == GatewaySpec => []HubSound
<1>1. ASSUME GatewayInit PROVE HubInv /\ DeliveryInv
  <2>1. HubTyped /\ (\A s \in Streams : subs[s] = {c \in clients : s \in clientSubs[c]}) /\ marketSubs = 0 /\ clients = {}
    BY <1>1 DEF GatewayInit, HubTyped
  <2>2. Listening = {}
    BY <2>1 DEF Listening
  <2>3. HubInv
    BY <2>1, <2>2, FS_EmptySet DEF HubInv, HubConsistent, Listening
  <2> QED
    BY <1>1, <2>3, DeliveryBegins
<1>2. ASSUME HubInv /\ DeliveryInv, [GatewayNext]_gatewayVars PROVE (HubInv /\ DeliveryInv)'
  <2>0. HubInv /\ DeliveryInv /\ HubTyped
    BY <1>2 DEF HubInv
  <2>1. ASSUME NEW c \in Clients, ClientStep(c) PROVE (HubInv /\ DeliveryInv)'
    <3>1. CASE RegisterClient(c)
      BY <2>0, <3>1, RegisteringKeepsIndices, SessionKeeps
    <3>2. CASE ConnectionLost(c)
      <4>1. UNCHANGED hubVars
        BY <3>2 DEF ConnectionLost
      <4> QED
        BY <2>0, <3>2, <4>1, HubStays, SessionKeeps
    <3>3. CASE Unregister(c)
      BY <2>0, <3>3, LeavingKeepsIndices, SessionKeeps
    <3>4. CASE ReadSnapshot(c)
      <4>1. UNCHANGED hubVars
        BY <3>4 DEF ReadSnapshot
      <4> QED
        BY <2>0, <3>4, <4>1, HubStays, SessionKeeps
    <3>5. CASE SendSnapshot(c)
      <4>1. UNCHANGED hubVars
        BY <3>5 DEF SendSnapshot
      <4> QED
        BY <2>0, <3>5, <4>1, HubStays, SnapshotKeeps
    <3>6. CASE WritePump(c)
      <4>1. UNCHANGED hubVars
        BY <3>6 DEF WritePump
      <4> QED
        BY <2>0, <3>6, <4>1, HubStays, WriteKeeps
    <3>7. ASSUME NEW s \in Streams, Subscribe(c, s) PROVE (HubInv /\ DeliveryInv)'
      BY <2>0, <3>7, SubscribingKeepsIndices, SessionKeeps
    <3>8. ASSUME NEW s \in Streams, Unsubscribe(c, s) PROVE (HubInv /\ DeliveryInv)'
      BY <2>0, <3>8, UnsubscribingKeepsIndices, SessionKeeps
    <3> QED
      BY <2>1, <3>1, <3>2, <3>3, <3>4, <3>5, <3>6, <3>7, <3>8 DEF ClientStep
  <2>2. ASSUME NEW f \in Feeds, FeedStep(f) PROVE (HubInv /\ DeliveryInv)'
    <3>1. UNCHANGED hubVars
      BY <2>2 DEF FeedStep, Poll, KeyWritten
    <3> QED
      BY <2>0, <2>2, <3>1, HubStays, PollKeeps DEF FeedStep
  <2>3. ASSUME NEW s \in Streams, CastStep(s) PROVE (HubInv /\ DeliveryInv)'
    <3>1. UNCHANGED hubVars
      BY <2>3 DEF CastStep, CollectSubscribers, Broadcasted, SendTo
    <3> QED
      BY <2>0, <2>3, <3>1, HubStays, CollectKeeps, BroadcastedKeeps, SendToKeeps DEF CastStep
  <2>4. ASSUME RedisSwitches \/ ConsumeTrade \/ CommitTrade \/ Reconnect PROVE (HubInv /\ DeliveryInv)'
    <3>1. UNCHANGED hubVars
      BY <2>4 DEF RedisSwitches, ConsumeTrade, CommitTrade, Reconnect
    <3> QED
      BY <2>0, <2>4, <3>1, HubStays, SwitchKeeps, ConsumeKeeps, CommitKeeps, ReconnectKeeps
  <2>5. ASSUME NEW n \in Notices, RelayNotice(n) PROVE (HubInv /\ DeliveryInv)'
    <3>1. UNCHANGED hubVars
      BY <2>5 DEF RelayNotice
    <3> QED
      BY <2>0, <2>5, <3>1, HubStays, RelayKeeps
  <2>6. ASSUME UNCHANGED gatewayVars PROVE (HubInv /\ DeliveryInv)'
    <3>1. UNCHANGED hubVars /\ UNCHANGED <<queue, seen, closed, casting, asked, redisValue, again, handed, consumed, relayed, since>>
      BY <2>6 DEF gatewayVars, hubVars
    <3>2. /\ consumed \in Nat /\ since = [c \in Clients |-> since[c]]
          /\ asked \in [Clients -> [stream : Streams \cup {"none"}, value : Int]] /\ redisValue \in [Feeds -> Nat]
      BY <2>0 DEF DeliveryInv, DeliveryTyped
    <3>3. since' = [c \in Clients |-> since'[c]] /\ \A c \in Clients : since'[c] \subseteq since[c]
      BY <3>1, <3>2
    <3> QED
      BY <2>0, <3>1, <3>2, <3>3, HubStays, QuietKeeps
  <2> QED
    BY <1>2, <2>1, <2>2, <2>3, <2>4, <2>5, <2>6 DEF GatewayNext
<1>3. ASSUME HubInv /\ DeliveryInv PROVE HubSound
  BY <1>3, ExecutionsFollow DEF HubInv, HubSound
<1> QED
  BY <1>1, <1>2, <1>3, PTL DEF GatewaySpec
=============================================================================
