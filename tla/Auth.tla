-------------------------------- MODULE Auth --------------------------------
(***************************************************************************)
(* The authentication service (services/auth): accounts and their status,  *)
(* one-time codes, passwords and the lock after wrong ones, refresh tokens *)
(* and their rotation, Google sign-in and the linking of Google identities,*)
(* and the reconciler that makes the wallets sign-in could not make.       *)
(*                                                                         *)
(* A request is a record that walks through the statements of its handler: *)
(* between two of them other requests run, and it may be abandoned (a      *)
(* timeout, a crash).  An account is named by its email, which is unique.  *)
(* The access token and its version hold no state that is decided on here, *)
(* so a session is its refresh token.  Reads whose checks follow at once   *)
(* form one step with them.                                                *)
(***************************************************************************)
EXTENDS Naturals, Sequences, FiniteSets

CONSTANTS
  Users,           \* emails
  Subs,            \* Google subjects
  GoogleEmail,     \* the email Google attests for a subject
  Requests, Reconcilers,
  NoUser,
  MaxFailed,       \* wrong passwords that lock an account
  MaxCodeTries,    \* wrong codes that delete a code
  MaxAttempts,     \* attempts of the reconciler
  MaxWork          \* bound: requests begun, and crashes

ASSUME AuthAssumption ==
  /\ GoogleEmail \in [Subs -> Users] /\ NoUser \notin Users
  /\ {MaxFailed, MaxCodeTries, MaxAttempts} \subseteq Nat \ {0} /\ MaxWork \in Nat

VARIABLES
  accounts,    \* users: [status, password, failed, locked]
  identities,  \* user_auth_identities: the user a Google subject is linked to
  otps,        \* Redis otp:code / otp:attempts, per purpose and user: tries left, 0 without a code
  tokens,      \* refresh_tokens, in order of creation: [user, status, from, via]
  links,       \* Redis auth:google_link: [user, sub, state]
  funded,      \* users the wallet service has wallets for
  events,      \* outbox rows WalletInitializePending: [status, attempts, due]
  requests,    \* handlers under way: [op, at, user, arg]
  claims,      \* what a reconciler has claimed: [user, attempt]
  work

authVars == <<accounts, identities, otps, tokens, links, funded, events, requests, claims, work>>
-----------------------------------------------------------------------------
NoAccount == [status |-> "NONE", password |-> FALSE, failed |-> 0, locked |-> FALSE]
NoEvent   == [status |-> "NONE", attempts |-> 0, due |-> FALSE]
Idle      == [op |-> "none", at |-> "none", user |-> NoUser, arg |-> 0]
NoClaim   == [user |-> NoUser, attempt |-> 0]
Purposes  == {"register", "reset"}

Exists(u) == accounts[u].status # "NONE"
Active(u) == accounts[u].status = "VERIFIED"

\* A request is begun at its first statement that others may come before.
Begin(r, op, at, u, arg) ==
  /\ requests[r] = Idle /\ work < MaxWork
  /\ requests' = [requests EXCEPT ![r] = [op |-> op, at |-> at, user |-> u, arg |-> arg]]
  /\ work' = work + 1
At(r, step)    == requests[r].at = step
GoOn(r, step)  == requests' = [requests EXCEPT ![r].at = step]
End(r)         == requests' = [requests EXCEPT ![r] = Idle]
\* A handler of which nothing is left to interleave.
AtOnce == work < MaxWork /\ work' = work + 1 /\ UNCHANGED requests

AuthInit ==
  /\ \E known \in SUBSET Users :
       /\ accounts = [u \in Users |-> IF u \in known
            THEN [status |-> "VERIFIED", password |-> TRUE, failed |-> 0, locked |-> FALSE] ELSE NoAccount]
       /\ funded = known
  /\ identities = [s \in Subs |-> NoUser]
  /\ otps = [p \in Purposes, u \in Users |-> 0]
  /\ tokens = <<>> /\ links = <<>>
  /\ events = [u \in Users |-> NoEvent]
  /\ requests = [r \in Requests |-> Idle]
  /\ claims = [w \in Reconcilers |-> NoClaim]
  /\ work = 0
-----------------------------------------------------------------------------
(***************************************************************************)
(* Sign-up with a password, and one-time codes.                            *)
(***************************************************************************)
Generate(purpose, u) == otps' = [otps EXCEPT ![<<purpose, u>>] = MaxCodeTries]

\* The row is kept when the code cannot be stored.
Register(u) ==
  /\ ~Exists(u) /\ AtOnce
  /\ accounts' = [accounts EXCEPT ![u] = [NoAccount EXCEPT !.status = "PENDING_VERIFICATION", !.password = TRUE]]
  /\ Generate("register", u) \/ UNCHANGED otps
  /\ UNCHANGED <<identities, tokens, links, funded, events, claims>>

ResendVerificationCode(u) ==
  /\ accounts[u].status = "PENDING_VERIFICATION" /\ AtOnce
  /\ Generate("register", u)
  /\ UNCHANGED <<accounts, identities, tokens, links, funded, events, claims>>

ForgotPassword(u) ==
  /\ Active(u) /\ AtOnce
  /\ Generate("reset", u)
  /\ UNCHANGED <<accounts, identities, tokens, links, funded, events, claims>>

\* Manager.Verify with the wrong code.
WrongCode(purpose, u) ==
  /\ otps[purpose, u] > 0 /\ AtOnce
  /\ otps' = [otps EXCEPT ![<<purpose, u>>] = @ - 1]
  /\ UNCHANGED <<accounts, identities, tokens, links, funded, events, claims>>

\* Manager.Verify with the right code: it is compared first and deleted in a step of
\* its own, so that two requests may pass, and a code sent in between is lost.
RightCode(r, purpose, u) ==
  /\ otps[purpose, u] > 0
  /\ Begin(r, IF purpose = "register" THEN "verify" ELSE "reset", "code", u, 0)
  /\ UNCHANGED <<accounts, identities, otps, tokens, links, funded, events, claims>>

ConsumeCode(r) ==
  LET verify == requests[r].op = "verify"
  IN /\ At(r, "code")
     /\ otps' = [otps EXCEPT ![<<IF verify THEN "register" ELSE "reset", requests[r].user>>] = 0]
     /\ GoOn(r, IF verify THEN "wallet" ELSE "password")
     /\ UNCHANGED <<accounts, identities, tokens, links, funded, events, claims, work>>

\* Every handler that needs the wallets: an error may hide a wallet that was made.  A
\* failed sign-up leaves its event to the reconciler.
AfterWallet == [verify |-> "status", google |-> "session", signup |-> "mark",
                link |-> "consume", connect |-> "done"]

InitializeWallet(r) ==
  /\ At(r, "wallet")
  /\ \/ /\ funded' = funded \cup {requests[r].user}
        /\ IF requests[r].op = "connect" THEN End(r) ELSE GoOn(r, AfterWallet[requests[r].op])
     \/ /\ funded' \in {funded, funded \cup {requests[r].user}}
        /\ End(r)
  /\ UNCHANGED <<accounts, identities, otps, tokens, links, events, claims, work>>

\* As if any account could still be verified.
MayVerify_Any(u) == Exists(u)

\* UserRepository.VerifyEmail: the transaction takes only an account that waits for it.
MayVerify(u) == accounts[u].status = "PENDING_VERIFICATION"

VerifyEmail(r) ==
  LET u == requests[r].user
  IN /\ At(r, "status")
     /\ \/ /\ MayVerify(u)
           /\ accounts' = [accounts EXCEPT ![u].status = "VERIFIED"]
           /\ GoOn(r, "session")
        \/ ~MayVerify(u) /\ End(r) /\ UNCHANGED accounts
     /\ UNCHANGED <<identities, otps, tokens, links, funded, events, claims, work>>
-----------------------------------------------------------------------------
(***************************************************************************)
(* Sessions.                                                               *)
(***************************************************************************)
NewToken(u, from, via) == [user |-> u, status |-> "ACTIVE", from |-> from, via |-> via]

\* issueTokenPair, and the reset of the counter of wrong passwords next to it.
IssueTokenPair(r) ==
  LET q == requests[r]
  IN /\ At(r, "session")
     /\ tokens' = Append(tokens, NewToken(q.user, 0, <<q.op, q.arg>>))
     /\ accounts' = IF q.op \in {"login", "google", "link"}
                    THEN [accounts EXCEPT ![q.user].failed = 0, ![q.user].locked = FALSE] ELSE accounts
     /\ End(r)
     /\ UNCHANGED <<identities, otps, links, funded, events, claims, work>>

MayTryPassword(u) == accounts[u].password /\ ~accounts[u].locked

Login(r, u) ==
  /\ MayTryPassword(u)
  /\ \/ Active(u) /\ Begin(r, "login", "session", u, 0)
     \/ Begin(r, "login", "track", u, accounts[u].failed + 1)
  /\ UNCHANGED <<accounts, identities, otps, tokens, links, funded, events, claims>>

\* TrackFailedLogin writes what the request counted from the row it read.
TrackFailedLogin(r) ==
  LET q == requests[r]
  IN /\ At(r, "track")
     /\ accounts' = [accounts EXCEPT ![q.user].failed = q.arg, ![q.user].locked = q.arg >= MaxFailed]
     /\ End(r)
     /\ UNCHANGED <<identities, otps, tokens, links, funded, events, claims, work>>

LockPasses(u) ==
  /\ accounts[u].locked
  /\ accounts' = [accounts EXCEPT ![u].locked = FALSE]
  /\ UNCHANGED <<identities, otps, tokens, links, funded, events, requests, claims, work>>

\* RefreshToken: a rotated token that comes back ends every session of its user.
RefreshToken(r, t) ==
  /\ \/ tokens[t].status = "ROTATED" /\ Begin(r, "refresh", "revoke", tokens[t].user, t)
     \/ tokens[t].status = "ACTIVE"  /\ Begin(r, "refresh", "rotate", tokens[t].user, t)
  /\ UNCHANGED <<accounts, identities, otps, tokens, links, funded, events, claims>>

\* TokenRepository.Rotate: the guard on the status, inside the transaction.
Rotates(t) == tokens[t].status = "ACTIVE"

Rotate(r) ==
  LET q == requests[r]
  IN /\ At(r, "rotate")
     /\ tokens' = IF Rotates(q.arg)
                  THEN Append([tokens EXCEPT ![q.arg].status = "ROTATED"], NewToken(q.user, q.arg, <<"refresh", 0>>))
                  ELSE tokens
     /\ End(r)
     /\ UNCHANGED <<accounts, identities, otps, links, funded, events, claims, work>>

Logout(t) ==
  /\ tokens[t].status = "ACTIVE" /\ AtOnce
  /\ tokens' = [tokens EXCEPT ![t].status = "REVOKED"]
  /\ UNCHANGED <<accounts, identities, otps, links, funded, events, claims>>

LogoutAll(r, u) ==
  /\ Exists(u) /\ Begin(r, "logout", "revoke", u, 0)
  /\ UNCHANGED <<accounts, identities, otps, tokens, links, funded, events, claims>>

\* On behalf of the admin service.
InvalidateUserSessions(r, u) == LogoutAll(r, u)

RevokeAll(r) ==
  LET u == requests[r].user
  IN /\ At(r, "revoke")
     /\ tokens' = [t \in DOMAIN tokens |->
          IF tokens[t].user = u /\ tokens[t].status = "ACTIVE"
          THEN [tokens[t] EXCEPT !.status = "REVOKED"] ELSE tokens[t]]
     /\ End(r)
     /\ UNCHANGED <<accounts, identities, otps, links, funded, events, claims, work>>

SuspendUser(r, u) ==
  /\ Exists(u) /\ Begin(r, "suspend", "revoke", u, 0)
  /\ accounts' = [accounts EXCEPT ![u].status = "SUSPENDED"]
  /\ UNCHANGED <<identities, otps, tokens, links, funded, events, claims>>

\* Whatever the status was.
UnsuspendUser(u) ==
  /\ Exists(u) /\ AtOnce
  /\ accounts' = [accounts EXCEPT ![u].status = "VERIFIED"]
  /\ UNCHANGED <<identities, otps, tokens, links, funded, events, claims>>

ChangePassword(r, u) ==
  /\ accounts[u].password /\ Begin(r, "change", "password", u, 0)
  /\ UNCHANGED <<accounts, identities, otps, tokens, links, funded, events, claims>>

UpdatePassword(r) ==
  /\ At(r, "password")
  /\ accounts' = [accounts EXCEPT ![requests[r].user].password = TRUE]
  /\ GoOn(r, "revoke")
  /\ UNCHANGED <<identities, otps, tokens, links, funded, events, claims, work>>
-----------------------------------------------------------------------------
(***************************************************************************)
(* Google.                                                                 *)
(***************************************************************************)
Linked(s) == identities[s] # NoUser
HasGoogle(u) == \E s \in Subs : identities[s] = u
SubOf(u) == CHOOSE s \in Subs : GoogleEmail[s] = u

\* The subject is looked up first, then the email it comes with.
GoogleLogin(r, s) ==
  /\ IF Linked(s) THEN Begin(r, "google", "existing", identities[s], 0)
                  ELSE Begin(r, "signup", "lookup", GoogleEmail[s], 0)
  /\ UNCHANGED <<accounts, identities, otps, tokens, links, funded, events, claims>>

\* handleExistingUserSession up to the wallets.
ExistingUserSession(r) ==
  /\ At(r, "existing")
  /\ IF Active(requests[r].user) THEN GoOn(r, "wallet") ELSE End(r)
  /\ UNCHANGED <<accounts, identities, otps, tokens, links, funded, events, claims, work>>

\* initiateLinkRequired when the email has an account, with its password to prove it.
LookupEmail(r) ==
  LET u == requests[r].user
  IN /\ At(r, "lookup")
     /\ \/ ~Exists(u) /\ GoOn(r, "create") /\ UNCHANGED links
        \/ /\ Exists(u)
           /\ links' = IF Active(u) /\ accounts[u].password
                       THEN Append(links, [user |-> u, sub |-> SubOf(u), state |-> "ACTIVE"]) ELSE links
           /\ End(r)
     /\ UNCHANGED <<accounts, identities, otps, tokens, funded, events, claims, work>>

\* One transaction for account, identity and event; each unique constraint has its way on.
CreateUserWithIdentity(r) ==
  LET u == requests[r].user
      s == SubOf(u)
  IN /\ At(r, "create")
     /\ \/ /\ Exists(u)
           /\ GoOn(r, "lookup")
           /\ UNCHANGED <<accounts, identities, events>>
        \/ /\ ~Exists(u) /\ Linked(s)
           /\ requests' = [requests EXCEPT ![r].op = "google", ![r].at = "existing", ![r].user = identities[s]]
           /\ UNCHANGED <<accounts, identities, events>>
        \/ /\ ~Exists(u) /\ ~Linked(s)
           /\ accounts' = [accounts EXCEPT ![u] = [NoAccount EXCEPT !.status = "VERIFIED"]]
           /\ identities' = [identities EXCEPT ![s] = u]
           /\ events' = [events EXCEPT ![u] = [status |-> "PENDING", attempts |-> 0, due |-> TRUE]]
           /\ GoOn(r, "wallet")
     /\ UNCHANGED <<otps, tokens, links, funded, claims, work>>

MarkProcessed(r) ==
  /\ At(r, "mark")
  /\ events' = [events EXCEPT ![requests[r].user].status = "PROCESSED"]
  /\ GoOn(r, "session")
  /\ UNCHANGED <<accounts, identities, otps, tokens, links, funded, claims, work>>

\* LinkGoogleAccount: the checks, the lock, the identity, the wallets, the token.
LinkGoogleAccount(r, l) ==
  LET u == links[l].user
  IN /\ links[l].state = "ACTIVE" /\ Active(u) /\ MayTryPassword(u)
     /\ \/ Begin(r, "link", "lock", u, l)
        \/ Begin(r, "link", "track", u, accounts[u].failed + 1)
     /\ UNCHANGED <<accounts, identities, otps, tokens, links, funded, events, claims>>

\* The lease outlives the context of the request that holds it.
HoldsLock(q, l) == q.op = "link" /\ q.arg = l /\ q.at \in {"bind", "wallet", "consume", "session"}

LockLink(r) ==
  /\ At(r, "lock")
  /\ IF \E q \in Requests : HoldsLock(requests[q], requests[r].arg) THEN End(r) ELSE GoOn(r, "bind")
  /\ UNCHANGED <<accounts, identities, otps, tokens, links, funded, events, claims, work>>

\* IdentityRepository.Create under its two unique constraints.
Bind(r, s) ==
  LET u == requests[r].user
  IN \/ /\ identities[s] = u
        /\ GoOn(r, "wallet")
        /\ UNCHANGED identities
     \/ /\ ~Linked(s) /\ ~HasGoogle(u)
        /\ identities' = [identities EXCEPT ![s] = u]
        /\ GoOn(r, "wallet")
     \/ /\ identities[s] # u /\ (Linked(s) \/ HasGoogle(u))
        /\ End(r)
        /\ UNCHANGED identities

BindIdentity(r) ==
  /\ At(r, "bind")
  /\ \/ requests[r].op = "link" /\ Bind(r, links[requests[r].arg].sub)
     \/ requests[r].op = "connect" /\ \E s \in Subs : Bind(r, s)
  /\ UNCHANGED <<accounts, otps, tokens, links, funded, events, claims, work>>

\* As if the script did not look at the state.
Consumes_Unchecked(l) == l \in DOMAIN links

\* The Lua script, atomically.
Consumes(l) == links[l].state = "ACTIVE"

ConsumeLink(r) ==
  LET l == requests[r].arg
  IN /\ At(r, "consume")
     /\ \/ /\ Consumes(l)
           /\ links' = [links EXCEPT ![l].state = "CONSUMED"]
           /\ GoOn(r, "session")
        \/ ~Consumes(l) /\ End(r) /\ UNCHANGED links
     /\ UNCHANGED <<accounts, identities, otps, tokens, funded, events, claims, work>>

LinkExpires(l) ==
  /\ links[l].state = "ACTIVE"
  /\ links' = [links EXCEPT ![l].state = "EXPIRED"]
  /\ UNCHANGED <<accounts, identities, otps, tokens, funded, events, requests, claims, work>>

\* ConnectGoogleAccount issues no tokens: the user has a session.
ConnectGoogleAccount(r, u) ==
  /\ \E t \in DOMAIN tokens : tokens[t].user = u
  /\ Begin(r, "connect", "bind", u, 0)
  /\ UNCHANGED <<accounts, identities, otps, tokens, links, funded, events, claims>>

Abandon(r) ==
  /\ requests[r] # Idle
  /\ End(r)
  /\ UNCHANGED <<accounts, identities, otps, tokens, links, funded, events, claims, work>>
-----------------------------------------------------------------------------
(***************************************************************************)
(* WalletReconciler.                                                       *)
(***************************************************************************)

\* As if a claimed row left PENDING.
Claim_TakesRow(w, u) ==
  /\ claims[w] = NoClaim
  /\ events[u].status = "PENDING" /\ events[u].due
  /\ claims' = [claims EXCEPT ![w] = [user |-> u, attempt |-> events[u].attempts + 1]]
  /\ events' = [events EXCEPT ![u].status = "CLAIMED"]
  /\ UNCHANGED <<accounts, identities, otps, tokens, links, funded, requests, work>>

\* ClaimPendingEvents leaves the row PENDING and puts its next attempt two minutes off;
\* a batch may take longer than that, and so may the process that died with it.
Claim(w, u) ==
  /\ claims[w] = NoClaim
  /\ events[u].status = "PENDING" /\ events[u].due
  /\ claims' = [claims EXCEPT ![w] = [user |-> u, attempt |-> events[u].attempts + 1]]
  /\ events' = [events EXCEPT ![u].due = FALSE]
  /\ UNCHANGED <<accounts, identities, otps, tokens, links, funded, requests, work>>

EventDue(u) ==
  /\ events[u].status = "PENDING" /\ ~events[u].due
  /\ events' = [events EXCEPT ![u].due = TRUE]
  /\ UNCHANGED <<accounts, identities, otps, tokens, links, funded, requests, claims, work>>

\* RecordFailureWithBackoff writes over whatever the row has become.
RecordFailureWithBackoff(u, attempt) ==
  events' = [events EXCEPT ![u].attempts = attempt, ![u].due = FALSE,
                           ![u].status = IF attempt >= MaxAttempts THEN "FAILED" ELSE @]

Reconcile(w) ==
  LET c == claims[w]
  IN /\ c # NoClaim
     /\ \/ /\ funded' = funded \cup {c.user}
           /\ events' = [events EXCEPT ![c.user].status = "PROCESSED"]
        \/ /\ funded' \in {funded, funded \cup {c.user}}
           /\ RecordFailureWithBackoff(c.user, c.attempt)
     /\ claims' = [claims EXCEPT ![w] = NoClaim]
     /\ UNCHANGED <<accounts, identities, otps, tokens, links, requests, work>>

ReconcilerStops(w) ==
  /\ claims[w] # NoClaim /\ work < MaxWork /\ work' = work + 1
  /\ claims' = [claims EXCEPT ![w] = NoClaim]
  /\ UNCHANGED <<accounts, identities, otps, tokens, links, funded, events, requests>>
-----------------------------------------------------------------------------
Statement(r) ==
  \/ ConsumeCode(r) \/ InitializeWallet(r) \/ VerifyEmail(r) \/ IssueTokenPair(r)
  \/ TrackFailedLogin(r) \/ Rotate(r) \/ RevokeAll(r) \/ UpdatePassword(r)
  \/ ExistingUserSession(r) \/ LookupEmail(r) \/ CreateUserWithIdentity(r) \/ MarkProcessed(r)
  \/ LockLink(r) \/ BindIdentity(r) \/ ConsumeLink(r)

\* The gRPC handlers: what users ask for, what the admin service asks for, and Google.
ByUser(r, u) ==
  \/ Login(r, u) \/ LogoutAll(r, u) \/ ChangePassword(r, u)
  \/ \E p \in Purposes : RightCode(r, p, u)
  \/ \E t \in DOMAIN tokens : tokens[t].user = u /\ RefreshToken(r, t)

ByUserAtOnce(u) ==
  \/ Register(u) \/ ResendVerificationCode(u) \/ ForgotPassword(u)
  \/ \E p \in Purposes : WrongCode(p, u)
  \/ \E t \in DOMAIN tokens : tokens[t].user = u /\ Logout(t)

ByAdmin(r, u) == InvalidateUserSessions(r, u) \/ SuspendUser(r, u) \/ UnsuspendUser(u)

ByGoogle(r, u) ==
  \/ ConnectGoogleAccount(r, u)
  \/ \E s \in Subs : GoogleEmail[s] = u /\ GoogleLogin(r, s)
  \/ \E l \in DOMAIN links : links[l].user = u /\ LinkGoogleAccount(r, l)

Reconciles(w) == Reconcile(w) \/ ReconcilerStops(w) \/ \E u \in Users : Claim(w, u)

TimePasses ==
  \/ \E u \in Users : LockPasses(u) \/ EventDue(u)
  \/ \E l \in DOMAIN links : LinkExpires(l)

AuthNext ==
  \/ \E r \in Requests, u \in Users : ByUser(r, u) \/ ByAdmin(r, u) \/ ByGoogle(r, u)
  \/ \E u \in Users : ByUserAtOnce(u)
  \/ \E r \in Requests : Statement(r) \/ Abandon(r)
  \/ \E w \in Reconcilers : Reconciles(w)
  \/ TimePasses

AuthSpec == AuthInit /\ [][AuthNext]_authVars

\* The reconciler's ticker never ends, and its calls have deadlines.
AuthFairness ==
  /\ \A u \in Users : WF_authVars(EventDue(u)) /\ WF_authVars(\E w \in Reconcilers : Claim(w, u))
  /\ \A w \in Reconcilers : WF_authVars(Reconcile(w))
AuthFairSpec == AuthSpec /\ AuthFairness
-----------------------------------------------------------------------------
(***************************************************************************)
(* Properties.                                                             *)
(***************************************************************************)
\* However many requests bring the same refresh token or the same link token at a time,
\* one session comes of it: Rotate and the Lua script let the first alone pass.
UsedOnce ==
  \A t1, t2 \in DOMAIN tokens : t1 # t2 =>
    /\ tokens[t1].from # 0 => tokens[t1].from # tokens[t2].from
    /\ tokens[t1].via[1] = "link" => tokens[t1].via # tokens[t2].via

\* Verification, Google sign-in and linking open a session only for a user whose wallets
\* the wallet service has confirmed ("fail-closed"), whichever request made the account.
WalletBeforeSession ==
  \A t \in DOMAIN tokens : tokens[t].via[1] \in {"verify", "google", "signup", "link"} => tokens[t].user \in funded

\* Sessions and codes are handed out once and to accounts that have their wallets.
SessionsSound == UsedOnce /\ WalletBeforeSession

\* A verification under way when its account is suspended does not lift the suspension.
SuspensionHolds ==
  [][\A u \in Users : accounts[u].status = "SUSPENDED" /\ accounts'[u].status # "SUSPENDED" => UnsuspendUser(u)]_authVars

\* An account made by Google sign-in gets its wallets, or its event fails for an operator
\* to see, wherever the request that made it stopped.
WalletInTheEnd ==
  <>[](\A u \in Users : events[u] # NoEvent => u \in funded \/ events[u].status = "FAILED")
=============================================================================
