SPECIFICATION AccessSpec
CONSTANTS
  u1 = u1
  u2 = u2
  g = g
  Users = {u1, u2}
  Subs = {g}
  GoogleEmail <- MCGoogleEmail
  Requests = {r1, r2}
  Reconcilers = {w1, w2}
  NoUser = NoUser
  MaxFailed = 2
  MaxCodeTries = 2
  MaxAttempts = 2
  MaxWork = 3
  k1 = k1
  k2 = k2
  Plans <- MCPlans
  Keys = {k1, k2}
  Handlers = {h1, h2}
  Sagas = {s1}
  Nobody = Nobody
  MaxSagaAttempts = 2
  MaxUpsets = 2
  Events = {e1, e2}
  Publishers_ = {p1, p2}
  Unlocked = Unlocked
  BatchLimit = 2
  MaxPublishes = 2
  MaxSnags = 3
  Workers = {n1, n2}
  Operators = {o1}
  Sustained = 3
  MaxIncidents = 3
  MaxTurns = 4
INVARIANTS SessionsSound CompletedIsDone
PROPERTIES SuspensionHolds WalletInTheEnd  EventsSettle IncidentsFollow
CHECK_DEADLOCK FALSE
