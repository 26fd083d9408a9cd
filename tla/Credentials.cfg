SPECIFICATION CredentialsSpec
CONSTANTS
  Parts = {"file", "round", "tokens", "enterprise", "sign-in", "probe"}
  None = none
  Keys = {k1, k2}
  Values = {v1}
  Absent = none
  Writers = {w1, w2}
  Requests = {r1, r2}
  Completers = {c1}
  MaxRounds = 2
  Forged = forged
  Issuers = {a, b}
  Readers = {q1}
  Authorizers = {t1}
  MaxMinted = 2
  Assertions = {e1, e2}
  SignIns = {s1, s2}
  MaxIssued = 3
INVARIANTS
  FileDurable
  InvalidatedGone
  SessionKept
  SuggestionSound
PROPERTIES
  CallbackIsOwn
  CredentialsSettle
CHECK_DEADLOCK FALSE
