SPECIFICATION FairSpec
CONSTANTS
  Browsers = {b1, b2}
  proxy = proxy
  Addresses = {proxy}
  AddressOf <- MCAddressOf
  Passwords = {w1, w2}
  Tokens = {t1, t2}
  SESSION_TTL = 2
  MAX_FAILURES = 2
  FAILURE_WINDOW = 2
  None = None
  Damaged = Damaged
  Insecure = Insecure
INVARIANTS
  TypeOK
  GuessesAreLimited
  SignedInKnowThePassword
  SignedOutStaysOut
PROPERTIES
  PasswordIsNeverLost
  LockoutsAndSessionsEnd
