SPECIFICATION FairSpec
CONSTANTS
  phone = phone
  tablet = tablet
  chat = chat
  apns = apns
  tele = tele
  NoToken = NoToken
  Device = {phone, tablet, chat}
  Dispatcher = {apns, tele}
  Token = {t1}
  MaxRegs = 0
  Registered = {phone, chat}
  Addressed = {phone, chat}
  Provider <- MCProvider
  Serves <- MCServes
  RetryDelays <- OneDelay
  Lease = 1
  Expiry = 2
  MaxFaults = 1
INVARIANTS
  RepeatNeedsRetryOrLostClaim
  FailureIsEarned
  TokenHasOneDevice
PROPERTIES
  DispatchedReachesAll
  RowIsSettled
CHECK_DEADLOCK FALSE
