SPECIFICATION FairSpec
CHECK_DEADLOCK FALSE
CONSTANTS
  Events = {e1}
  Slots = {m1, m2, m3, m4}
  None = None
  MaxRetries = 3
  MaxOutages = 2
  Faults = {"publish", "user", "database", "smtp", "answer", "crash", "disconnect"}
INVARIANTS
  TypeOK
  NothingLost
  MailsLimited
PROPERTIES
  EventuallyAcked
  ServiceSpec
