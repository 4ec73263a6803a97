\* Three clients call again and again; the watchdog of one of them can be too
\* late, holders stop or never return.  A call waits twice before it gives up.
SPECIFICATION FairSpec
CONSTANTS
  prompt = prompt
  late = late
  third = third
  NoToken = NoToken
  OrphanToken = OrphanToken
  Clients = {prompt, late, third}
  Ttl = 3
  WaitTimeout = 2
  MaxWait = 3
  MaxLate <- Lateness
INVARIANTS
  TypeOK
  PromptHoldersKeepTheLock
  WaitIsBounded
PROPERTIES
  CallsEnd
CHECK_DEADLOCK FALSE
