SPECIFICATION FairSpec
CONSTANTS
  r1 = r1
  r2 = r2
  Runners = {r1, r2}
  Presences = {r2}
  Nobody = Nobody
  TTL = 4
  Retry = 1
  MaxDelay = 1
  MaxFaults = 2
INVARIANTS TypeOK PromptRunnerHolds StaleBounded
PROPERTIES Acquires
