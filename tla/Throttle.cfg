CONSTANTS
  RateLimits <- MC_RateLimits

SPECIFICATION FairSpec
INVARIANT TypeOK
INVARIANT RateLimitsRespected
PROPERTY FireEventuallyServed
