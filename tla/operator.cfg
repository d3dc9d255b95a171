SPECIFICATION FairSpec
CONSTANTS
    Procs = {p, q}
    LeaseDuration = 8
    RenewDeadline = 2
    RetryPeriod = 1
    MaxCall = 1
    MaxRetries = 1
    createCRD = TRUE
    MaxFaults = 2
  
PROPERTIES  SomeoneServes
