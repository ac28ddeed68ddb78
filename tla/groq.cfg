SPECIFICATION FairSpec
CONSTANTS
    c1 = c1
    c2 = c2
    c3 = c3
    e1 = e1
    NoEntity = NoEntity
    NoCall = NoCall
    Calls <- MCCalls
    Entities <- MCEntities
    EntityOf <- MCEntityOf
    BaseOf <- MCBaseOf
    Cost <- MCCost
    Top = 1
    Drop = 1
    Rpm <- MCRpm
    Tpm <- MCTpm
    EntityRpm <- MCEntityRpm
    EntityTpm <- MCEntityTpm
    MaxRetries = 2
    BreakerFailures = 2
    OpenMinutes = 1
    MaxMinute = 1
INVARIANTS
    GuardHolds
PROPERTIES
    CallsReturn
CHECK_DEADLOCK FALSE
