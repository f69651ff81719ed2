SPECIFICATION Alone
CONSTANTS
    Organizations <- MCOrganizations
    Managed = {}
    Retentions = {1}
    RetentionDays = 1
    MaxTime = 1
    MaxExports = 0
    MaxFaults = 1
    MaxChanges = 0
    Requests = {}
    Drills = {}
    Assets = {}
    MaxRestoreFaults = 0
PROPERTIES UnrelatedPoliciesAreServed
CHECK_DEADLOCK FALSE
