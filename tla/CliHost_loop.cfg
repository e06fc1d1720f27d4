SPECIFICATION FairSpec
CONSTANTS
 Calls = {c1}
 Configs = {p, q}
 FirstConfig = p
 Devices = {mic}
 None = None
 MaxSessions = 2
 MaxIncidents = 2
 MaxKeys = 2
INVARIANT CliInv
PROPERTIES NothingCutOff GoesDormant LossEnds
CHECK_DEADLOCK FALSE
