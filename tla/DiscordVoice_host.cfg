SPECIFICATION FairSpec
CONSTANTS
 Moves = {v1, v2}
 Messages = {m1}
 Pump = Pump
 None = None
 MaxSessions = 3
 MaxTrouble = 1
INVARIANT DiscordInv
PROPERTIES HandlersEnd
CHECK_DEADLOCK FALSE
