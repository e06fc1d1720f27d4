SPECIFICATION CatalogSpec
CONSTANTS
  Unset = Unset
  Built = {"microphone", "speaker", "screen_share"}
  SavedProfiles = {{"timer", "read_file"}}
  TimerArgs = {}
  MaxU64 = 15
  MaxTimer = 10
  DaySecs = 6
  HourSecs = 3
  MinSecs = 2
  MaxStarts = 1
  MaxEdits = 0
  MaxCalls = 0
PROPERTIES ProfileStarts
CHECK_DEADLOCK FALSE
