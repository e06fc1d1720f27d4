SPECIFICATION PartsSpec
CONSTANTS
  Setups = {auto, hand}
  FirstSetup = auto
  Manual = {hand}
  Sources = {mic, system}
  FirstSource = mic
  NotSaved = NotSaved
  EventCap = 2
  MaxFragments = 2
  MaxCommands = 2
  MaxTrouble = 2
  Unset = Unset
  Built = {"microphone", "speaker", "screen_share"}
  SavedProfiles <- MCProfiles
  TimerArgs <- MCTimerArgs
  MaxU64 = 15
  MaxTimer = 10
  DaySecs = 6
  HourSecs = 3
  MinSecs = 2
  MaxStarts = 2
  MaxEdits = 2
  MaxCalls = 1
  MaxOutput = 2
  Chunk = 2
  PipeCap = 2
  MaxWritten = 3
  FileLines = 5
  PageLines = {1, 2, 4}
  Root = "root"
  Children <- MCChildren
  Outside = {"out", "away"}
  EntryLimits = {3, 6}
  Pump = Pump
  NoTrack = NoTrack
  MaxChunks = 3
  MaxTracks = 3
  ModelRate = 2
  OutputRates = {1, 2, 3}
  Pieces = {1, 2}
  Periods = {1, 2}
  MaxQueued = 5
  MaxStreams = 2
  AecRate = 2
  Frame = 2
  OutRate = 1
  ChunkSamples = 2
  DeviceRates = {2, 3}
  Buffers = {1, 5, 6}
  ChannelCap = 1
  MaxSamples = 7
  MaxToggles = 2
INVARIANTS TranscribeInv CatalogInv WorkspaceInv CaptureInv
PROPERTIES TranscribeProgress CallsRight CommandEnds PlaybackContract SpeakerContract
CHECK_DEADLOCK FALSE
