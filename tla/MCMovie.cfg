SPECIFICATION Spec
CONSTANTS
  Inputs = {"i0", "i1"}
  NoInput = "i0"
  Halfway = halfway
  Commands = {"reset"}
  Media = {"disc"}
  MidSync <- MCMidSync
  Depth = 2
  FeatureSets = {{"rewind"}, {"states", "netplay"}, {"rewind", "failures"}, {"states", "failures"},
                 {"netplay", "failures"}}
  MaxFed <- MCMaxFed
  MaxFile <- MCMaxFile
  MaxSessions <- MCMaxSessions
INVARIANTS SnapshotsInSync RecordingInSync PlaybackInSync
