SPECIFICATION MCSpec
CONSTANTS
  Requests = {u, h}
  Calls = {c}
  Uploads = {u}
  Creds = {k, l}
  OneCred = k
  MaxFiles = 2
  NoFile = NoFile
INVARIANTS ActsForTheConfigured PrivateOnlyByFaultOrExit
PROPERTIES CutOnlyLateOrByPanic ShutdownEnds
