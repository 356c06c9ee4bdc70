SPECIFICATION FairSpec
CONSTANTS
  int = int  hup = hup  segv = segv  pipe = pipe  kill = kill  etc = etc
  Signals = {int, hup, segv, pipe, kill}
  Refused = {kill}
  Project = project  Local = local
  Deployments <- Both
  NoSignal = NoSignal
INVARIANTS HandledSignalsDoNotKill CleanupMatchesInitialize FailClosed SnapshotFollowsPrecedence
PROPERTIES StopsWhenAsked
CHECK_DEADLOCK FALSE
