SPECIFICATION FairSpec
CONSTANTS
  Callers = {c1, c2}
  Nobody = Nobody
  Enabled = TRUE
  MinSamples = 2
  RateNum = 1
  RateDen = 2
  WindowDuration = 1
  OpenDuration = 1
  MaxProbes = 1
  MaxWindowEntries = 2
  MaxTime = 2
INVARIANTS TypeOK ProbeAccounting MirrorAgrees LeaseBound WindowCount
PROPERTIES NoStranding
