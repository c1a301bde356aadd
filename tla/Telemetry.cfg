SPECIFICATION FairSpec
CONSTANTS
  VersionLen = 14
  DistanceLens <- MCDistanceLens
  TimeLens <- MCTimeLens
  AngleLens <- MCAngleLens
  Percents <- MCPercents
  CALIBRATION_SAMPLES = 2
  AngleLen = 2
INVARIANT
  FrameIsClean
PROPERTIES
  FramesGoOn
  AnglesArrive
