SPECIFICATION Spec
CONSTANTS
  v1 = v1
  a1 = a1
  Viewer <- OneViewer
  Asker <- OneAsker
  MaxFrames = 3
  PipeSize = 10
INVARIANTS
  LatestIsWhole
  NumberAndFrameAgree
PROPERTIES
  ViewersKeepUp
