SPECIFICATION Spec
CONSTANTS
  t1 = t1
  t2 = t2
  a1 = a1
  a2 = a2
  Threads = {t1, t2}
  Aptrs = {a1, a2}
  Owner <- OneEach
  Uses <- MixedUse
  Pages = {0, 1, 2}
  NumBuckets = 2
  Frames = {f1, f2, f3}
  Slack = 1
  RefMod = 256
  Values = {v1, v2}
  NoThread = NoThread
  NoPage = NoPage
  NoFrame = NoFrame
  NoOp = NoOp
  Undef = Undef
SYMMETRY FrameValueSymmetry
INVARIANTS TypeOK PinnedStaysCached RefCountExact FramesPartitioned UsedQueueExact OnlyCachedDirty NeverAborts
PROPERTIES ImplementsSecureMemory
