SPECIFICATION Spec
CONSTANTS
  Handlers = {h1, h2}
  Main = main
  Monitor = monitor
  Threads = {t1, t2}
  Requests = {r1}
  MaxReconnectAttempts = 0
  TeardownMayHang = TRUE
  PatientClient = FALSE
  LoginsBesideTunnel = TRUE
  OutsideEvents = {}
  NoProc = NoProc
  NoThread = NoThread
  NoRequest = NoRequest
  NoInfo = NoInfo
SYMMETRY Symmetry
INVARIANT TypeOK
INVARIANT ConnectedHasThread
INVARIANT InfoHasThread
PROPERTY SlotSpec
