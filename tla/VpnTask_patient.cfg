SPECIFICATION FairSpec
CONSTANTS
  Handlers = {h1}
  Main = main
  Monitor = monitor
  Threads = {t1, t2}
  Requests = {r1, r2}
  MaxReconnectAttempts = 1
  TeardownMayHang = TRUE
  PatientClient = TRUE
  LoginsBesideTunnel = FALSE
  OutsideEvents = {"stop"}
  NoProc = NoProc
  NoThread = NoThread
  NoRequest = NoRequest
  NoInfo = NoInfo
PROPERTY DisconnectReturns
INVARIANT ConnectedIsDialed
