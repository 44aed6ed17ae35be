SPECIFICATION FairSpec
CONSTANTS
  Handlers = {h1}
  Main = main
  Monitor = monitor
  Threads = {t1, t2}
  Requests = {r1}
  MaxReconnectAttempts = 1
  TeardownMayHang = FALSE
  PatientClient = FALSE
  LoginsBesideTunnel = FALSE
  OutsideEvents = {}
  NoProc = NoProc
  NoThread = NoThread
  NoRequest = NoRequest
  NoInfo = NoInfo
PROPERTY LoginStartsTunnel
