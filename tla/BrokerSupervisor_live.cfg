\* No symmetry: it is unsound for liveness.
SPECIFICATION FairSpec
CONSTANTS
  Threads = {t1, t2}
  Sessions = {s1}
  Ops = {"session.open", "session.list", "worker.status", "worker.exec", "session.close"}
  MaxOps = 2
  None = None
PROPERTIES OperationsAnswered
CHECK_DEADLOCK FALSE
