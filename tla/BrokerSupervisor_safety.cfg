SPECIFICATION Spec
CONSTANTS
  Threads = {t1, t2}
  Sessions = {s1}
  Ops = {"session.open", "session.create", "session.list", "session.rediscover", "worker.status", "worker.exec", "worker.file_edit", "worker.files", "worker.terminal", "session.close"}
  MaxOps = 2
  None = None
SYMMETRY Symmetry
INVARIANTS TypeOK RegistryMirrorsHandles NoOrphanWorker NoStaleResponse HonestAnswer
PROPERTIES NoResurrection
CHECK_DEADLOCK FALSE
