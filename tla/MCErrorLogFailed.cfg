\* A failed write beside an export and a health check.
CONSTANTS
  w1 = w1  w2 = w2  x1 = x1  x2 = x2  c1 = c1  c2 = c2
  Writers <- OneWriter
  Exporters <- OneExporter
  Checkers <- OneChecker
  Main = Main
  Free = Free
  MaxRecords = 2
  MaxDay = 1
SPECIFICATION Spec
INVARIANTS FailedWriteIsReported
