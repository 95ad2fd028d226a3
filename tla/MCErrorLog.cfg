\* Two writers, an exporter and a health check; two daily files.
CONSTANTS
  w1 = w1  w2 = w2  x1 = x1  x2 = x2  c1 = c1  c2 = c2
  Writers <- TwoWriters
  Exporters <- OneExporter
  Checkers <- OneChecker
  Main = Main
  Free = Free
  MaxRecords = 2
  MaxDay = 2
SPECIFICATION Spec
SYMMETRY Symmetry
INVARIANTS TypeOK IoMuExclusion AckedAreDurable ExportIsSnapshot ProbeFileIsTransient
PROPERTIES DegradationEndsByRecovery LogsOnlyGrow ImplementsFailureLog
