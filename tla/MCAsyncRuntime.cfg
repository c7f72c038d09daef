SPECIFICATION FairSpec
CONSTANTS
  A = A
  B = B
  C = C
  D = D
  Main = Main
  Task = {A, B, C, D}
  MaxWorkers = 2
  Programs <- MCPrograms
INVARIANTS WellFormed QueueIsServed HangsOnlyByBurial
PROPERTY Terminates
