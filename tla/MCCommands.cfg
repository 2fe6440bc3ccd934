SPECIFICATION Spec
CONSTANTS
  Invocation <- AllInvocations
  Environment <- AllEnvironments
  Disk <- Disks
  Edited <- BadContents
  MaxEdits = 1
INVARIANTS ByPrecedence ShownIsUsed OnlyOutputFailsLate ZeroIsComplete
PROPERTY OldFileKept
CONSTRAINT Halves
