\* Two files, two changes, every fault.
CONSTANTS
  Files = {f1, f2}
  MaxChanges = 2
  Faults = {"list", "apply", "database", "crash"}
SPECIFICATION FairSpec
INVARIANT TypeOK
INVARIANT NoLostChange
PROPERTY CursorOnlyAdvancesOnSuccess
PROPERTY NewVersionIsNotServed
PROPERTY Converges
