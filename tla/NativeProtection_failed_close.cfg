SPECIFICATION Spec
CONSTANTS
    Ids <- NineIds
    FillTasks = {f1}
    MaxSize = 1
    MaxStop = 1
    MaxEntries = 1
    MaxExits = 1
    MaxTrails = 0
    MaxRestarts = 0
    MaxErrors = 1
    MaxBusy = 2
INVARIANT FailedCloseCovered
