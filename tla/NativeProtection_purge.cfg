SPECIFICATION FairSpec
CONSTANTS
    Ids <- NineIds
    FillTasks = {f1}
    MaxSize = 1
    MaxStop = 2
    MaxEntries = 1
    MaxExits = 0
    MaxTrails = 1
    MaxRestarts = 1
    MaxErrors = 1
    MaxBusy = 2
PROPERTY ResidualsPurged
