SPECIFICATION Spec
CONSTANTS
    Host <- MCHost
    Vm <- MCVm
    VCpus <- MCVCpus
    Cores <- MCCores
    Hyperthreaded <- MCHyperthreaded
    RunningThreads <- MCRunningThreads
    RunningCores <- MCRunningCores
    MonsterPct = 50
    MaxChanges = 0
    NoData = NoData
INVARIANT NeverAGuess
