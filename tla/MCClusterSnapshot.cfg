SPECIFICATION Spec
CONSTANTS
    Host <- MCHost
    Vm <- MCVm
    VCpus <- MCVCpus
    Cores <- MCCores
    Hyperthreaded <- MCHyperthreaded
    RunningThreads <- MCRunningThreads
    RunningCores <- MCRunningCores
    MonsterPct = 50
    MaxChanges = 1
    NoData = NoData
INVARIANTS
    TypeOK
    FailureNeverOverstates
    CompleteReadIsExact
    UnchangedVmIsCountedWhereItIs
