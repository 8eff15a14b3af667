SPECIFICATION Spec
CONSTANT MaxTasks = 3
INVARIANTS
    RunQueueIsOneRing
    OnOwnStack
    SuspendedResumable
    AddressSpaceOfCurrent
    Preemptible
PROPERTIES
    SuspendedContextUntouched
    EveryTaskRuns
    DirtyFlushed
    MouseServiced
    ImplementsRoundRobin
