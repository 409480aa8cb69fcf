SPECIFICATION Spec
CONSTANTS
    Workers <- ThreeWorkers
    Tasks <- ThreeTasks
    Nobody = Nobody
    NoTask = NoTask
INVARIANTS
    TypeOK FrontExists NoLostWakeup NobodySleepsThroughStop DrainedWhenDestroyed
PROPERTIES ImplementsTaskPool DestructorReturns
CHECK_DEADLOCK FALSE
