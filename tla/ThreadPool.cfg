SPECIFICATION FairSpec
CONSTANTS
    Workers = {w1, w2, w3}
    Owner = Owner
    Free = Free
    MaxTasks = 4
    MaxSpurious = 1
INVARIANTS TypeOK ExactlyOnceInOrder WakeupPerTask StopReachesAll DrainedBeforeExit
PROPERTIES ImplementsTaskPool EveryTaskRuns DestructorReturns
