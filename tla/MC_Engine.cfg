\* Every configuration, leadership moving at every moment.  The session manager
\* and the migrator keep nothing running, so that they are always enabled.
SPECIFICATION FairSpec
CONSTANTS
    Self = 2
    Peer = {1, 3}
    Always = {"migration", "session"}
    Maybe = {"proxy", "cluster", "fpm", "cron", "metrics"}
    LeaderOnly = {TRUE, FALSE}
INVARIANTS TypeOK TrafficHasBackends FailedStartLeavesNoChild
           ShutdownIsComplete LeaderHasScheduler AtMostOneLeak JobsAreWaitedFor
PROPERTIES LeadershipConverges ShutdownCompletes
CHECK_DEADLOCK FALSE
