\* SIGTERM.
SPECIFICATION FairSpec
CONSTANTS
    Self = 2
    Peer = {1}
    Always = {"fpm"}
    Maybe = {}
    LeaderOnly = {TRUE}
INVARIANT ExitIsGraceful
CHECK_DEADLOCK FALSE
