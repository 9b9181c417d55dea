SPECIFICATION FairSpec
CONSTANTS
    SingleWriter = TRUE
    MaxEvent = 3
INVARIANTS TypeOK NothingSkipped ReportedOnce PollerAlive AnnouncedIsShown
PROPERTIES EveryChangeReported AnnouncedGetsShown
