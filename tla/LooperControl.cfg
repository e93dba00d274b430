SPECIFICATION FairControlSpec
CONSTANTS
    Loopers <- MCLoopers
    Sizes <- MCSizes
INVARIANTS StopWithinOne SafetyEndsRun BreakersExact OneConversation StoppedMeansStopped 
PROPERTIES StopEndsRun
CHECK_DEADLOCK FALSE
