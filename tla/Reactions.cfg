SPECIFICATION FairSpec
CONSTANTS
    alarm = alarm
    clear = clear
    fast = fast
    slow = slow
    Signals = {alarm, clear}
    Reactors = {fast, slow}
    Name <- Names
    Matches <- MatchRules
    Recovers <- Recovery
    SameHost <- OneHost
    Window <- Windows
    Cooldown <- Cooldowns
    Limit <- Limits
    MaxTime = 1
    MaxCrashes = 1
    Editable = {slow}
INVARIANTS UnknownJobsComeFromDeaths RecoveryInTimeWins LimitOfConcurrentReactions ReactionFollowsJob
PROPERTIES EverythingIsSettled
CHECK_DEADLOCK FALSE
