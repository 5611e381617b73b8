SPECIFICATION Spec
CONSTANTS
    Submitted = {"s1", "s2", "s3"}
    ChallengeUntil <- EveryDeadline
    Appears <- EveryStart
    OwnSubmission = {"s3"}
    Lookback = 1
    Bond = 2
    SpendLimit = 3
    LastLedgerSeen = 3
    BotFaults = 1
    Callers = {"b1", "b2", "b3"}
    GuardedMarkets = {1, 2}
    SubmitFaults = 2
INVARIANTS
    TablesFollowTheChain
    BoundsHold
    BotsAreSound
    BondsAreSpentOnce
    OperatorsAreTold
    DecisionsAreSound
PROPERTIES
    PromisesHold
    LastLookHolds
    NeverTakenBack
CHECK_DEADLOCK FALSE
