SPECIFICATION MCSpec
CONSTANTS
    Tables = {t1, t2}
    FirstTable = t1
    None = None
    MaxPending = 1
    MaxSockets = 4
    MaxInbox = 3
    Budgets <- SomeBudgets
    MaximumPendingRequests = 1
    MaxRequests = 2
    MaxUnread = 2
INVARIANTS
    OutcomesAreHonest
    TelemetryIsWatched
    EditsSurvive
    WidgetKeepsTrack
PROPERTIES
    CommandsFollowSnapshot
    ClientsRecover
CHECK_DEADLOCK FALSE
