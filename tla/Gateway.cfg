SPECIFICATION Spec
CONSTANTS
    oauth = oauth
    second = second
    sess = sess
    None = None
    NoSession = NoSession
    Account = {oauth, second}
    Request = {r1, r2}
    Session = {sess}
    SessionKey <- OneSession
    Priority <- TwoTiers
    MaxConcurrency <- OneSlot
    OAuth = {oauth, second}
    Endpoints <- TwoEndpoints
    MaxEndpoints = 2
    Configs <- QuickConfigs
    AccountConfig <- AllQuick
    FailureCap = 1
    MaxOpen = 0
    MaxQuota = 1
    MaxAttempts = 2
    Cooldown = 1
    Rectifies = TRUE
    Fickle = {second}
    Impatient = {r1, r2}
INVARIANTS SlotsMatchHolders UpstreamWithinCap CallBudget UpstreamCallsAreRecorded
    OnlyFinalAnswers EveryRequestCanEnd
SYMMETRY Requests
PROPERTIES EveryStepAdvances ImplementsSemaphore
