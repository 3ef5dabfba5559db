CONSTANTS
    Parts = {"review", "signin", "console", "agent", "mail", "inbound", "evolution", "messages", "cards",
             "routing", "skills", "actions", "delivery", "tool", "crm", "plugins", "team", "gate", "operator"}
    PlannedReviewers = {"cto", "qa"}
    FallbackReviewer = "qa"
    PlanLimit = 1
    Rounds = 2
    Drafts <- FourDrafts
    Slots = 2
    ReviewUpsets = {"fail", "cancel", "crash", "close"}
    MaxReviewUpsets = 1
    Tabs = {"tab1", "tab2"}
    Logins = {"s1", "s2"}
    NoLogin = "none"
    Troubles = {"offline", "stale"}
    MaxTroubles = 1
    Items = {"a", "b"}
    NoItem = "none"
    MaxAsked = 2
    MaxClicks = 3
    Glitches = {"overtake", "failure"}
    MaxGlitches = 1
    Primaries = {"openai", "ollama"}
    Keys = {"zhipu"}
    MaxRounds = 2
    MaxCalls = 2
    MaxMsgs = 3
    Chats = {"c1"}
    NoChat = "nochat"
    MaxEvents = 1
    Messages = {"m1", "m2"}
    Chat = "chat"
    MaxCopies = 2
    MaxMessageFaults = 1
    Approvers = {"ann", "bob"}
    LastStep = 2
    MaxPresses = 2
    MaxCardFaults = 1
    Templates = {"founder", "own"}
    DefaultTemplates = {"founder"}
    MaxEdits = 2
    MaxInstalls = 2
    MaxSkillUpsets = 2
    Named = {"a"}
    Own = {"own"}
    NoFilter = "all"
    LogWindow = 3
    MaxPosts = 2
    MaxOther = 1
    StageTroubles = {"again", "cancel", "crash", "split"}
    MaxStageTroubles = 1
    MaxQuestions = 1
    MaxTasks = 5
    Providers <- TwoTools
    Limit <- ClockLimits
    Grace = 1
    Setbacks = {"held", "crash", "spawn"}
    Cadences = {"weekly"}
    Interval <- TwoDays
    Outcomes = {"note", "replied", "won"}
    MaxDay = 3
    MaxOwnerRequests = 2
    MaxCrashes = 1
    LoadOrder <- TwoPlugins
    Async = {"q"}
    PluginConfigs = {"default", "other"}
    DefaultConfig = "default"
    MaxOrders = 2
    MaxDecisions = 1
    MischiefKinds = {"fail", "unread", "busy", "crash"}
    MaxMischief = 2
    KindOf <- FourMails
    Lookback = 1
    MaxSeen = 2
    RateLimit = 1
    Mishaps = {"refused", "lost", "busy", "crash", "restart", "break", "off"}
    MaxMishaps = 2
    Actions = {"a1", "a2"}
    OperatorRequests = {"q1", "q2"}
    Askers = {"owner", "member"}
    Askable <- AskedFor
    Trusted = {"owner"}
    NoAction = "none"
    ActionUpsets = {"crash", "refuse", "learn"}
    MaxActionUpsets = 1
    Emitter <- SignalEmitter
    Server = "orchestrator"
    Known <- SignalsKnown
    MaxSignals = 6
    MaxUndos = 1
    MaxLooks = 1
    Boss = "boss"
    Roles = {"role1", "role2"}
    Merges = {"merge1", "merge2", "merge3"}
    Concurrency = 2
    PartialMin = 1
    NoProgressMode = "await_user"
    ManualMode = "partial"
    MaxReplies = 1
    Hazards = {"crash", "error", "slow", "early", "cancel"}
    MaxFaults = 1
SPECIFICATION MCFairSpec
CHECK_DEADLOCK FALSE
INVARIANTS
    ServicesTypeOK LearningIsAccountable ReviewsAreBounded AnswersAreSound MessageHandledOnce
    StepDecidedOnce PluginsFollowTheOwner
PROPERTIES
    SessionIsKept MessagesFindTheirWork RoutesAreSound VerdictsAreTrue StagesAreTrue
    CommandsAreSound TeamsMergeOnce RoundImplemented ToolsObeyTheGate OperatorsAreObeyed
    OutcomesAreRight PeopleAreServed WorkConcludes
