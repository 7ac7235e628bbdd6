SPECIFICATION ClientsSpec
CONSTANTS
    Parts = {"session", "negotiation", "recovery", "controls", "shortcuts", "updates", "windows", "settings", "keys", "alerts", "cues", "kept", "places", "mesh", "screens", "pictures"}
    Rotation = 4  Grace = 1  Persistence = 3  Memory = 5  Window = 8  RenewFloor = 2
    WrittenWithin = 1  RequestDelay = 0  ResponseDelay = 1  LastTick = 9
    FlightBound = 2  KillBound = 1  None = None
    Bots = {0, 1, 2}  MaxMediaChanges = 2
    MaxRebuilds = 2  MaxRecoveries = 1
    MaxActs = 3  MaxMutes = 2  MaxDrops = 1  MaxLosses = 1
    TalkKey = k1  HushKey = k2  MuteKey = k3  Unbound = Unbound
    MaxKeyEvents = 3  MaxSettings = 1  MaxUpsets = 1
    MaxRelease = 2  MaxRounds = 1  MaxRequests = 2  MaxStarts = 1
    Chords = {c1, c2}  Unset = Unset  MaxAsks = 2  MaxWindows = 2
    LeftSide = left  RightSide = right  AnySide = any  PlainKeys = {m, n}  StopKey = tab  NoKey = nokey
    Kinds = {message}  Accounts = {ana, ben}  NoAccount = NoAccount  MaxAlerts = 2  MaxToasts = 1
    MaxSnapshots = 3
    Entries = {a, b}  NoEntry = NoEntry  EntryLimit = 1  MaxPleas = 2  MaxMoves = 3  MaxKills = 1  MaxFaults = 2
    MaxStays = 2  MaxSignals = 1  MaxTroubles = 1  MaxRefreshes = 1  MaxLooks = 1
    MaxStrokes = 3  MaxBinds = 2
    Places = {a, b}  NoPlace = NoPlace  MaxChoices = 2  MaxCalls = 1
    MaxCaptures = 2  MaxWatches = 2  MaxShareCalls = 2
    Startup = 2  Unavailable = 1  Presentation = 1  Cooldown = 3  GiveUp = 5  AnswerWithin = 1
INVARIANTS
    CredentialInv
    BrowserKeepsItsSession
    ExchangesAreOrderly
    MediaIsAsShown
    UpdatesHold
    ShortcutsHold
    HomeSettles
    AlertsHold
    KeptStateHolds
    ListenersAreFed
PROPERTIES
    ReplacementsAreSpaced
    NoOldCredentialRevives
    RecoveryIsSingleFlight
    TheKeyDecides
    ChoicesHold
    ShortcutsAreConsented
    PressesBeginOneHold
CHECK_DEADLOCK FALSE
