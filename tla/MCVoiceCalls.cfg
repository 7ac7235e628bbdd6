SPECIFICATION ActorSpec
CONSTANTS
    Users <- CallUsers
    Sessions <- CallSessions
    Sockets <- CallSockets
    Servers = {srv}
    Rooms <- CallRooms
    AccountOf <- CallAccountOf
    SessionOf <- CallSessionOf
    InstanceOf <- CallInstanceOf
    ServerOf <- CallServerOf
    AfkRooms = {}
    MediaRequests <- QuietRequests
    ModerationRequests = {}
    VisualPublisherLimit = 1
    None = None
    Owner = Owner
    Server = Server
    Network = Network
    ada = ada
    laptop = laptop
    phone = phone
    tab1 = tab1
    tab2 = tab2
    tab3 = tab3
    tab4 = tab4
    page1 = page1
    page2 = page2
    page3 = page3
    srv = srv
    lobby = lobby
    den = den
INVARIANTS
    TypeOK
    OneRoomPerAccount
    SignalsReachOnlyTheHolder
    NobodyIsStranded
    MembersAreAdmitted
PROPERTIES
    AbandonedCallEnds
    OnlyTheHolderEndsTheCall
    ImplementsOneCall
