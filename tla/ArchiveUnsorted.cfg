SPECIFICATION PartsSpec
CONSTANTS
    NoLimit = NoLimit
    NoFile = NoFile
    NoBound = NoBound
    Infinite = Infinite
    Thresholds <- MCThresholds
    PacketLengths = {1, 30}
    Tolerance = 1
    MaxTime = 4
    MaxGiven = 4
    DataLengths = {0, 1, 2, 3}
    SnapLength = 2
    BufferSize = 3
    MaxWritten = 3
    MaxOpened = 3
    Sizes = {1, 2, 5}
    PayloadTypes = {"bytes", "tuple"}
    MaxSize = 4
    MaxProcessed = 4
    LimitSets <- MCLimitSets
    Values <- MCValues
    NotifyOptions <- MCNotifyOptions
    MaxSeen = 3
    Apids <- MCApids
    DefaultTopic = "default"
    TableEntries <- MCTableEntries
    MaxListed = 4
    PacketNames = {p1}
    Modes = {a, b}
    Capacity = 1
    Timeouts <- MCTimeouts
    Forever = Forever
    MaxCommands = 2
    MaxReceived = 2
    On = On
    Off = Off
    CommandDefinitions <- MCCommands
    ArgumentValues <- MCArguments
    NoEnum = NoEnum
    NoRange = NoRange
    Missing = Missing
    Pad = 6
    MaxDefined = 3
    MaxCreated = 1
    FieldDefinitions <- MCFields
    HistoryNames <- MCHistoryNames
    NoMask = NoMask
    AlwaysPresent = AlwaysPresent
    RawData <- MCRawData
    SetValues <- MCSetValues
    MaxPackets = 2
    MaxSets = 2
    BeforeEpoch <- MCBeforeEpoch
    SecondsInWeek = 3
    ZoneOffsets <- MCZoneOffsets
    Horizon = 2
    LastDate = 7
    MaxKills = 2
    PacketTypes <- MCPacketTypes
    FirstTypes = 2
    Times = {1, 2}
    MaxInserted = 3
    MaxQueries = 1
    CommandNames = {"FIRE", "BAD"}
    CommandsKnown = {"FIRE"}
    LongCommands = {"DUMP"}
    StrayFractions = {0}
    Milliseconds = {1200}
    MaxSeconds = 3
    MaxLines = 2
    MaxWrites = 2
    packet_types <- MCPatterns
    AnyBit = AnyBit
    NoType = NoType
    SecondaryHeader = 1
    Workflows <- MCWorkflows
    Datagrams <- MCDatagrams
    MaxArrived = 2
    CellNames = {On, Off}
    NoMap = NoMap
    TableDefinitions <- MCTables
    Texts <- MCTexts
    MaxRuns = 3
    NoVariable = NoVariable
    ConfigFiles <- MCConfigFiles
    VariablesGiven <- MCVariables
    DefaultVariables <- MCDefaultVariables
    PathKeys = {"path"}
    MaxReloads = 2
INVARIANT QueryIsTimeSorted
CHECK_DEADLOCK FALSE
