SPECIFICATION FairSpec
CONSTANTS
    server = server
    tool = tool
    other = other
    path = path
    Servers <- MCServers
    Entries <- MCEntries
    WrapOptions <- MCWrapOptions
    MaxSeconds = 1
    MaxCommands = 3
    Tools <- MCTools
    Requests <- MCRequests
    Replies <- MCReplies
    MaxSends = 2
    MaxSays = 2
    MaxLines = 1
    LaunchWithin = 0
INVARIANTS SeenIsEnforced Relayed
PROPERTIES ConfigKept Serves
CHECK_DEADLOCK FALSE
