SPECIFICATION FairSpec
CONSTANTS
    botA = botA  botB = botB  admin = admin  h1 = h1  h2 = h2
    Tokens <- MCTokens
    NoToken = NoToken
    Unset = Unset
    Chats <- MCChats
    From <- MCFrom
    To <- MCTo
    Env <- MCEnv
    Requests <- MCRequests
    Saves <- MCSaves
    MaxUpdates = 2
    MaxSaves = 2
    MaxRestarts = 1
    MaxDBErrors = 1
    MaxNetErrors = 1
    MaxOverlaps = 1
    MaxEvents = 1
INVARIANTS TypeOK StoredIsLive ExecutedOnce
PROPERTIES BotFollowsSettings CommandsHandled
CHECK_DEADLOCK FALSE
