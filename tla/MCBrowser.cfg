SPECIFICATION Spec
CONSTANTS
    None = None
    User = {ann, bob}
    Chat = {1}
    Socket = {s1, s2, s3}
    MaxAttempts = 2
    MaxLoads = 1
    MaxAsked = 1
    MaxLogins = 2
INVARIANTS TypeOK SocketIsOfTheUser OneConnectionPerLogin
PROPERTIES GetsConnected ListedChatsAreJoined
CHECK_DEADLOCK FALSE
