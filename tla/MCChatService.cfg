SPECIFICATION Spec
CONSTANTS
    ann = ann  bob = bob  eve = eve  other = other  p1 = p1  p2 = p2
    None = None
    User <- MCUser
    Name <- MCName
    Pieces <- MCPieces
    Proc = {p1, p2}
    MaxChats = 1
    MaxMessages = 1
    MaxFaults = 1
SYMMETRY Symmetry
INVARIANTS TypeOK ChatsAreComplete MessagesBelong NoticesAreTrue EveryMemberIsToldOfDeletion AllButOneAreToldOfCreation PublishedWasStored NothingLeftToDelete
PROPERTIES ImplementsChatLog
CHECK_DEADLOCK FALSE
