SPECIFICATION Spec
CONSTANTS
    ann = ann  bob = bob  eve = eve  other = other  p1 = p1  p2 = p2
    None = None
    User <- MCUser
    Name <- MCName
    Pieces <- MCPieces
    Proc = {p1}
    MaxChats = 1
    MaxMessages = 0
    MaxFaults = 0
INVARIANTS OnlyMembersDelete
CHECK_DEADLOCK FALSE
