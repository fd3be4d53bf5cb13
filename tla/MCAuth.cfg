SPECIFICATION Spec
CONSTANTS
    ann = ann  bob = bob  mailA = mailA  mailB = mailB
    x = x  y = y  p1 = p1  p2 = p2
    None = None
    Name = {ann, bob}
    Email = {mailA, mailB}
    Password = {x, y}
    Proc = {p1, p2}
    MaxLinks = 3
    MaxFaults = 2
SYMMETRY Symmetry
INVARIANTS TypeOK RegisteredIsKept VerifiedByOwnLink DeadLinksHaveVerified TokensAreEarned
CHECK_DEADLOCK FALSE
