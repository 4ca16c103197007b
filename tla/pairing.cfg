CONSTANTS
    Links = {l0, l1}
    Link0 = l0
    NoLink = NoLink
    Peers = {p1, p2}
    NoPeer = NoPeer
    MaxBonded = 1
    MaxMoves = 4
SPECIFICATION FairSpec
INVARIANTS EventWhenAsked EventAnnounced Connectable OwnTimer
PROPERTIES DataOnlyToPaired PollReturns
CHECK_DEADLOCK FALSE
