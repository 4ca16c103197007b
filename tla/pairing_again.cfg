CONSTANTS
    Links = {l0}
    Link0 = l0
    NoLink = NoLink
    Peers = {p1}
    NoPeer = NoPeer
    MaxBonded = 1
    MaxMoves = 4
SPECIFICATION FairSpec
PROPERTIES BondedReadAnswered
CHECK_DEADLOCK FALSE
