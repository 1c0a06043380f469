SPECIFICATION Spec
CONSTANTS
    s1 = s1
    s2 = s2
    r1 = r1
    r2 = r2
    c1 = c1
    c2 = c2
    Sockets <- MCSockets
    Remotes <- MCRemotes
    Cbs <- MCCbs
    Ports = {1, 2}
    Ephemeral = {2}
SYMMETRY MCSymmetry
INVARIANTS
    DemuxOwn
    NoGhost
CHECK_DEADLOCK FALSE
