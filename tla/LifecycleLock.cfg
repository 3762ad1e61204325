SPECIFICATION FairSpec
CONSTANTS
    Procs = {p1, p2}
    Hosts = {h1}
    Inodes = {i1, i2, i3}
    Nobody = Nobody
    NoInode = NoInode
INVARIANTS
    MutualExclusion
PROPERTIES
    ImplementsHostLock
    EveryUseEnds
