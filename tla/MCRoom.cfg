SPECIFICATION Spec
CONSTANTS
    Conn = {c1, c2, c3}
    Caller = {a1}
    Sweeper = {sweeper}
    Admin = {admin}
    Inst = {i1, i2}
    Update = {u1}
    MaxPeers = 2
    MaxConns = 2
    None = none
    Setups <- MCSetups
SYMMETRY Symmetry
INVARIANTS AtHome Accounting Reclaimable
PROPERTIES FreshLoad
