\* Two callers (tool calls or discovery) of one user on three backends.
SPECIFICATION Spec
CONSTANTS
    k1 = k1
    k2 = k2
    k3 = k3
    alice = alice
    anon = anon
    Key = {k1, k2, k3}
    User = {alice, anon}
    Anonymous = anon
    UserOf <- OneUser
    Thread = {t1, t2}
    Main = Main
    Conn = {c1, c2, c3}
    MaxConnsPerUser = 1
    None = None
SYMMETRY Symm
INVARIANTS TypeOK ShutdownIsFinal BoundedOvershoot
PROPERTIES ImplementsPool BrokenNotReused
