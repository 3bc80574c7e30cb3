\* Two handlers, three sessions of one user whose limit is one, cleanup, Shutdown.
SPECIFICATION Spec
CONSTANTS
    k1 = k1
    k2 = k2
    k3 = k3
    anon = anon
    alice = alice
    bob = bob
    Key = {k1, k2, k3}
    User = {anon, alice}
    Anonymous = anon
    UserOf <- OneUser
    Thread = {t1, t2}
    Main = Main
    Session = {s1, s2, s3}
    MaxPerUser = 1
    Mortal = {}
    None = None
SYMMETRY SymmOneUser
INVARIANTS TypeOK NoOrphan OneCloser BoundedOvershoot SessionOfOneKey
PROPERTIES ImplementsPool
