\* Two handlers that meet on one key, cleanup, Shutdown, under fairness.
SPECIFICATION FairSpec
CONSTANTS
    k1 = k1
    k2 = k2
    k3 = k3
    anon = anon
    alice = alice
    bob = bob
    Key = {k1}
    User = {anon, alice}
    Anonymous = anon
    UserOf <- OneUser
    Thread = {t1, t2}
    Main = Main
    Session = {s1, s2}
    MaxPerUser = 1
    Mortal = {s1}
    None = None
PROPERTIES JoinersReturn RetiredAreClosed IdleAreReaped ShutdownReturns ShutdownTakesAll
