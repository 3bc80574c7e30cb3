\* One handler uses a session that cleanup is about to reap.
SPECIFICATION Spec
CONSTANTS
    k1 = k1
    k2 = k2
    k3 = k3
    anon = anon
    alice = alice
    bob = bob
    Key = {k1}
    User = {anon, alice}
    Anonymous = anon
    UserOf <- OneUser
    Thread = {t1}
    Main = Main
    Session = {s1}
    MaxPerUser = 1
    Mortal = {}
    None = None
PROPERTY ReapedNotHandedOut
