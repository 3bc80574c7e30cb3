\* The subprocess of a pooled session ends by itself.
SPECIFICATION Spec
CONSTANTS
    k1 = k1
    k2 = k2
    k3 = k3
    anon = anon
    alice = alice
    bob = bob
    Key = {k1}
    User = {anon, alice}
    Anonymous = anon
    UserOf <- OneUser
    Thread = {t1}
    Main = Main
    Session = {s1, s2}
    MaxPerUser = 1
    Mortal = {s1}
    None = None
PROPERTY DeadSubprocessReplaced
