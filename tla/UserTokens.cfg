\* Two goroutines, three answers of the provider, both storages, both kinds of
\* provider.
SPECIFICATION Spec
CONSTANTS
    Thread = {t1, t2}
    MaxIssued = 3
SYMMETRY Symm
INVARIANTS TypeOK ConnectionSurvives RefreshedIsServed
PROPERTIES ForgottenForGood
