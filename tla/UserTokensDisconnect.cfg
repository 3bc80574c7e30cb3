\* The user disconnects while a goroutine refreshes the token.
SPECIFICATION Spec
CONSTANTS
    Thread = {t1}
    MaxIssued = 2
PROPERTY OnlyCallbackConnects
