\* Two users, two calls: the library keeps the promise of module Session.
CONSTANTS
    Users = {ann, bob}
    Calls = {c1, c2}
    None = None
SPECIFICATION Spec
INVARIANTS
    AuthTypeOK
    AccountBeforeSession
PROPERTIES
    ImplementsSession
