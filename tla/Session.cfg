\* Two users, two calls in flight at once.
CONSTANTS
    Users = {ann, bob}
    Calls = {c1, c2}
    None = None
SPECIFICATION SessionSpec
INVARIANTS
    SessionTypeOK
    SessionPersisted
    OneReplyPerCall
PROPERTIES
    CallsAnswered
