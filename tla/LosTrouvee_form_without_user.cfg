\* Two users, two calls at a time: a form against the session behind it.
CONSTANTS
    Users = {ann, bob}
    Calls = {c1, c2}
    None = None
    MaxPosts = 1
    MaxForms = 1
SPECIFICATION Spec
INVARIANTS
    FormHasUser
