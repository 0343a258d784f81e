\* Two users, one call at a time, three posts: who may change what.
CONSTANTS
    Users = {ann, bob}
    Calls = {c1}
    None = None
    MaxPosts = 3
    MaxForms = 2
SPECIFICATION Spec
SYMMETRY AnyNames
INVARIANTS
    WaitingMeansSignedOut
    EditorsOwn
    FormHasUser
    NoCrash
PROPERTIES
    OwnerOnlyChanges
    RemovesWhatIsShown
