\* Two users, two calls at a time, two posts: the screens against the store.
CONSTANTS
    Users = {ann, bob}
    Calls = {c1, c2}
    None = None
    MaxPosts = 2
    MaxForms = 2
SPECIFICATION Spec
SYMMETRY AnyNames
INVARIANTS
    TypeOK
    ListMirrorsStore
    DetailsTrackRow
    ListKindMatchesTab
    StaleBarsAnnounced
PROPERTIES
    EditKeepsKind
