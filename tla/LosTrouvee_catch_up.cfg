\* Two users, one call, with the fairness of requests and of the main queue.
CONSTANTS
    Users = {ann, bob}
    Calls = {c1}
    None = None
    MaxPosts = 1
    MaxForms = 1
SPECIFICATION FairSpec
PROPERTIES
    BarsCatchUp
