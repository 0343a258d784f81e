\* Two users, two posts: when an edited item was posted.
CONSTANTS
    Users = {ann, bob}
    Calls = {c1}
    None = None
    MaxPosts = 2
    MaxForms = 1
SPECIFICATION Spec
PROPERTIES
    EditKeepsTimeAdded
