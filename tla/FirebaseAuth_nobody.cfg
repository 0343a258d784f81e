\* One user, one call: what FIRAuth.h says of a successful createUser.
CONSTANTS
    Users = {ann}
    Calls = {c1}
    None = None
SPECIFICATION Spec
PROPERTIES
    SuccessSignsIn
