SPECIFICATION Spec
CONSTANTS
    base = base
    edit = edit
    unnamed = unnamed
    Variants = {base, edit}
    Base = base
    Unnamed = unnamed
    None = None
    Tops = {base, edit, unnamed}
    Requests <- MCRequests
    MaxPending = 2
    InProcess = TRUE
    SwapMayFail = TRUE
INVARIANTS
    NamedVariantRenders
    NothingLeaks
    LeaseIsTrue
