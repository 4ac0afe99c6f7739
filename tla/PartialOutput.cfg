SPECIFICATION Spec
CONSTANTS
    app = app
    lib = lib
    obj = obj
    gen = gen
    src = src
    hdr = hdr
    all = all
    out = out
    tool = tool
    Unread = Unread
    Target <- MCTarget
    KindOf <- MCKind
    Recipe <- MCRecipe
    Rank <- MCRank
    BeginningOfTime <- MCBeginningOfTime
    Script <- MCScript
    Fallible = {obj}
    Registers = {obj}
    Editable = {}
    Inputs <- CleanUpInputs
INVARIANTS
    CleansUp
