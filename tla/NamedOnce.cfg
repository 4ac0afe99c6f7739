SPECIFICATION NamedOnceSpec
CONSTANTS
    Name = {a, b, c}
    Object = {o1, o2, o3, o4}
    Nil = Nil
SYMMETRY Interchangeable
INVARIANTS
    TypeOK
    Acyclic
    RefusalJustified
    DependenciesKept
