SPECIFICATION Spec
CONSTANTS
    Name = {a, b}
    Object = {o1, o2}
    Nil = Nil
SYMMETRY Interchangeable
INVARIANTS
    Acyclic
