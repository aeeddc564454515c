SPECIFICATION Spec
CONSTANTS
    Messages <- Three
    Pages = {p1, p2}
    Cap = 3
    Chunk = 2
INVARIANTS NoneMissing OwnCallbacks ReadsAllLines
SYMMETRY PageSymmetry
