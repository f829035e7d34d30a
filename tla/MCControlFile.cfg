SPECIFICATION Spec
CONSTANTS
    NULL = NULL
    Inode = {i1, i2}
    Chunk = {a, b}
    MaxBytes = 2
    MaxSize = 4
    MaxChanges = 2
SYMMETRY Symmetry
INVARIANTS
    ReadsAreSound
PROPERTIES
    ReadIsAtomic
