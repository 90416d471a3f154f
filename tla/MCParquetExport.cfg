\* Three exports race for one destination, and for other programs'.
CONSTANTS
    Exports = {e1, e2, e3}
    None = None
    Foreign = Foreign
SYMMETRY ExportSymmetry
SPECIFICATION Spec
INVARIANT NothingLeftBehind
PROPERTY NoOverwrite
CHECK_DEADLOCK FALSE
