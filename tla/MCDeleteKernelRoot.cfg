SPECIFICATION Spec
CONSTANTS
    Runs = {r1}
    Inodes = {i1, i2, i3}
    None = None
    MaxWrites = 1
    Wsl2 = FALSE
SYMMETRY Symmetry
INVARIANT ApprovedRootStillThere
CHECK_DEADLOCK FALSE
