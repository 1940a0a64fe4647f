CONSTANTS
    e1 = e1
    e2 = e2
    e3 = e3
    null = null
    Entries <- MCEntries
    Root = e1
    None = null
    Names <- MCNames
    ObsName = "obs"
    MaxDepth = 2
SYMMETRY MCSymmetry
VIEW MCView
SPECIFICATION Spec
INVARIANT CreateResurrects
