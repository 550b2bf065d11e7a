SPECIFICATION Spec
CONSTANTS
    Names <- MCNames
    InitGraphs <- MCInitGraphs
    MaxOps = 3
INVARIANTS GraphInv CycleExact LayoutSound DiffFaithful
PROPERTIES StaysSound
CHECK_DEADLOCK FALSE
