CONSTANTS
    Keys = {1, 2, 3, 4, 5, 6, 7}
    Leaf = Leaf
    NULL = NULL
SPECIFICATION Spec
INVARIANTS LinksAgree BlackBalanced WalkInOrder
PROPERTIES ContainerSpec RepairClimbs
