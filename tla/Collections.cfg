\* Three objects, two arrays and up to four references, in any shape.
SPECIFICATION FairSpec
CONSTANTS
    Obj = {root, o1, o2}
    Arr = {a1, a2}
    Root = root
    MaxRefs = 4
INVARIANTS QueuesListLive NoDangling
PROPERTIES ImplementsHeap CollectionEnds
