\* Every operation of the store in any order, over two ids and two contents.
CONSTANTS
    Contents = {a, b}
    MaxId = 2
SPECIFICATION StoreSpec
INVARIANTS StoreTypeOK CountersExact NextIdFresh SuccessorLinksBack
CHECK_DEADLOCK FALSE
