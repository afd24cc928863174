SPECIFICATION FairSpec
CONSTANT N = 4
INVARIANTS SelectsInOrder OperandsAligned
PROPERTY EventuallyAllSelected
