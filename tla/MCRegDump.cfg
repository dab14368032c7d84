SPECIFICATION MCSpec
CONSTANTS
  Word <- MCWord
  Data = {0, 1, 2, 3, 4, 5, 6, 7}
INVARIANTS
  StackFromTop
  FieldsPartitionWords
