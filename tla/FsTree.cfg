CONSTANTS
  Parts = {"tree", "tree_host", "tree_sockets", "files", "order", "listing", "listings", "dirs", "attr"}
  Files = {"f"}
  Dir = "dir"
  MaxChanges = 1
SPECIFICATION MCSpec
CHECK_DEADLOCK FALSE
INVARIANTS
  TreeIsSound
  DescriptorsAreBounded
  CachesAreCurrent
PROPERTIES
  StepsAreCareful
