SPECIFICATION ListingFairSpec
CONSTANTS
  D = D
  E = E
  F = F
  a1 = a1
  b1 = b1
  c1 = c1
  a2 = a2
  b2 = b2
  call = call
  star = star
  prefix = prefix
  Root = Root
  None = None
  Files = {a1, b1, c1, a2, b2}
  Folders = {D, E, F}
  parent <- TreeParent
  above <- Above
  name <- TreeName
  Matching <- Bin
  Masks = {None, call, star, prefix}
  rewritten <- Rewrite
  Configs <- ListingConfigs
  Outcomes = {TRUE, FALSE}
  Token <- Tokens
  source_path <- SourcePath
  folder_name <- FolderName
INVARIANTS
  ListingTypeOK
  HandedOnce
  CompleteWhenTrue
  GroupAsScanner
  Balanced
  NamesApart
  AsksForFolder
PROPERTIES
  ListingEnds
CHECK_DEADLOCK FALSE
