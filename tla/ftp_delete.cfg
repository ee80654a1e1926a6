SPECIFICATION RemovalSpec
CONSTANTS
  a1 = a1
  Root = Root
  None = None
  Files = {a1}
  Folders = {}
  parent <- SpacedParent
  above <- SpacedAbove
  name <- SpacedName
  Matching = {}
  Masks = {None}
  rewritten <- SpacedRewrite
  Configs <- SpacedConfigs
  Outcomes = {TRUE}
  Token <- Tokens
  source_path <- SourcePath
  folder_name <- NoFolderName
INVARIANTS
  RemovesTheFile
CHECK_DEADLOCK FALSE
