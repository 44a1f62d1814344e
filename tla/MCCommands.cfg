\* A command ends.
CONSTANTS
  ws = ws  dup = dup  dep = dep  ext = ext  bare = bare
  p1 = p1  p2 = p2  p3 = p3  T = T
  a = a  b = b  c = c
  e1 = e1  e2 = e2  e3 = e3  k1 = k1  k2 = k2
  None = None  NoItem = NoItem  Null = Null
  Symbols <- MCSymbols
  NameOf <- MCNameOf
  ContainerOf <- MCContainerOf
  PlaceOf <- MCPlaceOf
  Workspace <- MCWorkspace
  Kept <- MCKept
  LocalPlaces <- MCLocalPlaces
  Given <- MCGiven
  Lists <- MCLists
  Items <- MCItems
  MaxDepth = 3
  Answers <- MCAnswers
  Queries <- MCQueries
  Entries <- MCEntries
  KeyOf <- MCKeyOf
  NamedAs <- MCNamedAs
  Ranged <- MCRanged
  Replies <- MCReplies
  Limit = 2
  MaxDetails = 2
  WalkGiven <- MCWalkGiven
  Disk <- MCDisk
  Units <- MCUnits
  WorkspaceEdits <- MCWorkspaceEdits
  Unreadable = Unreadable
  FileOperation = FileOperation
  Ellipsis = Ellipsis
SPECIFICATION Spec
INVARIANTS TypeOK ToolIsItsCommand TargetsAccounted OnlyDepthLimits SearchIsReference RenameReport
