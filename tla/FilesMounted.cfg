SPECIFICATION Spec
CONSTANTS
  Char = {"/", "i", "a"}
  Slash = "/"
  NUL = "nul"
  FilenameMax = 3
  MountName <- MCMountName
  Names <- MCNames
  Sizes <- MCSizes
  Wrap = 8
  Paths <- MCPaths
  Offsets = {0, 1, 2, 3, 4, 5, 7}
INVARIANT TypeOK
INVARIANT PathsResolve
INVARIANT OnlyFilesOpen
INVARIANT WalkIsShallow
INVARIANT CurrNameFits
INVARIANT EntriesNamed
INVARIANT ReadsInside
