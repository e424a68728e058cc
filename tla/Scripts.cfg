CONSTANTS
  N = 4
  Names = {a, b}
  Lines = {u, v}
  NoLine = NoLine
  Macros = {a}
  Groups <- MCGroups
  Files = {f, g}
  Parts = {1, 2}
  Role = 3
  MaxStamp = 3
  Tests = {1, 2, 3}
  Shards = 2
  MaxTime = 1
  Platforms = {linux, macos}
  MaxRuns = 3
  Pids = {1, 2}
  Leader = 1
  Images = {sh, cc}
  Shell = sh
  MaxStart = 3
  MaxEnergy = 1
  Ints = {1, 2}
  Numbers = {0, 1, 8, 13}
  IntBits = 4
  Base = 20
  Unpicked = Unpicked
SPECIFICATION MCSpec
SYMMETRY Symmetry
INVARIANTS
  LayersRebuild
  CachesMerge
  MeasuredKept
  CountsHold
  EnergyCharged
  TemplateExact
  RowsEncode
  LanesExact
  WholeExact
