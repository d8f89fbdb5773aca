SPECIFICATION Spec
CONSTANTS
  Windows <- TwoWindows
  Texts <- OneText
  Filters <- OneFilter
  Limits = {1, 2}
  MaxTotal = 3
  MaxPages = 3
  Queries <- TwoQueries
  Shortcuts <- TwoShortcuts
  Includes <- SomeIncludes
  Hits <- SomeHits
  MaxHits = 2
  Configs <- SomeConfigs
  Repositories <- SomeRepositories
  Templates <- SomeTemplates
  MaxRuns = 2
INVARIANTS
  PagerKeepsItsPlace
  ListSaysWhatItShows
  PaletteOpensWhatItShows
  FormFollowsCatalog
  GateIsFound
PROPERTIES
  LineageOnlyGrows
