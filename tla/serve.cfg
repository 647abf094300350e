CONSTANTS
  Absent = Absent
  Calls = {c1, c2}
  Languages = {"python", "go"}
  KnownProviders = {"stripe", "github"}
  Exported <- MCExported
  Inputs <- MCInputs
  Packs <- MCPacks
  Releases <- MCReleases
  Manifests <- MCManifests
SPECIFICATION Spec
INVARIANT
  OwnAnswers
  PinnedAnswers
  ChainVerdictIsExact
PROPERTY
  CallsAreAnswered
CHECK_DEADLOCK FALSE
