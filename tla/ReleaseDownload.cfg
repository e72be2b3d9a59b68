SPECIFICATION Spec
CONSTANTS
    Cap = 2
    MaxBody = 2
    MaxSent = 3
    RawNames <- MCRawNames
    Sizes = {1, 2}
    Expected = "tool"
    Dotted = {"a..b"}
    MaxTotal = 3
    MaxEntries = 2
    Assets <- MCAssets
    Catalogues <- MCCatalogues
    Manifests <- MCManifests
    NoLine = NoLine
    Sums = {"s1", "s2"}
INVARIANTS
    TrustedHops
    BodyIsTrue
    Confined
    SelectedIsWhole
    StagedIsVerified
PROPERTY
    ImplementsApply
CHECK_DEADLOCK FALSE
