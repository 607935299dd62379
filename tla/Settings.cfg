SPECIFICATION Spec
CONSTANTS
    Dirs = {platform, dirA}
    DefaultDir = platform
    Paths = {pathA}
    Overrides = {"true"}
    None = None
    Null = Null
    Blank = Blank
INVARIANTS
    ExplainedOriginIsEffective
PROPERTIES
    PlainMigrationPreserves
    StartSeesEffective
    CredentialsSurvive
