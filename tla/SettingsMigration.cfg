SPECIFICATION Spec
CONSTANTS
    Dirs = {platform, dirA}
    DefaultDir = platform
    Paths = {pathA}
    Overrides = {"true"}
    None = None
    Null = Null
    Blank = Blank
PROPERTY
    MigrationPreservesEffective
