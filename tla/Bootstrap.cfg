SPECIFICATION FairSpec

CONSTANTS
    Containers = {c1, c2}
    Apps = {a1}
    Clis = {k1}
    Indexes = 2
    Urls = {"plain", "percent"}
    MaxCrashes = 2

INVARIANTS
    OneBuilder
    ServedSchemaExists
    BlockedUpgradeIsExplained

PROPERTIES
    SomeContainerServes

