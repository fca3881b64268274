CONSTANTS
    null = null
    bronx = bronx
    queens = queens
    rye = rye
    dobbs = dobbs
    park = park
    z1 = z1
    z2 = z2
    absent = absent
    Records <- MCUntyped
    Types <- MCTypes
    Preferred = 1
    Boroughs <- MCBoroughs
    Districts <- MCDistricts
    Zips <- MCZips
    Null = null
    malformed = malformed
    Malformed = malformed
    TYPES = 2
    PAGE = 1
    LIST_MAX = 2
    Keys <- MCUntypedKeys
SPECIFICATION Spec
INVARIANTS
    VerdictIsOfAnswer
