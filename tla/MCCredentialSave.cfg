\* Two callers save one credential with two passwords, and it may be deleted.
\* No symmetry, because of the liveness property.
CONSTANTS
    None = None
    Ids = {i1}
    Users = {u1}
    Values = {v1, v2}
    Callers = {c1, c2}
    RowsMayLag = FALSE
SPECIFICATION FairSpec
INVARIANT SecretsMatchMetadata
PROPERTIES SaveIsAllOrNothing SavesEnd
