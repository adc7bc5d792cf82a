\* Exports, the delivery check and a developer who does not wait for them.
SPECIFICATION FairSpec
CONSTANTS
    readme = readme
    local = local
    key = key
    cache = cache
    v1 = v1
    v2 = v2
    link = link
    dead = dead
    Paths = {readme, local, key, cache}
    Contents = {v1, v2, link, dead}
    Original = v1
    Links = {link, dead}
    Target <- LinkTarget
    Mutated = Mutated
    None = None
    Garbled = Garbled
    Readme = readme
    Ignored = {local, key}
    Excluded = {key, cache}
    Forbidden = {key, cache}
    Unhygienic = {cache}
    Uncopied = {cache}
    Rank <- Sorted
    MayHold <- Writes
    Exports = {one, two}
    First = one
    Second = two
    MaxCommits = 2
    MaxOperations = 5
INVARIANTS
    TypeOK
    AnnouncedMatchesManifest
    UndisturbedIsCommit
    DeliveryProvesReproduction
    FreshManifestVerdict
    CandidatePredicts
PROPERTY
    DeliveryEnds
