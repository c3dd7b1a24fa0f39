SPECIFICATION FairSpec
CONSTANTS
    Goroutines = {g1, g2}
    StringKeys <- MCStringKeys
    HashKeys <- MCHashKeys
    Fields = {"b"}
    MaxWrites = 1
    MaxSize = 1
    TTL = 1
    None = None
INVARIANTS CacheInStep StaleExplained
PROPERTIES StaleHeals
