SPECIFICATION CliSpec
CONSTANTS
    c1 = c1
    c2 = c2
    claude = claude
    codex = codex
    Nobody = Nobody
    Tracks = {backend, frontend}
    Review = review
    Creds = {c1, c2}
    CredOrder <- ListedCreds
    ProviderOf <- ProfileOf
    RefOrder <- ListedProfiles
    Pinned <- CodexPinned
    MaxRetries = 2
    MaxSwaps = 2
    MaxRuns = 2
    MaxEvents = 1
INVARIANT BlameIsRight
 
CHECK_DEADLOCK FALSE
