SPECIFICATION PagesSpec

CONSTANTS
    Letters = {1, 2}
    MaxName = 3
    MaxPages = 3

INVARIANTS
    InnermostFound
