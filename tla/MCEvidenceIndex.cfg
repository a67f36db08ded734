CONSTANTS
    Link = {note, repo}
    Notion = {note}
    Page = {"readme", "code", "commits"}
    PagesOf <- MCPagesOf
    Thread = {t1, t2}
    MaxIndexings = 3
SPECIFICATION FairSpec
INVARIANTS
    AllOrNothing
    DeletedIsForgotten
    ResultIsTrue
PROPERTIES
    RefusalEnds
