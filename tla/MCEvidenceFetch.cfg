CONSTANTS
    PageAt <- MCPage
    Source = {"rows"}
    View = {"view"}
    LinksAt <- MCLinksAt
    MaxPages = 5
    MaxDepth = 2
    Dir <- MCDir
    Root = "/"
    DirsIn <- MCDirsIn
    Level <- MCLevel
    FilesIn <- MCFilesIn
    Ranked <- MCRanked
    Authors <- MCAuthors
    CommitsOf <- MCCommitsOf
    FilesOf <- MCFilesOf
    MaxDirs = 5
    MaxLevel = 2
    Concurrency = 2
    MaxCommits = 5
    PageLimit = 3
    MaxFiles = 1
    MaxAttempts = 2
    Requests <- MCRequests
    Workers = 2
    Sections = 1
SPECIFICATION FetchSpec
INVARIANTS
    NotionComplete
    TreeComplete
    CommitsComplete
    ChunksInOrder
PROPERTIES
    CollectingAdvances
    FetchEnds
CHECK_DEADLOCK FALSE
