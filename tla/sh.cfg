SPECIFICATION Spec
CONSTANTS
    MAXARGS = 4
    NPROC = 6
    NOFILE = 6
    NFILE = 6
    PIPESIZE = 1
    CHARS <- Characters
    MAXLINE = 5
    LINES <- Entered
    MAXLINES = 1
    STORES <- Stores
CHECK_DEADLOCK FALSE
INVARIANTS ParsesTheGrammar LineDoesWhatItMeans
PROPERTIES PromptReturns
