SPECIFICATION MCSpec
CONSTANTS
    DIRS = {"/", "H", "D", "E"}
    PATHOF <- Paths
    ROOT = "/"
    HOME = "H"
    READONLY = {"/"}
    EXES <- Exes
    PATH <- Path
    LINES <- Commands
    MAX_ENTRIES = 3
    OUTREG_MAX = 2
    COPY_SIZE = 1
    HOUR = 1
    DAY = 2
    WEEK = 3
    MAXCLOCK = 1
    MAXRUNS = 3
    CHUNK_SIZE = 2
    STATS_MAX = 3
    CHARS <- Characters
    MAXTYPED = 5
    MAXTEXT = 5
    STOPS = {"read", "write", "open", "trap", "signal", "gone", "error"}
    MAXSTOPS = 8
    MAXOTHERS = 2
CHECK_DEADLOCK FALSE
INVARIANTS LexesOnce SyntaxIsGrammar PeekReverses SnoopCounts
PROPERTIES RedirectsAsMeant JobOutputArrives
