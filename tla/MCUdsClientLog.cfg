SPECIFICATION Spec
CONSTANTS
    Ids = {"F02615", "002133", "F02616", "F99999"}
    Names = {"Oak square", "Airport"}
    Substrings = {"oak", "night"}
    StopList <- Table
    Null = Null
    Blank = " "
    Letters = {"k"}
    MaxSize = 3
    MaxWrites = 1
    Statuses = {"Ok", "HttpError"}
    MaxArrivals = 1
    BrokenPipeKills = TRUE
INVARIANT LogsStatusOfQuery
CHECK_DEADLOCK FALSE
