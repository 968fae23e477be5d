\* The preview and the relay's advance, queues without repeated videos.
CONSTANTS
    NumDJs = 3
    Count = 4
    Rows <- MCRows
    Videos <- MCVideos
SPECIFICATION DistinctSpec
INVARIANTS
    TypeOK
    PreviewIsHonoured
    NoDJIsPassedOver
\* The preview plays out and the model stops.
CHECK_DEADLOCK FALSE
