\* The preview and the relay's advance, any queues.
CONSTANTS
    NumDJs = 2
    Count = 4
    Rows <- MCRows
    Videos <- MCVideos
SPECIFICATION Spec
INVARIANTS
    PreviewIsHonoured
\* The preview plays out and the model stops.
CHECK_DEADLOCK FALSE
