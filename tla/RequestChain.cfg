SPECIFICATION FairSpec
CONSTANTS
    RequestTimeouts = {0, 1, 2}
    ReadTimeouts = {0, 1}
    WriteTimeouts = {0, 1, 2}
    MaxTime = 2
INVARIANTS TypeOK AnswerWellFormed AccessLog SilenceExcused
PROPERTIES TimeoutBounds
