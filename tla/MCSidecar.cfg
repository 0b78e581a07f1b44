SPECIFICATION Spec
CONSTANTS
    q1 = q1
    q2 = q2
    Requests = {q1, q2}
    Junk = Junk
    Files <- MCFiles
    Valid <- MCValid
    Verdict <- MCVerdict
    Messages <- MCMessages
    MaxBody = 2
    Calls = {1, 2}
    MaxStarts = 2
INVARIANTS
    AnswersFromOneValidFile
PROPERTIES
    EveryCallEnds
    ShutdownCompletes
