SPECIFICATION Spec
CONSTANTS
    k1 = k1
    k2 = k2
    k3 = k3
    garbled = garbled
    Keys = {k1, k2, k3}
    Words <- MCWords
    Compiles <- MCCompiles
    Catastrophic <- MCCatastrophic
    SupportedMajor = 1
    Commands <- MCCommands
    Unreadable = Unreadable
    Malformed = Malformed
    BlankLine = BlankLine
    Signed <- MCSigned
    Requests <- MCRequests
    Numbers = {0, 1}
    Recognises <- MCRecognises
INVARIANTS
    PassedFilesAreSound
    StrictLintLeavesNoTwins
    ExitIsTheConjunction
    VerifiedLinesAreAsSigned
CHECK_DEADLOCK FALSE
