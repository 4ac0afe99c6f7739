CONSTANTS
    p = p
    q = q
    a = a
    b = b
    cr = cr
    lf = lf
    CR = cr
    LF = lf
    Letter <- MCLetter
    Process = {p, q}
    Texts <- MCTexts
    Codes = {0, 1}
    Limits = {3, 64}
    BufferSize = 2
    PipeSize = 2
    Room = 3
SPECIFICATION FairSpec
INVARIANTS TypeOK Conserved LinesWhole LeftoversFit ExitCodeTrue NoLostWakeup
PROPERTIES JobsFinish KeepsPromise
