SPECIFICATION MSpec
CONSTANTS
    Names = {a, b, c, d, e}
    Max = 3
    HostMax = 3
    MaxQuestions = 4
    NULL = NULL
    HdrLen = 1
    Spans = {1, 3}
    TailLen = 1
    AnsLen = 1
    PtrMod = 8
    SLen = 15
SYMMETRY NameSymmetry
INVARIANTS
    CacheConsistent
    PromiseKept
    AnswersPoint
