\* Two browsers; two questions, one registration, one new row in a form.
CONSTANTS
    Reqs = {q1, q2}
    Options <- OneOption
    MaxQuestions = 2
    MaxRegs = 1
    MaxNew = 1
SYMMETRY Interchangeable
SPECIFICATION Spec
INVARIANTS TypeOK AnswersFit
CHECK_DEADLOCK FALSE
