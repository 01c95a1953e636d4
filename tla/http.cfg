SPECIFICATION Spec
CONSTANTS
    None = None
    Names = {"data", "chat"}
    Texts = {"must be an integer", "must not be empty"}
    Word = Word
    Statuses = {400, 404, 409, 503}
    OtherStatuses = {None, Word, 0, 413, 499, 500, 503}
INVARIANTS
    ErrorsComplete
    VerdictsCompatible
CHECK_DEADLOCK FALSE
