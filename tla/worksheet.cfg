SPECIFICATION SheetSpec
CHECK_DEADLOCK FALSE
CONSTANTS
    MaxAttempt = 2
    WIDEST = 64
    None = None
    Unread = Unread
    Tabs = {t1, t2}
    Texts = {0, 1, 2}
    Book = 2
    Pads = {0, 1}
    Frame = 1
    MaxVisits = 3
    MaxTurns = 3
    MaxClears = 1
SYMMETRY Symmetry
INVARIANTS SheetTypeOK FieldsKeepApart AnsweredOnce
