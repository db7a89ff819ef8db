SPECIFICATION Spec
CONSTANTS
    Programs = {p}
    Editions = {en}
    MaxStep = 2
    MaxForgets = 2
    MaxSignIns = 1
    MaxLosses = 1
    None = None
INVARIANTS TypeOK ForgetsHold NoticeIsTrue
PROPERTIES OnlyForgetLowers ForgetIsPaid CatchesUp
