SPECIFICATION Spec
CONSTANTS
    laptop = laptop
    phone = phone
    en = en
    Browsers = {laptop, phone}
    Languages = {en, pl}
    Ahead <- FastPhone
    Skew = 3
    MaxChoices = 2
    MaxUpsets = 1
    None = None
ACTION_CONSTRAINT FirstIsEn
INVARIANTS TypeOK HeldUnlessMishap
PROPERTIES NewestPrevails Agreement
