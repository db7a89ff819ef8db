SPECIFICATION Spec
CONSTANTS
    Accounts = {ann}
    Anons = {cookie}
    Units = {u, v}
    Languages = {en, pl}
    Requests = {q1, q2}
    MaxStep = 2
    Lengths = {0, 2}
    Overlapping = FALSE
    None = None
PROPERTIES ImplementsPlaces
SYMMETRY Symmetry
