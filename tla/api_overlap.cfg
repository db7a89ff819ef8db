SPECIFICATION Spec
CONSTANTS
    Accounts = {ann}
    Anons = {cookie}
    Units = {u}
    Languages = {en}
    Requests = {q1, q2}
    MaxStep = 3
    Lengths = {0, 2, 3}
    Overlapping = TRUE
    None = None
PROPERTIES Monotone
SYMMETRY Symmetry
