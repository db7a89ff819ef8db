SPECIFICATION Spec
CONSTANTS
    claude = claude
    editor = editor
    elsewhere = elsewhere
    here = here
    there = there
    Processes = {claude, editor, elsewhere}
    Origins = {here, there}
    Origin <- MCOrigin
    Other = Other
    MaxMinted = 4
    MaxTorn = 2
SYMMETRY Symmetry
INVARIANTS TypeOK OneReader
