SPECIFICATION Spec
CONSTANTS
    Size = 3
    Samples = {0, 1, 4, 7}
INVARIANTS TypeOK TotalIsWindowSum
PROPERTIES ImplementsWindow
