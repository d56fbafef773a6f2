CONSTANTS
    Left = 210
    Right = 214
    Workers = {w1, w2, w3}
    Main = Main
    None = None
SPECIFICATION Spec
SYMMETRY Symmetry
CHECK_DEADLOCK FALSE
INVARIANT SomeoneAwake
