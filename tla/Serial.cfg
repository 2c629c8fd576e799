CONSTANTS
    fills = fills
    over = over
    Lines = {fills, over}
    Length <- MCLength
    Size = 2
    Sources = {serial, usb}
    Nul = Nul
SPECIFICATION Spec
INVARIANTS
    TypeOK
    VerifiedUnlessDisturbed
PROPERTIES
    WholeLineAccepted
SYMMETRY
    Ports
