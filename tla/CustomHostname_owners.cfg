SPECIFICATION Spec
CONSTANTS
    Domains = {d1, d2}
    Profiles <- MCProfiles
    Calls = {c1, c2}
    MaxHostnames = 1
    Backends <- MCBackends
SYMMETRY Symmetry
INVARIANTS RivalsKeepOut HalvesAgree
PROPERTIES UndisturbedSucceed CapUnlessCrowded
