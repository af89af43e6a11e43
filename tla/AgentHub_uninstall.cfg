\* Can an agent that is just connecting come back after its uninstallation.
CONSTANTS
    None = None
    Names = {n1}
    Conns = {c1, c2}
SPECIFICATION Spec
INVARIANTS UninstalledStaysOut
