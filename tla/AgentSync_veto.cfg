\* Does a failed pre_sync hook really abort the action.
CONSTANTS
    Absent = Absent
    Versions = {v1}
    Runs = {r1}
    Ids = {i1, i2, i3}
SPECIFICATION Spec
INVARIANTS VetoIsFinal
