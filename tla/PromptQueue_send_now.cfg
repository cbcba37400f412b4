SPECIFICATION Spec
CONSTANTS
    Prompts = {p1, p2}
    Bash = {}
    Texts = {m1}
    Wakes = {}
    Children = {}
    Drains = {d1}
    None = None
    MaxCancels = 0
    MaxInputs = 3
INVARIANTS SendNowFlushes
