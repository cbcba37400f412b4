SPECIFICATION FairSpec
CONSTANTS
    Prompts = {p1, p2}
    Bash = {}
    Texts = {m1}
    Wakes = {w1}
    Children = {c1}
    Drains = {d1}
    None = None
    MaxCancels = 1
    MaxInputs = 3
INVARIANTS TypeOK RunningIsFront NoPromptLost OneTurn SendNowSpares InterjectionKept StopHolds
PROPERTIES PromptsAnswered BuffersDrain
