CONSTANTS
    s1 = s1
    s2 = s2
    Servers = {s1, s2}
    Local = {s2}
    MaxUnderway = 4
SPECIFICATION Spec
INVARIANTS ListFollows LostAndFoundSound RescanSound
PROPERTY Reconnects
