SPECIFICATION Spec
CONSTANTS
    Eng = {e1, e2}
    NoEng = NoEng
    MaxLog = 3
    MaxMail = 1
    MaxEvents = 4
    Alert = {a1, a2}
    NoCall = NoCall
    MaxCalls = 3
    Loop = {l1, l2}
    MaxText = 2
    Fragment = {"dns", "rate"}
    Setting = {s1, s2}
    Default = s1
    Thing = {t1, t2}
    Blank = Blank
    MaxPicks = 2
    MaxSwaps = 1
    MaxRow = 4
    PageSize = 2
    DefaultGrid <- Grid
    MaxMoves = 5
INVARIANTS
    
    AcksAreHonest
    KeyHoldIsDeliberate
    ViewsAreOfTheirTitles
    PageStaysInOrder
PROPERTIES
    ToastsAreNews
    NoteTextKept
CHECK_DEADLOCK FALSE
