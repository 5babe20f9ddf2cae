CONSTANTS
    Looks = {l1, l2}
    Styles = {l1, l2}
    Fonts = {f1, f2}
    MaxChanges = 1
    MaxLosses = 1
    None = None
    Apps = {a1}
    Ids = {i1, i2}
    MaxPerApp = 1
    MaxTotal = 2
    MaxAdds = 2
    MaxSpawns = 2
    MaxEvents = 1
    NoStyle = NoStyle
SPECIFICATION Spec
SYMMETRY Symmetry
CHECK_DEADLOCK FALSE
INVARIANTS
    TypeOK
    NothingLeaks
    ShownIsTracked
    StyleFollows
    ViewAgrees
    NoChangeMissed
