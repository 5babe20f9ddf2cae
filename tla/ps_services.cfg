\* Calls of every request portal.
SPECIFICATION Spec
CONSTANTS
    Requests = {r1, r2}
    Kinds = {"account", "access", "launcher", "background", "choose", "open",
             "screenshot", "pickcolor", "wallpaper", "prepare", "print", "email",
             "secret", "inhibit", "monitor"}
    MaxActive <- MCMaxActive
    ContentTypes = {"plain", "html"}
    Apps = {"editor", "viewer", "term"}
    TerminalApps = {"term"}
    Registered <- MCRegistered
    InitialList <- MCInitialList
    Oldest = 24
    Newest = 29
    Compositors <- MCCompositors
    Extensions = {"png", "jpg"}
    MaxMailers = 1
    Paths = {"p1", "s1"}
    Sessions = {"s1"}
    MaxInhibit = 1
    MaxCloses = 2
    None = None
INVARIANTS TypeOK AutostartAsGranted DefaultsAsRemembered NothingLeftBehind EndedByItsObject
PROPERTY KeepsContract
SYMMETRY Symmetry
CHECK_DEADLOCK FALSE
