\* The instance of MCWorkspaceKey.cfg.
CONSTANTS
    Workspaces = {w1, w2}
    Passphrases = {p1, p2}
    MaxKeys = 3
    None = None
SPECIFICATION Spec
INVARIANT FreshOnlyIfAbsent
