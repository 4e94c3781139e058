SPECIFICATION Spec
CONSTANTS
    e1 = e1
    e2 = e2
    pathA = pathA
    pathB = pathB
    data = data
    music = music
    Entry = {e1, e2}
    Client = {client}
    PathOf <- Paths
    Dir = {data, music}
    Alias <- Aliases
    NoName = NoName
    NoExport = NoExport
INVARIANTS
    ListedMountsItself
    RootEntriesLeadToTheirExports
