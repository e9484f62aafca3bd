SPECIFICATION Spec
CONSTANTS
    x = x
    y = y
    film = film
    home = home
    alias = alias
    other = other
    disk1 = disk1
    disk2 = disk2
    Torrents = {x, y}
    Names = {film}
    NameOf <- MCNameOf
    Carries <- MCCarries
    Paths = {home, alias, other}
    Dirs = {disk1, disk2}
    DirOf <- MCDirOf
    MaxIds = 2
    Adders = {c1}
    Removers = {c2}
    c1 = c1
    c2 = c2
    MaxActive = 1
    MaxRecords = 2
INVARIANT OneOwner
PROPERTY WritesSurvive
PROPERTY LeftDataKept
SYMMETRY MCSymmetry
