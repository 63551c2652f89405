SPECIFICATION SpecFiles
CONSTANTS
    b1 = b1
    b2 = b2
    NoBody = NoBody
    Bodies = {b1, b2}
    MaxID = 4
    FilesPerDir = 3
    MaxCrashes = 2
INVARIANTS
    Readable
