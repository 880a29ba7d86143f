SPECIFICATION Spec
CONSTANTS
    ann = ann
    bob = bob
    left = left
    right = right
    small = small
    docs = docs
    Junk = Junk
    Tokens = {ann, bob}
    Buckets = {left, right}
    Hash <- Collide
    Files = {small}
    Folders = {docs}
    Size <- Sizes
    TotalSpace = 2
    MaxUsers = 5
INVARIANTS
    DirectoriesAreKnown
PROPERTIES
    SameUserObject
