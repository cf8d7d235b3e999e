SPECIFICATION Spec
CONSTANTS
    MaxFrame = 2
    Sizes = {2}
    MaxSends = 1
    MaxPeerMessages = 1
PROPERTIES
    BrokenHandshakeIsTemporary
