SPECIFICATION Spec
CONSTANTS
    Primaries = {"p1", "p2"}
    Secondaries = {"s"}
    Buffers = {"buffer"}
    Images = {"image"}
    Views = {"texels", "view"}
    Sets = {d1, d2}
    Framebuffers = {"plain", "imageless"}
    Memory <- MCMemory
    Viewed <- MCViewed
    Attachments <- MCAttachments
    Layout <- MCLayout
    MaxCommands = 3
    MaxUpdates = 2
    MaxRecordedUpdates = 1
    MaxFilled = 1
INVARIANT EveryHandedOverIsNoted
CHECK_DEADLOCK FALSE
SYMMETRY SetSymmetry
