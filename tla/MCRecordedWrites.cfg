SPECIFICATION Spec
CONSTANTS
    Primaries = {"p"}
    Secondaries = {"s"}
    Buffers = {"buffer"}
    Images = {"image"}
    Views = {"texels", "view"}
    Sets = {d1, d2}
    Framebuffers = {"plain", "imageless"}
    Memory <- MCMemory
    Viewed <- MCViewed
    Attachments <- MCAttachments
    Layout <- MCLayout
    MaxCommands = 5
    MaxUpdates = 2
    MaxRecordedUpdates = 1
    MaxFilled = 1
CHECK_DEADLOCK FALSE
SYMMETRY SetSymmetry
INVARIANTS
  DescriptorsKnown
  HandedOverIsNoted
  NotedIsRecorded
