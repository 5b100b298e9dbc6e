CONSTANTS
    FirstSize = 2
    MinSize = 3
    Slack = 1
    Limit = 7
    Values = 3
    MaxWrite = 2
    MaxHeld = 4
    Messages <- Packed
    PacketSize = 16
    PacketSlack = 8
    PacketLimit = 64
    ReadSize = 50
    Cuts = {1, 9, 24, 43}
    MaxMessages = 2
    MaxInt = 31
    RightMargin = 12
    LeafWidth = 3
    Samples <- Stored
    Names <- Keys
    Comments <- Notes
    MaxSize = 2
    MaxTokens = 4
    MaxSteps = 2
    Table <- Rows
    Columns = 3
    NoField = NoField
    Half = 16
    MaxReads = 4
SPECIFICATION MCSpec
INVARIANT StrictModeIsStrict
CHECK_DEADLOCK FALSE
