SPECIFICATION Spec
CONSTANTS
    SIZE = 2
    WRAP = 8
    Values = {a, b, c}
INVARIANTS TypeOK CursorOrder
PROPERTIES ChannelSpec
