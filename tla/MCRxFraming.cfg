SPECIFICATION Spec
CONSTANTS
    Chars <- MCChars
    ChecksumOK <- MCChecksumOK
    MinLength = 5
    MaxLength = 6
    MaxRead = 8
INVARIANTS FramingTypeOK BufferHasRoom FramesAsExpected
