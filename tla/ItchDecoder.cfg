SPECIFICATION DecoderSpec
CONSTANTS
    Radix = 4
    NoMessage = NoMessage
INVARIANT
    DecodesWhatWasSent
