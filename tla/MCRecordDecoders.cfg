CONSTANTS
    Dumps <- MCDumps
    Decoders <- MCDecoders
SPECIFICATION DSpec
INVARIANT
    DecoderReadsRecord
