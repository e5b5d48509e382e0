CONSTANT MaxFrames <- MCMaxFrames
SPECIFICATION Spec
INVARIANT TypeOK
INVARIANT FilterMatchesReference
INVARIANT FilterIdempotent
