SPECIFICATION Spec
CONSTANTS
  Data <- MCData
  Starts <- MCStarts
  Fields <- MCFields
  Files <- MCFiles
  Marker <- MCMarker
  Window = 4
INVARIANT TypeOK
INVARIANT ConversionExact
INVARIANT ReferencesExact
INVARIANT DecoderInverts
INVARIANT MetadataExact
INVARIANT MarkerFound
\* A call returns.
CHECK_DEADLOCK FALSE
