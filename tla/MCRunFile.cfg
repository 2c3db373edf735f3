CONSTANTS
    KeyPieces <- MCKeyPieces
    ValuePieces <- MCValuePieces
    MaxGroups = 2
    MaxValues = 2
SPECIFICATION Spec
INVARIANT RoundTrip
