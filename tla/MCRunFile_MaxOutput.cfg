CONSTANTS
    KeyPieces <- MCKeyPieces
    ValuePieces <- MCMaxValuePieces
    MaxGroups = 1
    MaxValues = 1
SPECIFICATION Spec
INVARIANT RoundTrip
