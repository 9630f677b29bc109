CONSTANTS
    Tokens <- MCTokens
    Foreign = {"mailto"}
    Number <- MCNumber
    Escape <- MCEscape
    Broken <- MCBroken
    Base64 <- MCBase64
    Sloppy <- MCSloppy
    Json <- MCJson
    Blob <- MCBlob
    Payloads <- MCPayloads
    NullJson = NullJson
    NoScheme = NoScheme
    None = None
SPECIFICATION PanelSpec
INVARIANTS
    MirrorsCore
    LinkIsTheProfile
