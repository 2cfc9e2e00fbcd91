SPECIFICATION Spec
CONSTANTS
    WORD = 2
    ADDRESS_WIDTH = 1
    SIZE_CAP = 40
    SIZE_BYTES = 1
    Null = Null
    None = Null
    ItemsOf <- MCItemsOf
    MAX_NESTING = 2
    Words <- MCWords
    InnerWords <- MCInnerWords
    MaxTokens = 9
    RAIN_META_DOCUMENT_V1 = 200
    PREFIX_BYTES = 1
    OA_SCHEMA = 49
    CONTENT_TYPES <- MCTypes
    CONTENT_ENCODINGS <- MCEncodings
    CONTENT_LANGUAGES <- MCLanguages
    MAX_DEPTH = 3
    KEY_BYTES = 2
    Payloads <- MCPayloads
    Documents <- MCDocuments
    EditBytes <- MCEditBytes
    Magics = {7, 8}
    Keys <- MCKeys
INVARIANTS
    ParsesTheGrammar
    StatusIsExact
    WordsReadOnce
    DocumentsAreRead
    VerifiesOneWriteOnly
CHECK_DEADLOCK FALSE
