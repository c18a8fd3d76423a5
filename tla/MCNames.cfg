SPECIFICATION Spec
CONSTANTS
    StrLen = 6
    NameMax = 3
    Greetings <- NameFields
    Texts <- TextFields
    Build = "msp430"
INVARIANTS
    TypeOK
    TrimIsExact
PROPERTY EchoIsNameAndText
