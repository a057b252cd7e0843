SPECIFICATION Spec
CONSTANTS
    Parts = {"wide", "bits", "casts", "types", "floats", "ranges", "big",
             "utf8", "code points", "text", "normal", "strings", "replace",
             "integers", "prefixes", "booleans", "options",
             "paths", "joins", "walks",
             "digits", "fields", "integer specs", "text specs", "elements", "styles"}
INVARIANTS
    NumbersAgree
    BigIntegersAgree
    TextAgrees
    InputIsUnderstood
    PathsLead
    DigitsAgree
    FormatsAgree
CHECK_DEADLOCK FALSE
