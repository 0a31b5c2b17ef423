\* Four workers naming one conversation.
SPECIFICATION TitleSpec
CONSTANTS
    Workers = {w1, w2, w3, w4}
    Explicit = Explicit
    Null = Null
SYMMETRY Symmetry
INVARIANT NamingIsAudited
CHECK_DEADLOCK FALSE
