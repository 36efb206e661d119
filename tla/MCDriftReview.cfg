SPECIFICATION Spec
CONSTANTS
    audit = audit
    hush = hush
    asked = asked
    web = web
    mcp = mcp
    Configs = {k1, k2}
    None = None
    Checks = {audit, asked}
    Operators = {op}
    Web = web
    Home <- MCHome
    Quiet = {}
    Steady = audit
    Failing = {}
INVARIANTS
    NoticeOrReason
PROPERTIES
    DismissalHolds
