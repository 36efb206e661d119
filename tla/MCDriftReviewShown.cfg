SPECIFICATION Spec
CONSTANTS
    audit = audit
    hush = hush
    asked = asked
    web = web
    mcp = mcp
    Configs = {k1, k2}
    None = None
    Checks = {audit}
    Operators = {op}
    Web = web
    Home <- Alone
    Quiet = {}
    Steady = audit
    Failing = {}
PROPERTIES
    AcceptsWhatWasShown
