SPECIFICATION FairSpec
CONSTANTS
    audit = audit
    hush = hush
    asked = asked
    web = web
    mcp = mcp
    Configs = {k1, k2}
    None = None
    Checks = {audit, hush}
    Operators = {op}
    Web = web
    Home <- AtWeb
    Quiet = {hush}
    Steady = audit
    Failing = {audit, op}
PROPERTIES
    Converges
