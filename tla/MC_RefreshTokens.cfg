CONSTANTS
    NULL = NULL
    a = a
    b = b
    tool = tool
    browser = browser
    client = client
    Devices = {browser, client}
    Browsers = {browser}
    Tabs = {a, b, tool}
    DeviceOf <- TwoTabsAndATool
    MaxOps = 4
SYMMETRY TabSymmetry
SPECIFICATION Spec
INVARIANTS
    TypeOK
    NoFalseAlarm
    OnlyTheCookieIsLive
