SPECIFICATION ScriptSpec
CONSTANTS
    Tasks = {t1, t2}
    Scripts = {s1, s2}
INVARIANTS
    ScriptTypeOK
    ChargedOnce
    ErrorNeedsCause
PROPERTY CallsEnd
