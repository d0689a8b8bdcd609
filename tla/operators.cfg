SPECIFICATION Spec
VIEW MCView
CONSTANTS
    Bases = {h, c}
    Types = {t, u}
    Handlers = {f, g}
    Registered = {"+", "="}
    MaxOps = 2
    MaxFrom = 1
    Nil = Nil
    Plain = Plain
    Unmade = Unmade
PROPERTIES
    ImplementsRules
