SPECIFICATION Spec
CONSTANTS
    Names = {a}
    Forms <- SomeForms
    NewForms <- FirstForms
    MaxUid = 2
    EventCap = 1
    Cases = {{"haste", "list"}}
INVARIANT ManagesOwn
CHECK_DEADLOCK FALSE
