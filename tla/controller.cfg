SPECIFICATION FairSpec
CONSTANTS
    Names = {a}
    Forms <- SomeForms
    NewForms <- FirstForms
    MaxUid = 2
    EventCap = 1
    Cases = {{"haste", "list"}, {"edit", "fault"}, {"crash"}}
INVARIANTS ControllerInv Reachable Labelled
PROPERTIES  Served
CHECK_DEADLOCK FALSE
