\* Every prefix of every hello.  client_version and random take two bytes here
\* instead of 34.
CONSTANTS
    FIXED_LEN = 2
    Hellos <- AllHellos
    Hosts <- Names1To3
    RuleLists <- Rules1To2
SPECIFICATION Spec
CHECK_DEADLOCK FALSE
INVARIANTS
    AsTheEngineAssumes
    SaysWhatWasMeant
    BlockedByLabels
