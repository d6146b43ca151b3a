SPECIFICATION FairSpec
CONSTANTS
    Items <- AllItems
    MaxItems = 2
    Written <- Files
INVARIANTS
    GeneratedIsServed
    AcceptedIsServed
    ToolsAgree
    ExportConnects
    AdaptedConnects
    HelperIsGone
PROPERTIES
    RefusedBeforeWriting
    ShutdownStops
CHECK_DEADLOCK FALSE
