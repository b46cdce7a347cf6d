SPECIFICATION Spec
CONSTANTS
    Calls = {c1, c2}
    c1 = c1
    c2 = c2
    Methods <- MCMethods
    Asking <- MCAsking
    Modules <- MCModules
    MaxImports = 2
    MaxDesc = 3
    MaxKept = 1
    Keepable = {"JsContext", "WebviewContext"}
    MaxStray = 1
INVARIANTS EngineTypeOK StoreOwned RuntimesAreOfContexts
PROPERTIES CallsAreTasks EveryCallAnswered
CHECK_DEADLOCK FALSE
