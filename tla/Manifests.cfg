SPECIFICATION Spec
CONSTANTS
    Sources <- MCSources
    Namespaces = {"default", "kube"}
    NoNamespace = NoNamespace
    MaxCalls = 4
INVARIANTS
    LiveIsPrefix
    ReturnMeansDone
CHECK_DEADLOCK FALSE
