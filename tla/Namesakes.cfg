SPECIFICATION Spec
CONSTANTS
    Buckets = {"sampled"}
    Instances = {"instance", "twin"}
    Containers = {"container"}
    VMs = {"vm"}
    Public = {"instance"}
    Encrypted = {"instance"}
    Scopes <- MCScopes
    Place <- MCPlace
    Account <- MCAccount
    EntityOf <- MCEntityOf
    Content <- MCContent
    Export <- NoExport
\* The run ends with its last scope.
CHECK_DEADLOCK FALSE
PROPERTIES
    ReachableStaysOnRecord
