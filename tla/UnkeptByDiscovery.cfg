SPECIFICATION Spec
CONSTANTS
    Buckets = {"sampled"}
    Instances = {"instance"}
    Containers = {"container"}
    VMs = {"vm"}
    Public = {"sampled", "container", "vm"}
    Encrypted = {"instance"}
    Scopes <- MCScopes
    Place <- MCPlace
    Account <- MCAccount
    EntityOf <- MCEntityOf
    Content <- MCContent
    Export <- NoExport
\* The run ends with its last scope.
CHECK_DEADLOCK FALSE
\* One of PrivateIsPrivate, SensitiveIsFlagged and UnscannableIsFlagged at a time.
INVARIANTS
    PrivateIsPrivate
