SPECIFICATION Spec
CONSTANTS
    Buckets = {"covered", "sampled"}
    Instances = {"instance", "twin"}
    Containers = {"container"}
    VMs = {"vm"}
    Public = {"sampled", "instance", "container", "vm"}
    Encrypted = {"sampled", "covered", "instance"}
    Scopes <- MCScopes
    Place <- MCPlace
    Account <- MCAccount
    EntityOf <- MCEntityOf
    Content <- MCContent
    Export <- MCExport
\* The run ends with its last scope.
CHECK_DEADLOCK FALSE
INVARIANTS
    AwsIsReadCautiously
    ExportReplacesSampling
    CloudsAreIndependent
