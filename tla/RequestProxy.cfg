\* One request: requests share the table and nothing that they write.
CONSTANTS
    Request = {r1}
    Query  <- MCQuery
    Table  <- MCTable
    Peer   <- MCPeer
    Policy <- MCPolicy
    Header <- MCHeader
SPECIFICATION Spec
INVARIANTS
    TypeOK
    TenantStays
    HeadersVouched
PROPERTIES
    Refines
