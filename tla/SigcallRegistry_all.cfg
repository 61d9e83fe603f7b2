CONSTANTS
    old = old
    new = new
    other = other
    A = A
    B = B
    Connections = {old, new, other}
    Owners = {A, B}
    OwnerOf <- OwnersOfConnections
    NoConnection = nobody
    Names = {win_show, vfs_read, sigcall_list}
    BuiltIn = {vfs_read, sigcall_list}
    Reserved = {sigcall_list}
    QueueCapacity = 1
    MaxRequests = 3
SPECIFICATION Spec
INVARIANTS TypeOK RegistrationStands NoOrphans AtMostOneLate
CHECK_DEADLOCK FALSE
