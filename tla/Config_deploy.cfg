CONSTANTS
    v1 = v1
    v2 = v2
    v3 = v3
    create = create
    again = again
    update = update
    delete = delete
    Req = {create, again, update, delete}
    NoReq = NoReq
    Version = {v1, v2, v3}
    NoVersion = NoVersion
    Op <- MCOp
    MayChange <- MCMayChange
    Ball <- MCBall
    Layer <- MCLayer
    MaxPulls = 2
    Faults = {"api", "die", "metadata", "bucket", "tar", "sudo", "crash", "read"}
SPECIFICATION Spec
INVARIANTS TypeOK MergeIsEffective PulledIsMerged PulledFilesAreCurrent OwnerIsCreator CreatedIsComplete
CHECK_DEADLOCK FALSE
