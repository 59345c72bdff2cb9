SPECIFICATION Spec
CONSTANTS
    Addr <- TwoAddr
    GetChannel <- TwoVaults
    channels = 2
    epoch_period = 2
    num_links = 2
    link_width = 16
    link_speed = 25000
    block_size = 32
    xbar_queue_depth = 1
    VaultDepth = 2
    MaxVaultWait = 1
    Requests <- ReadsAndAWrite
    MaxOutstanding = 3
INVARIANTS
    ResponsesAreTheirOwn
