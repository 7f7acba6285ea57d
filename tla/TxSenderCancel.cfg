SPECIFICATION Spec
CONSTANTS
    Jobs = {j1, j2}
    QueueSize = 1
PROPERTIES
    CancelDropsQueue
