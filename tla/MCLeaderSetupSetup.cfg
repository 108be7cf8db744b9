CONSTANTS
    storage = storage
    content = content
    f1 = f1
    f2 = f2
    f3 = f3
    f4 = f4
    Groups <- MCGroups
    StorageGroup = storage
    Flows <- MCFlows
    FlowGroup <- MCFlowGroup
SPECIFICATION Spec
INVARIANTS LeaderAfterSetup
