\* deleteVideoAssetsAsModerator with repeated --assetIds values, a lagging query node and concurrent asset changes.
CONSTANTS
    Objs <- MCObjs
    Bond <- MCBond
    MaxAssets = 3
    Repeats = TRUE
SPECIFICATION Spec
INVARIANTS
    ShownBondIsPaid
