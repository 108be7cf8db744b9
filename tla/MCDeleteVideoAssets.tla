------------------------ MODULE MCDeleteVideoAssets ------------------------
(* Three data objects with different bonds (one of them zero). *)
EXTENDS DeleteVideoAssets

MCObjs == {1, 2, 3}
MCBond == [o \in MCObjs |-> o - 1]
=============================================================================
