--------------------------- MODULE MCStatusUpgrade ---------------------------
(* An instance of StatusUpgrade for TLC: two requests to convert the master, *)
(* a pg_upgrade of two or three stages, and one checklist step that runs.    *)
EXTENDS StatusUpgrade

CONSTANTS u1, u2

OneUpgrade == {u1}
TwoUpgrades == {u1, u2}
OneActive == {"share-oids"}
Pending == {"PENDING"}
=============================================================================
