---------------------------- MODULE MCDraftMirror ----------------------------
(* Instances of DraftMirror for TLC: two machines and one draft.            *)
EXTENDS DraftMirror

Either == {TRUE, FALSE}
AllFailures == {"crash", "delete", "relay"}
RelayOnly == {"relay"}
=============================================================================
