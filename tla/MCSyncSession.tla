---------------------------- MODULE MCSyncSession ----------------------------
(***************************************************************************)
(* SyncSession on small sets of codes.                                     *)
(***************************************************************************)
EXTENDS SyncSession

MCCloseStatuses == {0, 1000, 1011, 4000, 64536}

=============================================================================
