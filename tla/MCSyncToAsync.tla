--------------------------- MODULE MCSyncToAsync ---------------------------
(* Two clients, the destructor's thread and the child.                     *)
EXTENDS SyncToAsync

CONSTANTS c1, c2
=============================================================================
