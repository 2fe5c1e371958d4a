-------------------------- MODULE MCStudioSession ---------------------------
(* Two users, one of them invited with a temporary password, and one page. *)
EXTENDS StudioSession

CONSTANTS u1, u2, home

MCUsers == {u1, u2}
MCPages == {home}
MCInvited == {u2}

=============================================================================
