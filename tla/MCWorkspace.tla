----------------------------- MODULE MCWorkspace -----------------------------
(***************************************************************************)
(* Instances of Workspace for TLC.                                         *)
(***************************************************************************)
EXTENDS Workspace

CONSTANTS u1, u2, s1, s2

\* the first user does everything in one session, and creates and uploads to
\* another; the second user tries to delete the first one's
Everything ==
  {c \in CallShapes :
     /\ c.user = u1
     /\ "session" \in DOMAIN c /\ c.session = s2 => c.op \in {"create_session", "upload_document"}}
    \union {c \in CallShapes : c.user = u2 /\ c.op = "delete_session" /\ c.session = s1}
=============================================================================
