--------------------------- MODULE MCCredentialSave ---------------------------
(* Small instances of CredentialSave for TLC: its constants are model values. *)
EXTENDS CredentialSave
=============================================================================
