------------------------ MODULE MCWhatsAppInstances -------------------------
(* Small instances of WhatsAppInstances for TLC. *)
EXTENDS WhatsAppInstances

=============================================================================
