--------------------------- MODULE MCMetadataStore -------------------------
(* Instance of MetadataStore for TLC; its constants come from the .cfg. *)
EXTENDS MetadataStore
=============================================================================
