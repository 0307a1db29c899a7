---------------------------- MODULE MCInboxView ----------------------------
(* Inbox for TLC, with clients that upload. *)
EXTENDS MCInbox

ASSUME UploadsAssumption == Uploads
=============================================================================
