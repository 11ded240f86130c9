--------------------------- MODULE MCMicroSession ---------------------------
(* The nonces of the model: of a host that starts up to twice early, and of a device *)
(* that is reset twice and reboots.                                                  *)
EXTENDS MicroSession

StartNonces == <<1, 2, 3>>
BootNonces == <<5, 6, 7>>
=============================================================================
