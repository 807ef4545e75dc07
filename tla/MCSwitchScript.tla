-------------------------- MODULE MCSwitchScript --------------------------
(* TLC's instances of SwitchScript.                                        *)
EXTENDS SwitchScript

(* The two placeholders and an ordinary port.                              *)
MCPorts == {11111, 22222, 33333}

(* A single undisturbed run of the script. *)
NoEvents == {}
=============================================================================
