---------------------------- MODULE MCDhcpClient ----------------------------
(***************************************************************************)
(* Instances of DhcpClient for TLC.                                        *)
(***************************************************************************)
EXTENDS DhcpClient

CONSTANTS s1, s2

OneAddr == {<<s2, 1>>}
=============================================================================
