---------------------------- MODULE MCSaveFlow ----------------------------
(* SaveFlow for TLC: three or four saves, of which the first may migrate,  *)
(* with any two failing calls or kills.                                    *)
EXTENDS SaveFlow
=============================================================================
