------------------------------- MODULE MCSct -------------------------------
(***************************************************************************)
(* A small instance of SctList: the extension of certificates that embed   *)
(* timestamps.                                                             *)
(***************************************************************************)
EXTENDS SctList, SctValues

\* security.go:73 says of a certificate whose count is 0, when the handshake
\* brought none either, that no embedded timestamps were observed.  All of
\* CertificateValues embed some.
EmbeddedSctsObserved == sctPc = "counted" => count > 0
=============================================================================
