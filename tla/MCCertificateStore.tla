------------------------- MODULE MCCertificateStore -------------------------
(* CertificateStore with two names and two contents: every deployment of     *)
(* ACME, custom, blank and missing certificates, in every order.             *)
EXTENDS CertificateStore
=============================================================================
