---------------------------- MODULE MCCertCache -----------------------------
(* One server certificate, as two workers meet it at the same time.          *)
EXTENDS CertCache

MCOrig == {[issuer |-> "ca", serialNumber |-> 1]}
MCHash == [k \in {getKeyName(o) : o \in MCOrig} |-> 1]
=============================================================================
