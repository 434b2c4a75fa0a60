---------------------------- MODULE MCEntryPopups ----------------------------
\* One certificate, one text beside the empty one, two accounts.
EXTENDS EntryPopups

MCCertificate == {"c"}
MCPem == {"", "t"}
=============================================================================
