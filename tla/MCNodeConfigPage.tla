--------------------------- MODULE MCNodeConfigPage ---------------------------
EXTENDS NodeConfigPage
==============================================================================
