---------------------------- MODULE MCStatusViews ----------------------------
\* StatusViews with two spans and two addresses, up to three questions in flight
\* and two faults.
EXTENDS StatusViews

CONSTANTS day, week, here, there
==============================================================================
