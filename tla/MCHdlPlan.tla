------------------------------ MODULE MCHdlPlan ------------------------------
EXTENDS HdlPlan

\* Every size across one, two and three parts, aligned or not.
MCImages == 0..76
=============================================================================
