---------------------------- MODULE MCDashboard ----------------------------
EXTENDS Dashboard
============================================================================
