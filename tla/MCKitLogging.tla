----------------------------- MODULE MCKitLogging -----------------------------
EXTENDS KitLogging, TLC


=============================================================================
