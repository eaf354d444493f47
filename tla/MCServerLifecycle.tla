-------------------------- MODULE MCServerLifecycle --------------------------
EXTENDS ServerLifecycle

=============================================================================
