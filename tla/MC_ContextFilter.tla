-------------------------- MODULE MC_ContextFilter --------------------------
EXTENDS ContextFilter
=============================================================================
