-------------------------- MODULE MCMemoryProvider --------------------------
EXTENDS MemoryProvider

=============================================================================
