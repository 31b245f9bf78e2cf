-------------------------- MODULE MCShellSessions --------------------------
EXTENDS ShellSessions
=============================================================================
