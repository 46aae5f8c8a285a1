----------------------------- MODULE MCLogSessions ----------------------------
EXTENDS LogSessions
===============================================================================
