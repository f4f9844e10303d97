------------------------------ MODULE MCExecution ------------------------------
\* Three processes, of which two may recover a stale lock and one limits its calls.
EXTENDS Execution
=============================================================================
