----------------------------- MODULE MCPollMsg ------------------------------
\* Two queues; events[] has two elements, and a bound of 3 goes past them.
EXTENDS PollMsg
=============================================================================
