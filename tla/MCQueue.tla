------------------------------- MODULE MCQueue -------------------------------
EXTENDS Queue
===============================================================================
