----------------------------- MODULE MCTransports -----------------------------
EXTENDS TransportsProps
===============================================================================
