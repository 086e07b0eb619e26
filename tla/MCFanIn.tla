------------------------------- MODULE MCFanIn -------------------------------
EXTENDS FanInProps
==============================================================================
