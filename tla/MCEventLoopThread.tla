-------------------------- MODULE MCEventLoopThread --------------------------
EXTENDS EventLoopThread
==============================================================================
