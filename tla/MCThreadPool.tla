----------------------------- MODULE MCThreadPool -----------------------------
EXTENDS ThreadPool
CONSTANTS k1, k2, k3
===============================================================================
