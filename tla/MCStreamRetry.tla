---------------------------- MODULE MCStreamRetry ----------------------------
EXTENDS StreamRetry
=============================================================================
