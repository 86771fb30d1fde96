---------------------------- MODULE MCConnection ----------------------------
EXTENDS Connection

\* Two requests: enough for a second frame to be read out of place and for
\* two replies to meet a released client.
MCMaxRequests == 2
MCOrderIds == {1}

=============================================================================
