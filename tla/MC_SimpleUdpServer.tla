-------------------------- MODULE MC_SimpleUdpServer --------------------------
\* Three clients; one datagram size under and one over the 4096-byte recvfrom
\* buffer; a kernel buffer of two datagrams, so that the third of three
\* datagrams sent back to back is dropped.
EXTENDS SimpleUdpServer

CONSTANTS a1, a2, a3

MC_Addrs == {a1, a2, a3}
MC_Sizes == {100, 5000}
MC_BufSize == 4096
MC_RcvCap == 2
MC_MaxArrivals == 3
=============================================================================
