---------------------------- MODULE MCCertFetch ----------------------------
(* Model-checking instance of CertFetch.  A hash is one byte position, so *)
(* the header is five positions; the root hash of a chain is taken to be *)
(* the first byte of its root certificate.                                *)
EXTENDS CertFetch

MCBytes == {0, 1}
\* A chain of three portions whose header hash matches its root
\* certificate, one whose does not, a matching one shorter than the pinned
\* chain, and one that is no longer than its header.
MCRspChains == {<<0, 0, 0, 0, 1, 1, 0>>, <<0, 0, 0, 0, 0, 1>>,
                <<0, 0, 0, 0, 1, 1>>, <<0, 0, 0, 0, 1>>}
\* A single chain, for the runs with a faulty responder.
MCRspChainOne == {<<0, 0, 0, 0, 1, 1, 0>>}
MCPinnedChains == {<<1, 0>>}
MCRootHash(s) == IF s = <<>> THEN <<>> ELSE <<s[1]>>
MCChainVerifies(s) == s # <<>>
=============================================================================
