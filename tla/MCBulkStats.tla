------------------------------ MODULE MCBulkStats ------------------------------
(***************************************************************************)
(* Two reads, the hosts of two clusters: one in two chunks, one in one.    *)
(* The cycle starts 4 units after the oldest sample, so that both limits   *)
(* can be just met and just missed, and the second one passed while a read *)
(* is being judged.                                                        *)
(***************************************************************************)
EXTENDS BulkStats, TLC

CONSTANTS h1, h2, h3, h4

\* The collector's clock is ahead.
MCSkew == -1

MCReads == {<<{h1}, {h2, h3}>>, <<{h4}>>}
\* The samples of one chunk come in any order.
MCSymmetry == Permutations({h2, h3})
================================================================================
