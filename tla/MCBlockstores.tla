--------------------------- MODULE MCBlockstores ---------------------------
(***************************************************************************)
(* Blockstores for TLC: a CID whose hash is not supported, one that the    *)
(* bundle of version 14 gives a wrong block while that of version 15 has   *)
(* the right one (mixed), and one that both have right (good).             *)
(***************************************************************************)
EXTENDS Blockstores

CONSTANTS good, mixed, unsupported, b1, b2, b3

MCDigest == [x \in {good, mixed, unsupported} |->
               CASE x = good -> b1 [] x = mixed -> b2 [] x = unsupported -> NoBlock]

MCCarV14 == << <<unsupported, b3>>, <<good, b1>>, <<mixed, b3>> >>
MCCarV15 == << <<mixed, b2>>, <<unsupported, b1>>, <<good, b1>> >>
=============================================================================
