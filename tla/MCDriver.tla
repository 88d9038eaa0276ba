------------------------------ MODULE MCDriver ------------------------------
(***************************************************************************)
(* The fixed and step patterns over two agents.  The reply codes follow   *)
(* the order spec 4.A lists the replies in (REPLY_ACK, REPLY_VALUE,        *)
(* REPLY_STATS_THROUGHPUT, REPLY_STATS_LATENCY), from 0: the C header that *)
(* defines them is not part of src/.                                       *)
(***************************************************************************)
EXTENDS Driver
=============================================================================
