------------------------------ MODULE MCSession ------------------------------
(* Instances of Session for TLC, with short strings (ServerReaderProofs    *)
(* has them of any length) and small milestones for the update counter.    *)
EXTENDS Session

MCPacketNos == {0, 5, 8, 13, 1}

(* Both sides of every version test, a version beyond MCPVMAX, and a name  *)
(* in place of the version.                                                *)
MCVersionBytes == {2, 3, 5, 6, 8, 65}

(* Only whether strim accepts a name matters here, not its length.         *)
MCNameLens == {20}
=============================================================================
