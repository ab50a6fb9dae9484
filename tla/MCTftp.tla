------------------------------- MODULE MCTftp -------------------------------
(***************************************************************************)
(* Tftp with block numbers that wrap within the file and, on a network     *)
(* that only loses datagrams, within the image; with a memory that is      *)
(* large enough for the file and one that is not.                          *)
(***************************************************************************)
EXTENDS Tftp

MCLoadSizes == {NBlocks, 2}
MCAnswers == {"OACK", "BADOACK", "DATA", "NOTFOUND", "ERROR"}
MCPutAnswers == {"OACK", "ACK", "BADOACK", "ERROR"}
MCNetworks == {"lossy", "wild"}
MCSaveSizes == [n \in MCNetworks |-> IF n = "lossy" THEN 10 ELSE 3]
=============================================================================
