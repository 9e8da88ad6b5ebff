---------------------------- MODULE MCTransferLink ----------------------------
(* TransferLink with an empty log, a short one and a longer one. *)
EXTENDS TransferLink
MCLog == {1, 2}
MCPayloads == [n \in {1, 2} |-> IF n = 1 THEN 0 ELSE 2]
=============================================================================
