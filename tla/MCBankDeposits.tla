--------------------------- MODULE MCBankDeposits ---------------------------
(* Instances of BankDeposits: a transfer with two links, and a link to      *)
(* another transfer that the bank has aged out. *)
EXTENDS BankDeposits

CONSTANTS sms, encoded, aged, ft, gt

MCUrls == {sms, encoded, aged}
MCTransferOf == [l \in MCUrls |-> IF l = aged THEN gt ELSE ft]
MCAmountOf == [t \in Transfers |-> 1]
=============================================================================
