CONSTANTS
  WalletTxs <- MCWalletTxs
  Styles <- MCStyles
  Signer <- MCSigner
SPECIFICATION Spec
INVARIANTS SenderIsSigner DecodesAsSigned SupportedIsAccepted ContractAddressIsStandard EveryWritingNamesTheAccount
CHECK_DEADLOCK FALSE
