SPECIFICATION Spec
CONSTANTS
  payer = payer  burn = burn  con = con  t1 = t1  t2 = t2  t3 = t3
  Acct = {payer, burn, con}
  Scalar = {"balance", "nonce"}
  Key = {"counter"}
  Tx = {t1, t2, t3}
  Fee <- MCFee
  BadTx = {t3}
  Payer = payer
  Burn = burn
  Contract = con
  Airdrop = 3
  Times = {1}
  GenesisTime = 0
  MaxBlockTxs = 2
  MaxStarts = 2
INVARIANTS TypeOK DurableChain StatesReadBack OncePerStart CachedTxIsCanonical
PROPERTIES ChainOnlyGrows Included
CHECK_DEADLOCK FALSE
