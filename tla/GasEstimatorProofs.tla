-------------------------- MODULE GasEstimatorProofs --------------------------
(***************************************************************************)
(* What the gas estimates cover, for every network configuration and every *)
(* width.                                                                  *)
(***************************************************************************)
EXTENDS GasEstimator, TLAPS

LEMMA WrapSmall ==
    ASSUME NEW n \in Nat
    PROVE  /\ n < U32 => Wrap32(n) = n
           /\ n < U64 => Wrap64(n) = n
<1>1. U32 \in Nat \ {0} /\ U64 \in Nat \ {0}
  BY GasAssumption
<1>2. \A k \in Nat, m \in Nat \ {0} : k < m => k % m = k
  OBVIOUS
<1> QED
  BY <1>1, <1>2 DEF Wrap32, Wrap64

(***************************************************************************)
(* As long as no sum leaves its width, every estimate covers the bytes and *)
(* the transfers of the transaction.                                       *)
(***************************************************************************)
THEOREM EstimatesCover ==
    ASSUME NEW cfg \in NetworkConfig, NEW length \in Nat, NEW transfers \in Nat,
           InRange(cfg, length, transfers)
    PROVE  Covers(cfg, length, transfers)
<1> DEFINE m == cfg.minGasLimit
           p == cfg.gasPerDataByte * length
           q == (CostTransfer + ExtraNFT) * transfers
<1>1. m \in Nat /\ cfg.gasPerDataByte \in Nat
  BY GasAssumption DEF NetworkConfig
<1>2. p \in Nat /\ q \in Nat /\ CostTransfer * transfers \in Nat
  BY <1>1, GasAssumption
<1>3. CostTransfer * transfers <= q
  <2>1. q = CostTransfer * transfers + ExtraNFT * transfers
    BY GasAssumption
  <2>2. ExtraNFT * transfers \in Nat
    BY GasAssumption
  <2> QED
    BY <1>2, <2>1, <2>2
<1>4. /\ m + CostTransfer < U32
      /\ m + p + CostTransfer + ExtraESDT < U64
      /\ m + p + CostTransfer + ExtraNFT < U64
      /\ m + p + q < U64
  BY DEF InRange, MoveBalanceGas
<1>a. CostTransfer \in Nat /\ ExtraESDT \in Nat /\ ExtraNFT \in Nat
  BY GasAssumption
<1>b. U64 \in Nat /\ U32 \in Nat
  BY GasAssumption
<1> HIDE DEF p, q, m
<1>5. Wrap64(p) = p
  <2>1. p < U64
    BY <1>1, <1>2, <1>4, <1>a, <1>b
  <2> QED
    BY <1>2, <2>1, WrapSmall
<1>6. Wrap32(m + CostTransfer) = m + CostTransfer
  BY <1>1, <1>4, <1>a, WrapSmall DEF m
<1>7. Wrap64(q) = q
  <2>1. q < U64
    BY <1>1, <1>2, <1>4, <1>a, <1>b DEF m
  <2> QED
    BY <1>2, <2>1, WrapSmall
<1>8. forEGLDTransfer(cfg, length) = m + p
  <2>1. m + p \in Nat /\ m + p < U64
    BY <1>1, <1>2, <1>4, <1>a, <1>b DEF m
  <2>2. Wrap64(m + p) = m + p
    BY <2>1, WrapSmall
  <2> QED
    BY <1>5, <2>2 DEF forEGLDTransfer, DataGas, m, p
<1>9. forESDTTransfer(cfg, length) = m + CostTransfer + p + ExtraESDT
  <2>1. /\ m + CostTransfer + p + ExtraESDT \in Nat
        /\ m + CostTransfer + p + ExtraESDT < U64
    BY <1>1, <1>2, <1>4, <1>a, <1>b DEF m
  <2>2. Wrap64(m + CostTransfer + p + ExtraESDT) = m + CostTransfer + p + ExtraESDT
    BY <2>1, WrapSmall
  <2> QED
    BY <1>5, <1>6, <2>2 DEF forESDTTransfer, DataGas, m, p
<1>10. forESDTNFTTransfer(cfg, length) = m + CostTransfer + p + ExtraNFT
  <2>1. /\ m + CostTransfer + p + ExtraNFT \in Nat
        /\ m + CostTransfer + p + ExtraNFT < U64
    BY <1>1, <1>2, <1>4, <1>a, <1>b DEF m
  <2>2. Wrap64(m + CostTransfer + p + ExtraNFT) = m + CostTransfer + p + ExtraNFT
    BY <2>1, WrapSmall
  <2> QED
    BY <1>5, <1>6, <2>2 DEF forESDTNFTTransfer, DataGas, m, p
<1>11. forMultiESDTNFTTransfer(cfg, length, transfers) = m + q + p
  <2>1. m + q + p \in Nat /\ m + q + p < U64
    BY <1>1, <1>2, <1>4, <1>a, <1>b DEF m
  <2>2. Wrap64(m + q + p) = m + q + p
    BY <2>1, WrapSmall
  <2> QED
    BY <1>5, <1>7, <2>2 DEF forMultiESDTNFTTransfer, DataGas, m, p, q
<1>12. MoveBalanceGas(cfg, length) = m + p
  BY DEF MoveBalanceGas, m, p
<1> QED
  BY <1>1, <1>2, <1>3, <1>8, <1>9, <1>10, <1>11, <1>12, <1>a DEF Covers, m
=============================================================================
