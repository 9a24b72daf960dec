----------------------------- MODULE GasEstimator -----------------------------
(***************************************************************************)
(* Gas limits of the transaction builders                                  *)
(* (src/src/transaction/gas_estimator.cpp).  The minimum gas limit and the *)
(* price per data byte of a NetworkConfig are 32 bits wide, lengths and    *)
(* results 64 bits; the constants U32 and U64 are the numbers of values of *)
(* the two widths, so that small instances reach the wrap-around.          *)
(***************************************************************************)
EXTENDS Naturals

CONSTANTS
    CostTransfer,    \* GAS_COST_ESDT_TRANSFER and its two equals
    ExtraESDT,       \* ADDITIONAL_GAS_FOR_ESDT_TRANSFER
    ExtraNFT,        \* ADDITIONAL_GAS_FOR_ESDT_NFT_TRANSFER
    U32, U64

ASSUME GasAssumption ==
    /\ CostTransfer \in Nat /\ ExtraESDT \in Nat /\ ExtraNFT \in Nat
    /\ U32 \in Nat \ {0} /\ U64 \in Nat \ {0} /\ U32 <= U64

\* The two fields of NetworkConfig that the estimator reads.
NetworkConfig == [minGasLimit : 0..U32 - 1, gasPerDataByte : 0..U32 - 1]

Wrap32(n) == n % U32
Wrap64(n) == n % U64

\* The price of the data in 32 bits, as if the length were a uint32_t (mutant).
DataGas32(cfg, length) == Wrap32(cfg.gasPerDataByte * length)

\* uint32_t * uint64_t.
DataGas(cfg, length) == Wrap64(cfg.gasPerDataByte * length)

forEGLDTransfer(cfg, length) == Wrap64(cfg.minGasLimit + DataGas(cfg, length))

\* minGasLimit + GAS_COST is uint32_t + int: the sum wraps at 32 bits before
\* it meets a 64 bit operand.
forESDTTransfer(cfg, length) ==
    Wrap64(Wrap32(cfg.minGasLimit + CostTransfer) + DataGas(cfg, length) + ExtraESDT)

forESDTNFTTransfer(cfg, length) ==
    Wrap64(Wrap32(cfg.minGasLimit + CostTransfer) + DataGas(cfg, length) + ExtraNFT)

forMultiESDTNFTTransfer(cfg, length, transfers) ==
    Wrap64(cfg.minGasLimit + Wrap64((CostTransfer + ExtraNFT) * transfers)
           + DataGas(cfg, length))

\* What the network charges for the size of a transaction alone: the formula
\* of forEGLDTransfer in unbounded numbers.
MoveBalanceGas(cfg, length) == cfg.minGasLimit + cfg.gasPerDataByte * length

-----------------------------------------------------------------------------
(* Properties *)

\* No sum leaves its width.
InRange(cfg, length, transfers) ==
    /\ cfg.minGasLimit + CostTransfer < U32
    /\ MoveBalanceGas(cfg, length) + CostTransfer + ExtraESDT < U64
    /\ MoveBalanceGas(cfg, length) + CostTransfer + ExtraNFT < U64
    /\ MoveBalanceGas(cfg, length) + (CostTransfer + ExtraNFT) * transfers < U64

\* Every estimate pays for the bytes and, for tokens, for the transfers.
Covers(cfg, length, transfers) ==
    /\ forEGLDTransfer(cfg, length) >= MoveBalanceGas(cfg, length)
    /\ forESDTTransfer(cfg, length) >= MoveBalanceGas(cfg, length) + CostTransfer
    /\ forESDTNFTTransfer(cfg, length) >= MoveBalanceGas(cfg, length) + CostTransfer
    /\ forMultiESDTNFTTransfer(cfg, length, transfers)
          >= MoveBalanceGas(cfg, length) + CostTransfer * transfers
=============================================================================
