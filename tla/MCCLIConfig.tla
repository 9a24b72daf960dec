----------------------------- MODULE MCCLIConfig -----------------------------
(***************************************************************************)
(* Instances of CLIConfig for TLC: the networks of config.toml; the names  *)
(* of two of them have the same length, the text is 300 bytes long.        *)
(***************************************************************************)
EXTENDS CLIConfig, TLC

MCNetwork == {"Mainnet", "Testnet", "Devnet", "Local"}
MCTextLength ==
    [n \in MCNetwork |-> 300 + CASE n = "Devnet" -> 6 [] n = "Local" -> 5 [] OTHER -> 7]

ProcessSymmetry == Permutations(Process)
=============================================================================
