------------------------ MODULE MCEthStreamerAdapter ------------------------
(***************************************************************************)
(* EthStreamerAdapter for TLC.  One transaction, which a reorganisation may *)
(* move between the blocks of a range, out of it or off the chain: requests *)
(* of different transactions do not interact.  Reorganisations up to two    *)
(* blocks deeper than the lag, so that both blocks of a range can change;   *)
(* entity types along each chain of _should_export.                         *)
(***************************************************************************)
EXTENDS EthStreamerAdapter
CONSTANTS t1

OneTransaction == {t1}
SomeTypes == {{"block", "transaction", "log", "token_transfer", "trace", "contract", "token"},
              {"transaction"}, {"log"}, {"token_transfer"}, {"contract"}, {"token"}}
=============================================================================
