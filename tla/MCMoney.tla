------------------------------ MODULE MCMoney -------------------------------
(***************************************************************************)
(* Payment for TLC: a behaviour follows the calls of Pay, the calls of Pay *)
(* with the inside of their gateway, or the ledger of attempts.            *)
(***************************************************************************)
EXTENDS Gateway, PaymentLedger

VARIABLE part

moneyVars == <<vars, gatewayVars, ledgerVars, part>>

MoneyInit == GatewayInit /\ LedgerInit /\ part \in {"pay", "gateway", "ledger"}

PayStep     == part = "pay" /\ Next /\ UNCHANGED <<gatewayVars, ledgerVars, part>>
GatewayStep == part = "gateway" /\ GatewayNext /\ UNCHANGED <<ledgerVars, part>>
LedgerStep  == part = "ledger" /\ LedgerNext /\ UNCHANGED <<vars, gatewayVars, part>>

MoneySpec == MoneyInit /\ [][PayStep \/ GatewayStep \/ LedgerStep]_moneyVars

=============================================================================
