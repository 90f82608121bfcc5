---------------------------- MODULE ResetCommand ----------------------------
(***************************************************************************)
(* The reset command (parse_config_commands, adc_soft_reset).  It runs in  *)
(* the Ethernet interrupt and waits there for SPI transmissions to end.    *)
(* The end of a transmission is recorded by the DMA interrupt, which has   *)
(* the same priority as the Ethernet interrupt: neither preempts the other.*)
(***************************************************************************)
EXTENDS Integers

\* Lower numbers preempt higher ones.
EthPriority == 63       \* ethernetif.c
DmaPriority == 63       \* GLOBAL_DMA_0

VARIABLES
  eth,       \* the Ethernet interrupt: "idle", in adc_soft_reset's first loop
             \* ("waitFree"), in its second ("waitSent"), or "reset"
  tx_busy,   \* SPI_MASTER_ADC.runtime->tx_busy
  dma,       \* the DMA transmits
  pending    \* the DMA interrupt is pending

vars == <<eth, tx_busy, dma, pending>>

Init == eth = "idle" /\ tx_busy = FALSE /\ dma = FALSE /\ pending = FALSE

\* SPI_MASTER_StartTransmitDMA on a free channel.
StartTransmitDMA == tx_busy' = TRUE /\ dma' = TRUE /\ UNCHANGED pending

\* The main loop starts a transfer with an ADC.
MainTransfer ==
  /\ eth = "idle" /\ ~pending /\ ~tx_busy
  /\ StartTransmitDMA
  /\ UNCHANGED eth

DmaSent ==
  /\ dma
  /\ dma' = FALSE /\ pending' = TRUE
  /\ UNCHANGED <<eth, tx_busy>>

\* SPI_MASTER_ADC_DMA_tx_handler
TxHandler ==
  /\ pending
  /\ eth = "idle" \/ DmaPriority < EthPriority
  /\ pending' = FALSE /\ tx_busy' = FALSE
  /\ UNCHANGED <<eth, dma>>

\* A file with the reset command has been executed: adc_soft_reset.
ResetAsked ==
  /\ eth = "idle"
  /\ eth' = "waitFree"
  /\ UNCHANGED <<tx_busy, dma, pending>>

Transmit ==
  /\ eth = "waitFree" /\ ~tx_busy
  /\ StartTransmitDMA
  /\ eth' = "waitSent"

\* NVIC_SystemReset
SystemReset ==
  /\ eth = "waitSent" /\ ~tx_busy
  /\ eth' = "reset"
  /\ UNCHANGED <<tx_busy, dma, pending>>

Next == MainTransfer \/ DmaSent \/ TxHandler \/ ResetAsked \/ Transmit \/ SystemReset

\* Transmissions end, a pending interrupt that may preempt is taken, and the
\* Ethernet interrupt goes on when what it waits for is there.
FairSpec ==
  /\ Init /\ [][Next]_vars
  /\ WF_vars(DmaSent) /\ WF_vars(TxHandler) /\ WF_vars(Transmit) /\ WF_vars(SystemReset)

\* main.c:165 "reset --- resets the DAQ after all commands transferred are
\* processed".
ResetHappens == eth = "waitFree" ~> eth = "reset"
=============================================================================
