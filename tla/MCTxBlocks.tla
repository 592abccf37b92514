----------------------------- MODULE MCTxBlocks ------------------------------
EXTENDS TxBlocks

sectionSets == SUBSET Sections
=============================================================================
