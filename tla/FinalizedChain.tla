---- MODULE FinalizedChain ----
(* What the storage of one shard promises across crashes: the finalized    *)
(* chain is only ever extended, by one block or by several at once, never  *)
(* rolled back or rewritten, until a reset forgets all of it, or an engine *)
(* that started without seeing it finalizes a chain of its own.            *)
EXTENDS SequencesExt

VARIABLES
    chain,      \* the blocks, oldest first
    blind       \* whether the engine that runs has not seen the chain

chainVars == <<chain, blind>>

ChainInit == chain = <<>> /\ ~blind

Extend == ~blind /\ IsStrictPrefix(chain, chain') /\ ~blind'

Forget == ~blind /\ chain' = <<>> /\ ~blind'

Overlook == ~blind /\ chain' = chain /\ blind'

GiveUp == blind /\ chain' = chain /\ ~blind'

StartOver == blind /\ chain' # <<>> /\ ~blind'

ChainNext == Extend \/ Forget \/ Overlook \/ GiveUp \/ StartOver

ChainSpec == ChainInit /\ [][ChainNext]_chainVars
====
