----------------------------- MODULE MCLibrary -----------------------------
(***************************************************************************)
(* What a program uses beside the parser: the tree, the writer, the        *)
(* reader, streaming patterns, and catalogs, which its threads share.      *)
(* They do not touch each other's state; a behaviour exercises the one     *)
(* that `part` names, the others stay idle.                                *)
(***************************************************************************)
EXTENDS MCTree, Writer, MCReader, MCPattern, MCCatalog

VARIABLE part

-----------------------------------------------------------------------------
(* The initial state of the parts that are not exercised.                  *)
IdleTree == quota = MCQuota(0, 0, 0, 0, 0) /\ heap = <<>>
              /\ entities = <<>> /\ pentities = <<>>
MCAnyDocument == CHOOSE t \in MCDocuments : TRUE
IdleReader == rdDoc = MCAnyDocument /\ RdInit
MCAnyPattern == CHOOSE p \in MCTwo : TRUE
IdlePattern == ptPattern = MCAnyPattern /\ PtInit
MCAnySetup == CHOOSE s \in MCTogether : TRUE
IdleCatalog == catSetup = MCAnySetup /\ CatInit

MCInit ==
  \/ part = "tree" /\ TrInit /\ WrInit /\ IdleReader /\ IdlePattern /\ IdleCatalog
  \/ part = "writer" /\ IdleTree /\ WrInit /\ IdleReader /\ IdlePattern /\ IdleCatalog
  \/ part = "reader" /\ IdleTree /\ WrInit /\ RdInit /\ IdlePattern /\ IdleCatalog
  \/ part = "pattern" /\ IdleTree /\ WrInit /\ IdleReader /\ PtInit /\ IdleCatalog
  \/ part = "catalog" /\ IdleTree /\ WrInit /\ IdleReader /\ IdlePattern /\ CatInit

MCNext ==
  \/ part = "tree" /\ TrNext /\ UNCHANGED <<part, wrVars, rdVars, ptVars, catVars>>
  \/ part = "writer" /\ WrNext /\ UNCHANGED <<part, trVars, rdVars, ptVars, catVars>>
  \/ part = "reader" /\ RdNextStep /\ UNCHANGED <<part, trVars, wrVars, ptVars, catVars>>
  \/ part = "pattern" /\ PtNext /\ UNCHANGED <<part, trVars, wrVars, rdVars, catVars>>
  \/ part = "catalog" /\ CatNext /\ UNCHANGED <<part, trVars, wrVars, rdVars, ptVars>>

MCSpec == MCInit /\ [][MCNext]_<<part, trVars, wrVars, rdVars, ptVars, catVars>>
=============================================================================
