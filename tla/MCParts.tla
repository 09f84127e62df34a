------------------------------ MODULE MCParts ------------------------------
(***************************************************************************)
(* Parts of a parser context that one thread uses at a time and that do    *)
(* not touch each other's state: the look-ahead of the push parser, the    *)
(* namespace database, the attributes of a start tag, the expansion of     *)
(* entities, the tree builder, the ring of errors, and a hash table.  A    *)
(* behaviour exercises the one that `part` names, the others stay idle.    *)
(***************************************************************************)
EXTENDS MCRobinHood, MCChunkLookup, NsDb, MCStartTag, Entities, Sax2, MCErrorRing

CONSTANTS
  nsD, nsP, nsQ,      \* the default namespace and two prefixes
  nsU,                \* a namespace name
  entA, entB, entC    \* entities; entC is external

VARIABLE part

(* Two prefixes that collide, or that share a bucket once tables wrap.     *)
MCHashes == {nsD :> 1 @@ nsP :> 3 @@ nsQ :> 3, nsD :> 1 @@ nsP :> 3 @@ nsQ :> 4}
MCDecls == {<<nsD, nsU>>, <<nsP, nsU>>, <<nsQ, nsU>>}

(* Entities that refer to each other in content and in attribute values,   *)
(* once or twice, with loops of one to three entities.                     *)
MCChar == <<"char">>
MCReferring(S) ==
  UNION {{<< <<"ref", e>> >>, << <<"ref", e>>, <<"ref", e>> >>, <<MCChar, <<"att", e>> >>} :
           e \in S}
MCBodies ==
  {f \in [Ents -> MCReferring(Ents) \cup {<<MCChar, MCChar>>}] :
     /\ f[entA] \in MCReferring({entB})
     /\ f[entC] \in {<<MCChar, MCChar>>, << <<"ref", entA>> >>, <<MCChar, <<"att", entB>> >>}}

(* One entity whose content is built below a root of its own.              *)
MCBuilt == {<<"e", 1>>}

-----------------------------------------------------------------------------
(* The initial state of the parts that are not exercised.                  *)
IdleChunks == text = <<>> /\ dtd = FALSE /\ cur = 0 /\ end = 0 /\ checkIndex = 0
                /\ endCheckState = "0" /\ phase = "wait"
MCAnyHash == CHOOSE h \in MCHashes : TRUE
IdleNs == nsClean = FALSE /\ nsHashOf = MCAnyHash /\ NsInit
MCAnyScope == CHOOSE s \in MCScopes : TRUE
IdleTag == /\ stTag = [atts |-> <<>>, defaults |-> <<>>, scope |-> MCAnyScope]
           /\ stStep = "parse" /\ stErrors = {} /\ stAtts = <<>>
MCAnyBody == CHOOSE f \in MCBodies : TRUE
IdleEnts == entBody = MCAnyBody /\ entReplace = FALSE /\ entTree = FALSE /\ EntInit
IdleHash == /\ hash = [k \in Keys |-> LeastOf(HashValues)] /\ table = NoTable /\ nbElems = 0
            /\ scan = NoScan /\ visited = <<>> /\ due = {}

MCInit ==
  \/ part = "chunks" /\ ChunkInit /\ IdleNs /\ IdleTag /\ IdleEnts /\ SxInit /\ RingInit /\ IdleHash
  \/ part = "ns" /\ IdleChunks /\ NsInit /\ IdleTag /\ IdleEnts /\ SxInit /\ RingInit /\ IdleHash
  \/ part = "tag" /\ IdleChunks /\ IdleNs /\ StInit /\ IdleEnts /\ SxInit /\ RingInit /\ IdleHash
  \/ part = "ents" /\ IdleChunks /\ IdleNs /\ IdleTag /\ EntInit /\ SxInit /\ RingInit /\ IdleHash
  \/ part \in {"sax2", "errors"}
       /\ IdleChunks /\ IdleNs /\ IdleTag /\ IdleEnts /\ SxInit /\ RingInit /\ IdleHash
  \/ part = "hash" /\ IdleChunks /\ IdleNs /\ IdleTag /\ IdleEnts /\ SxInit /\ RingInit /\ HashInit
       /\ MCSortedHash

MCNext ==
  \/ /\ part = "chunks" /\ ChunkNext
     /\ UNCHANGED <<part, nsVars, stVars, entVars, sxVars, ringVars, hashVars>>
  \/ /\ part = "ns" /\ NsNext
     /\ UNCHANGED <<part, chunkVars, stVars, entVars, sxVars, ringVars, hashVars>>
  \/ /\ part = "tag" /\ StNext
     /\ UNCHANGED <<part, chunkVars, nsVars, entVars, sxVars, ringVars, hashVars>>
  \/ /\ part = "ents" /\ EntNext
     /\ UNCHANGED <<part, chunkVars, nsVars, stVars, sxVars, ringVars, hashVars>>
  \/ /\ part = "sax2" /\ SxNext
     /\ UNCHANGED <<part, chunkVars, nsVars, stVars, entVars, ringVars, hashVars>>
  \/ /\ part = "errors" /\ RingNext
     /\ UNCHANGED <<part, chunkVars, nsVars, stVars, entVars, sxVars, hashVars>>
  \/ /\ part = "hash" /\ HashNext
     /\ UNCHANGED <<part, chunkVars, nsVars, stVars, entVars, sxVars, ringVars>>

MCSpec ==
  MCInit /\ [][MCNext]_<<part, chunkVars, nsVars, stVars, entVars, sxVars, ringVars, hashVars>>
=============================================================================
