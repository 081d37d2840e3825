------------------------------ MODULE Indexer ------------------------------
(***************************************************************************)
(* The bloom indexer: EndBlock starts a goroutine that rotates the blooms  *)
(* of the blocks of each complete section into bit vectors and writes them *)
(* to a database of their own.  Several goroutines may exist; an atomic    *)
(* flag lets one of them work.  The database survives a crash, the rest    *)
(* does not.                                                               *)
(*                                                                         *)
(* A section's vectors are the function from its blocks to their blooms.   *)
(***************************************************************************)
EXTENDS Integers, Functions

CONSTANTS BloomBitsBlocks,  \* blocks in a section
          StartBlockHeight  \* of the chain

ASSUME SectionAssumption == BloomBitsBlocks \in Nat \ {0} /\ StartBlockHeight \in Nat

VARIABLES indexer,   \* storedSections and the flag processing
          sections,  \* running goroutines of ProcessSection, by the height that started them
          indexDB    \* count, section heads, bit vectors by section and head

indexVars == <<indexer, sections, indexDB>>

LOCAL Nothing == [x \in {} |-> x]
LOCAL With(f, k, v) == [x \in DOMAIN f \cup {k} |-> IF x = k THEN v ELSE f[x]]

EmptyIndexDB == [count |-> 0, heads |-> Nothing, bits |-> Nothing]

\* No section has a hash yet: the hash of block n is n, and 0 is the empty hash.
NoHash == 0

InitIndexer == [storedSections |-> indexDB.count, processing |-> FALSE]

\* Mutant: blocks are counted from one.
BeginAtOne(section) == section * BloomBitsBlocks + StartBlockHeight + 1

Begin(section) == section * BloomBitsBlocks + StartBlockHeight

\* The condition in EndBlock, and the goroutine it starts.
StartsSection(height) ==
  /\ height - StartBlockHeight >= (indexDB.count + 1) * BloomBitsBlocks
  /\ ~indexer.processing

NewSection(height) ==
  [pc |-> "swap", known |-> (height - StartBlockHeight) \div BloomBitsBlocks,
   section |-> 0, number |-> 0, head |-> NoHash, gen |-> Nothing]

Return(h) ==
  /\ sections' = Restrict(sections, DOMAIN sections \ {h})
  /\ indexer' = [indexer EXCEPT !.processing = FALSE]
  /\ UNCHANGED indexDB

Swap(h) ==
  /\ sections[h].pc = "swap"
  /\ UNCHANGED indexDB
  /\ IF indexer.processing
     THEN /\ sections' = Restrict(sections, DOMAIN sections \ {h})
          /\ UNCHANGED indexer
     ELSE /\ indexer' = [indexer EXCEPT !.processing = TRUE]
          /\ sections' = [sections EXCEPT ![h].pc = "loop"]

\* The head of the loop over sections, and Reset.
NextSection(h) ==
  /\ sections[h].pc = "loop"
  /\ IF indexer.storedSections < sections[h].known
     THEN /\ sections' = [sections EXCEPT ![h] = [@ EXCEPT
                !.pc = "blocks", !.section = indexer.storedSections,
                !.number = Begin(indexer.storedSections), !.head = NoHash, !.gen = Nothing]]
          /\ UNCHANGED <<indexer, indexDB>>
     ELSE Return(h)

\* One block of the section; hashes and blooms are those of the keeper's store.
ProcessBlock(h, hashes, blooms) ==
  LET s == sections[h]
      last == s.number + 1 = Begin(s.section + 1)
      Add(hash, bloom) ==
        /\ sections' = [sections EXCEPT ![h] = [s EXCEPT
              !.gen = With(s.gen, s.number, bloom), !.head = hash, !.number = s.number + 1,
              !.pc = IF last THEN "commit" ELSE "blocks"]]
        /\ UNCHANGED <<indexer, indexDB>>
  IN  /\ s.pc = "blocks"
      /\ IF s.number = StartBlockHeight THEN Add(NoHash, {})
         ELSE IF s.number \in hashes THEN Add(s.number, blooms[s.number])
         ELSE Return(h)

\* backend.Commit, setSectionHead and setValidSections: three writes to the database.
CommitSection(h) ==
  LET s == sections[h] IN
  /\ s.pc = "commit"
  /\ indexDB' = [indexDB EXCEPT !.bits = With(@, <<s.section, s.head>>, s.gen)]
  /\ sections' = [sections EXCEPT ![h].pc = "head"]
  /\ UNCHANGED indexer

setSectionHead(h) ==
  LET s == sections[h] IN
  /\ s.pc = "head"
  /\ indexDB' = [indexDB EXCEPT !.heads = With(@, s.section, s.head)]
  /\ sections' = [sections EXCEPT ![h].pc = "count"]
  /\ UNCHANGED indexer

setValidSections(h) ==
  LET s == sections[h] IN
  /\ s.pc = "count"
  /\ indexDB' = [indexDB EXCEPT !.count = s.section + 1]
  /\ indexer' = [indexer EXCEPT !.storedSections = s.section + 1]
  /\ sections' = [sections EXCEPT ![h].pc = "loop"]

ProcessSection(hashes, blooms) ==
  \E h \in DOMAIN sections :
    \/ Swap(h) \/ NextSection(h) \/ ProcessBlock(h, hashes, blooms)
    \/ CommitSection(h) \/ setSectionHead(h) \/ setValidSections(h)
=============================================================================
