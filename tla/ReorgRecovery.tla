---------------------------- MODULE ReorgRecovery ----------------------------
(***************************************************************************)
(* Chain forks: checkpoints, the shared block history and the rollback.    *)
(*                                                                         *)
(* Every listener on a chain is a source with a checkpoint of its own; all *)
(* of them append to one (height, hash) history, and whichever finds its   *)
(* checkpoint's hash gone rolls everything back to the newest history      *)
(* entry that is still on the live chain.                                  *)
(*                                                                         *)
(* A tick is one action: forks happen between ticks here, and Ingestion    *)
(* models what happens inside a tick.  Confirmation lag is left out: head  *)
(* is the newest block that is deep enough to be read.                     *)
(***************************************************************************)
EXTENDS Integers, FiniteSets, FiniteSetsExt, Functions

CONSTANTS
  Sources,      \* the listeners of one chain
  Gate,         \* Gate[s]: sources whose checkpoint s may not pass
  Refreshing,   \* sources whose upsert rewrites the stored height of a row
  Items,        \* launches and swaps
  SourceOf,     \* SourceOf[i]: the source that stores i
  MaxHeight,    \* bound: the chain stops growing here
  MaxForks,     \* bound: how often the chain forks
  MaxRange,     \* maxBlockRangePerPoll
  MaxDepth      \* reorgMaxDepthBlocks

\* What the theorems assume.
ConstantsOK ==
  /\ MaxHeight \in Nat /\ MaxForks \in Nat /\ MaxRange \in Nat \ {0} /\ MaxDepth \in Nat
  /\ Gate \in [Sources -> SUBSET Sources]
  /\ Refreshing \subseteq Sources
  /\ SourceOf \in [Items -> Sources]

VARIABLES
  head,       \* the chain's height
  fork,       \* fork[h]: which fork block h is on, the block's hash
  place,      \* place[i]: the block that holds i on the live chain, or Nowhere
  cp,         \* ChainIngestionCheckpoint: height and the hash stored with it
  past,       \* ChainBlockCheckpoint: the recorded heights and their hashes
  row,        \* the stored items: status and sourceHeight
  unresolved, \* sources halted with reorgUnresolvedAt
  overtaken,  \* history: sources that another one left behind on a dead fork
  moved       \* history: items a fork moved to another block

vars == <<head, fork, place, cp, past, row, unresolved, overtaken, moved>>

Heights      == 0..MaxHeight
Nowhere      == -1
NoCheckpoint == [height |-> -1, hash |-> -1]

Init ==
  /\ head = 0
  /\ fork = [h \in Heights |-> 0]
  /\ place \in [Items -> Heights \cup {Nowhere}]
  /\ cp = [s \in Sources |-> NoCheckpoint]
  /\ past = <<>>
  /\ row = [i \in Items |-> [status |-> "absent", height |-> 0]]
  /\ unresolved = {} /\ overtaken = {} /\ moved = {}

-----------------------------------------------------------------------------
(* The network. *)

NewBlock ==
  /\ head < MaxHeight
  /\ head' = head + 1
  /\ UNCHANGED <<fork, place, cp, past, row, unresolved, overtaken, moved>>

\* The blocks from h on are replaced; what they held is included elsewhere or not at all.
Reorg(h) ==
  /\ h \in 1..head
  /\ fork[MaxHeight] < MaxForks
  /\ fork' = [g \in Heights |-> IF g >= h THEN fork[MaxHeight] + 1 ELSE fork[g]]
  /\ place' \in [Items -> Heights \cup {Nowhere}]
  /\ \A i \in Items : IF place[i] \in 0..(h - 1) THEN place'[i] = place[i]
                                                ELSE place'[i] \notin 0..(h - 1)
  /\ moved' = moved \cup {i \in Items : place'[i] # place[i] /\ row[i].status # "absent"}
  /\ UNCHANGED <<head, cp, past, row, unresolved, overtaken>>

-----------------------------------------------------------------------------
(* A tick: verify the checkpoint, then recover or scan. *)

OnLiveChain(c) == c.height # NoCheckpoint.height /\ c.hash = fork[c.height]
Stale(s)       == cp[s].height # NoCheckpoint.height /\ ~OnLiveChain(cp[s])

ScanTip(s) == Min({head} \cup {cp[g].height : g \in Gate[s]})
From(s)    == cp[s].height + 1
To(s)      == Min({From(s) + MaxRange - 1, ScanTip(s)})

Scanned(s) == {i \in Items : SourceOf[i] = s /\ place[i] \in From(s)..To(s)}

\* Mutant: a replayed row keeps its orphaned status.
UpsertedUnrevived(s, i) ==
  [status |-> IF row[i].status = "absent" THEN "CANONICAL" ELSE row[i].status,
   height |-> IF row[i].status = "absent" \/ s \in Refreshing THEN place[i] ELSE row[i].height]

\* The upsert: a row seen again is revived; only some listeners also rewrite its height.
Upserted(s, i) ==
  [status |-> "CANONICAL",
   height |-> IF row[i].status = "absent" \/ s \in Refreshing THEN place[i] ELSE row[i].height]

\* History is kept down to MaxDepth below the block that was just committed.
Recorded(h) == [g \in {k \in DOMAIN past \cup {h} : k >= h - MaxDepth} |->
                  IF g = h THEN fork[g] ELSE past[g]]

\* Rows, checkpoint and history, in one transaction.
Commit(s) ==
  /\ ~Stale(s) /\ From(s) <= ScanTip(s)
  /\ row' = [i \in Items |-> IF i \in Scanned(s) THEN Upserted(s, i) ELSE row[i]]
  /\ cp' = [cp EXCEPT ![s] = [height |-> To(s), hash |-> fork[To(s)]]]
  /\ past' = Recorded(To(s))
  /\ overtaken' = overtaken \cup {q \in Sources : Stale(q)}
  /\ UNCHANGED <<head, fork, place, unresolved, moved>>

-----------------------------------------------------------------------------
(* attemptReorgRecovery. *)

Ancestors == {h \in DOMAIN past : past[h] = fork[h]}

Orphaned(ancestor) == {i \in Items : row[i].status = "CANONICAL" /\ row[i].height > ancestor}

\* Mutant: the checkpoints are not among the rows that are rolled back.
RolledBackNothing(ancestor) == cp

RolledBack(ancestor) ==
  [q \in Sources |-> IF cp[q].height > ancestor
                     THEN [height |-> ancestor, hash |-> fork[ancestor]] ELSE cp[q]]

\* Everything above the newest recorded block that is still live is undone, for every source,
\* in one transaction.
Recover(s) ==
  LET ancestor == Max(Ancestors)
  IN /\ Stale(s) /\ Ancestors # {}
     /\ row' = [i \in Items |-> IF i \in Orphaned(ancestor)
                                THEN [row[i] EXCEPT !.status = "ORPHANED"] ELSE row[i]]
     /\ cp' = RolledBack(ancestor)
     /\ past' = Restrict(past, {h \in DOMAIN past : h <= ancestor})
     /\ unresolved' = {}
     /\ UNCHANGED <<head, fork, place, overtaken, moved>>

\* No recorded block is still live: the source halts.
CannotRecover(s) ==
  /\ Stale(s) /\ Ancestors = {} /\ past # <<>>
  /\ unresolved' = unresolved \cup {s}
  /\ UNCHANGED <<head, fork, place, cp, past, row, overtaken, moved>>

-----------------------------------------------------------------------------
Next ==
  \/ NewBlock
  \/ \E h \in Heights : Reorg(h)
  \/ \E s \in Sources : Commit(s)
  \/ \E s \in Sources : Recover(s)
  \/ \E s \in Sources : CannotRecover(s)

Spec == Init /\ [][Next]_vars

-----------------------------------------------------------------------------
Checkpoints == [height: Heights, hash: 0..MaxForks] \cup {NoCheckpoint}

TypeOK ==
  /\ head \in Heights
  /\ fork \in [Heights -> 0..MaxForks]
  /\ place \in [Items -> Heights \cup {Nowhere}]
  /\ cp \in [Sources -> Checkpoints]
  /\ DOMAIN past \subseteq Heights /\ \A h \in DOMAIN past : past[h] \in 0..MaxForks
  /\ row \in [Items -> [status: {"absent", "CANONICAL", "ORPHANED"}, height: Heights]]
  /\ unresolved \subseteq Sources /\ overtaken \subseteq Sources /\ moved \subseteq Items

\* What a source promises while its checkpoint is on the live chain: an item at or below
\* the checkpoint has a canonical row exactly when the live chain holds it.
Faithful(i) ==
  LET c == cp[SourceOf[i]]
  IN  OnLiveChain(c) =>
        /\ place[i] \in 0..c.height => row[i].status = "CANONICAL"
        /\ row[i].status = "CANONICAL" /\ row[i].height <= c.height => place[i] \in 0..c.height

\* The rows go wrong in two ways only: for a source that another source overtook while its
\* own checkpoint was on a dead fork, and for items that a fork moved, in the sources whose
\* upsert leaves the old height in the row.
KeepsOldHeight(i) == i \in moved /\ SourceOf[i] \notin Refreshing

RowsMatchUnlessOvertaken ==
  \A i \in Items : SourceOf[i] \in overtaken \/ KeepsOldHeight(i) \/ Faithful(i)

\* Recovery never promises more than it knows: a row above a source's live checkpoint is
\* never canonical, whoever rolled the source back.
NothingAboveTheCheckpoint ==
  \A i \in Items : row[i].status = "CANONICAL" =>
    KeepsOldHeight(i) \/ row[i].height <= cp[SourceOf[i]].height

\* Replay from the ancestor re-populates the canonical facts (reorgRecovery.ts:21-22): the rows
\* of a source that nobody overtook are those of the live chain up to its checkpoint.
RowsFollowTheChain == TypeOK /\ RowsMatchUnlessOvertaken /\ NothingAboveTheCheckpoint

\* A recovery never reaches below the fork: what is stored at or below the newest recorded
\* block of the live chain survives, and rows are only ever orphaned, never deleted.
CommonPastSurvives ==
  [][\A i \in Items :
       /\ row[i].status # "absent" => row'[i].status # "absent"
       /\ row[i].status = "CANONICAL" /\ row'[i].status = "ORPHANED" =>
            \A h \in Ancestors : h < row[i].height]_vars

\* Once forks stop, every source reaches the tip of the live chain, unless one of them was
\* overtaken on a dead fork or the fork is deeper than the history that is kept.
Converges ==
  <>[](\/ overtaken # {} \/ \E s \in Sources : Stale(s) /\ Ancestors = {}
       \/ \A s \in Sources : OnLiveChain(cp[s]) /\ cp[s].height = MaxHeight)

\* Every recovery keeps the common past, and after the last fork the sources get back to the
\* tip: the rollback neither orphans too much nor leaves a checkpoint on the dead fork.
RecoveryConverges == CommonPastSurvives /\ Converges
=============================================================================
