------------------------------ MODULE LoserTree ------------------------------
(***************************************************************************)
(* The multiway merge of bgindex: class LoserTree and the loop of          *)
(* bgCompressAndWrite that empties it.  nodes is an array whose first num  *)
(* entries are the leaves, one per file; each level is padded to an even   *)
(* number of nodes with phantoms that never hold a file.  A node's fd is   *)
(* the file whose next n-gram wins among the leaves below it.              *)
(*                                                                         *)
(* One thread does all of this, so a call is one step.  What becomes of an *)
(* n-gram once it is sent to the compress queue is module IndexPipeline's. *)
(***************************************************************************)
EXTENDS Ascending, Sequences, SequencesExt, FiniteSetsExt

CONSTANTS
    FileCounts,   \* how many files there may be; main has stopped if fewer than 2
    Grams,        \* the n-grams a file may contain
    MaxTotal,     \* bound on the n-grams of all files together
    NULL          \* the null pointer

ASSUME FileCountsAssumption == FileCounts \subseteq Nat \ {0, 1}
ASSUME GramsAssumption ==       \* of three or four bytes
    Grams \subseteq Nat /\ IsFiniteSet(Grams) /\ NULL \notin Nat /\ MaxTotal \in Nat

VARIABLES
    pc,
    ngrams,                  \* FileData.ngrams of each file: fixed
    cur_off,                 \* FileData.cur_off: the file's next n-gram
    parent, left, right,     \* links of nodes
    fd,                      \* LoserTreeNode.fd of nodes
    last_fid_popped,         \* the leaf update_tree starts from
    last_ngram, fids,        \* the n-gram being collected, its files so far
    sent                     \* notifications pushed to the compress queue

links == <<parent, left, right>>
vars == <<pc, ngrams, cur_off, links, fd, last_fid_popped, last_ngram, fids, sent>>

Files == DOMAIN ngrams
num == Cardinality(Files)

-----------------------------------------------------------------------------
(* The shape of the tree *)

Even(n) == n + (n % 2)

(* LoserTree's constructor counts the nodes, phantoms included *)
numnodes[cnt \in Nat] ==
    IF cnt > 1 THEN Even(cnt) + numnodes[Even(cnt) \div 2] ELSE 1

root == numnodes[num] - 1

(* build_tree's loop variables when it comes to a level: the level's nodes,  *)
(* where it starts, and where its parents do                                 *)
level[k \in Nat] ==
    IF k = 0 THEN [cnt |-> num, curnode |-> 0, p |-> Even(num)]
    ELSE LET below == level[k - 1]
             next == Even(below.cnt) \div 2
         IN  [cnt |-> next, curnode |-> below.curnode + 2 * next, p |-> below.p + Even(next)]

(* a pair of nodes of a level is linked with its parent *)
Link(k, j) == [parent |-> level[k].p + j, left |-> level[k].curnode + 2 * j,
               right |-> level[k].curnode + 2 * j + 1]
Links == UNION {{Link(k, j) : j \in 0 .. Even(level[k].cnt) \div 2 - 1} :
                   k \in {i \in 0 .. num : level[i].cnt > 1}}

-----------------------------------------------------------------------------
(* Which file wins.  off is where each file's cursor is. *)

have_vals(off, f) == off[f] < Len(ngrams[f])
val(off, f) == ngrams[f][off[f] + 1]

(* a file takes part if there is one and it is not exhausted *)
InPlay(off, f) == f # NULL /\ have_vals(off, f)

(* Mutant of LeftWins: of two equal n-grams the right one is taken first *)
LeftWinsIfLess(off, l, r) ==
    InPlay(off, l) /\ (InPlay(off, r) => val(off, l) < val(off, r))

LeftWins(off, l, r) ==
    InPlay(off, l) /\ (InPlay(off, r) => val(off, l) <= val(off, r))

Winner(off, l, r) ==
    IF LeftWins(off, l, r) THEN l ELSE IF InPlay(off, r) THEN r ELSE NULL

Nodes == 0 .. root

(* the nodes update_tree visits *)
Ancestors[n \in Nodes] ==
    IF parent[n] = NULL THEN {} ELSE {parent[n]} \cup Ancestors[parent[n]]

(* Mutant of update_tree: above the leaf's parent a node is played again only *)
(* if another file has come up to it                                         *)
UpdateUntilSame(node, off, leaf) ==
    LET file[n \in Nodes] ==
            IF n \notin Ancestors[leaf] THEN node[n]
            ELSE LET l == file[left[n]]
                     r == file[right[n]]
                 IN  IF n # parent[leaf] /\ l = node[left[n]] /\ r = node[right[n]]
                     THEN node[n] ELSE Winner(off, l, r)
    IN  file

(* the files in the nodes when every node of the path has been played again, *)
(* the lower ones first; the children of those nodes are never NULL          *)
update_tree(node, off, leaf) ==
    LET file[n \in Nodes] ==
            IF n \in Ancestors[leaf] THEN Winner(off, file[left[n]], file[right[n]])
                                     ELSE node[n]
    IN  file

is_empty == \A n \in {left[root], right[root]} : ~InPlay(cur_off, fd[n])

-----------------------------------------------------------------------------
Init ==
    /\ pc = "link"
    /\ \E n \in FileCounts :
          ngrams \in [0 .. n-1 -> {Ordered(g) : g \in (SUBSET Grams) \ {{}}}]
    /\ MapThenSumSet(LAMBDA f : Len(ngrams[f]), Files) <= MaxTotal
    /\ cur_off = [f \in Files |-> 0]
    /\ parent = [n \in Nodes |-> NULL] /\ left = parent /\ right = parent
    /\ fd = [n \in Nodes |-> IF n \in Files THEN n ELSE NULL]
    /\ last_fid_popped = 0 /\ last_ngram = NULL
    /\ fids = <<>> /\ sent = <<>>

(* build_tree: the links, and in each inner node, until it is first played,  *)
(* the file of its left child                                                *)
LinkTree ==
    /\ pc = "link"
    /\ LET up(n) == {l \in Links : n \in {l.left, l.right}}
           down(n) == {l \in Links : n = l.parent}
       IN  /\ parent' = [n \in Nodes |-> IF up(n) = {} THEN NULL ELSE (CHOOSE l \in up(n) : TRUE).parent]
           /\ left' = [n \in Nodes |-> IF down(n) = {} THEN NULL ELSE (CHOOSE l \in down(n) : TRUE).left]
           /\ right' = [n \in Nodes |-> IF down(n) = {} THEN NULL ELSE (CHOOSE l \in down(n) : TRUE).right]
    /\ LET leftmost[n \in Nodes] == IF left'[n] = NULL THEN fd[n] ELSE leftmost[left'[n]]
       IN  fd' = leftmost
    /\ pc' = "play"
    /\ UNCHANGED <<ngrams, cur_off, last_fid_popped, last_ngram, fids, sent>>

(* update_tree_full: every other leaf, its sibling having the same ancestors *)
PlayLeaf ==
    /\ pc = "play" /\ last_fid_popped < num
    /\ fd' = update_tree(fd, cur_off, last_fid_popped)
    /\ last_fid_popped' = last_fid_popped + 2
    /\ UNCHANGED <<pc, ngrams, cur_off, links, last_ngram, fids, sent>>

(* bgCompressAndWrite's first look at the root *)
StartMerge ==
    /\ pc = "play" /\ last_fid_popped >= num
    /\ last_fid_popped' = 0
    /\ last_ngram' = IF InPlay(cur_off, fd[root]) THEN val(cur_off, fd[root]) ELSE 0
    /\ pc' = "merge"
    /\ UNCHANGED <<ngrams, cur_off, links, fd, fids, sent>>

Notification == [order |-> Len(sent), ngram |-> last_ngram, fids |-> fids]

(* main collects the files of one n-gram until the next n-gram comes *)
Collect(ngram, id) ==
    IF ngram = last_ngram
    THEN /\ fids' = Append(fids, id)
         /\ UNCHANGED <<pc, last_ngram, sent>>
    ELSE IF ngram < last_ngram
    THEN pc' = "exit88" /\ UNCHANGED <<last_ngram, fids, sent>>
    ELSE /\ sent' = Append(sent, Notification)
         /\ fids' = <<id>>
         /\ last_ngram' = ngram
         /\ UNCHANGED pc

(* one round of the loop: get_root_data pops the leaf of the root's file,   *)
(* which is emptied if it has no value any more, and plays up from there    *)
Merge ==
    /\ pc = "merge" /\ ~is_empty
    /\ LET f == fd[root]
           off == [cur_off EXCEPT ![f] = @ + 1]
       IN  IF have_vals(cur_off, f)
           THEN /\ cur_off' = off
                /\ fd' = update_tree(fd, off, f)
                /\ last_fid_popped' = f
                /\ Collect(val(cur_off, f), f)
           ELSE /\ fd' = update_tree([fd EXCEPT ![f] = NULL], cur_off, 0)
                /\ last_fid_popped' = 0
                /\ Collect(0, 0) /\ UNCHANGED cur_off
    /\ UNCHANGED <<ngrams, links>>

MergeDone ==
    /\ pc = "merge" /\ is_empty
    /\ sent' = IF fids # <<>> THEN Append(sent, Notification) ELSE sent
    /\ pc' = "done"
    /\ UNCHANGED <<ngrams, cur_off, links, fd, last_fid_popped, last_ngram, fids>>

Done == pc \in {"done", "exit88"} /\ UNCHANGED vars

Next == LinkTree \/ PlayLeaf \/ StartMerge \/ Merge \/ MergeDone \/ Done

Spec == Init /\ [][Next]_vars

-----------------------------------------------------------------------------
(* Properties *)

LeavesBelow(n) == {f \in Files : f = n \/ n \in Ancestors[f]}

(* f's next n-gram comes before g's; equal n-grams come in file order, so   *)
(* that the sort in bgCompress finds its work done                          *)
Before(off, f, g) ==
    \/ val(off, f) < val(off, g)
    \/ val(off, f) = val(off, g) /\ f <= g

(* Whatever has been popped, every inner node of the tree -- not just the   *)
(* root -- holds the first of the unexhausted files below it, and none when *)
(* all are exhausted: update_tree repairs one path and must leave the other *)
(* subtrees right (bgindex_th.cpp, update_tree and build_tree).             *)
EveryNodeHoldsItsFirst ==
    pc \in {"merge", "done"} =>
        \A n \in num .. root :
            LET alive == {f \in LeavesBelow(n) : have_vals(cur_off, f)}
            IN  IF alive = {} THEN fd[n] = NULL
                ELSE fd[n] \in alive /\ \A g \in alive : Before(cur_off, fd[n], g)

GramsOf(f) == ToSet(ngrams[f])

(* The inverted index of the files: each n-gram that occurs, in order, with *)
(* the files it occurs in, in order.                                        *)
Inverted ==
    LET occurring == Ordered(UNION {GramsOf(f) : f \in Files})
    IN  [k \in 1 .. Len(occurring) |->
            [order |-> k - 1,
             ngram |-> occurring[k],
             fids |-> Ordered({f \in Files : occurring[k] \in GramsOf(f)})]]

(* What the merge sends to the compress queue is always the beginning of    *)
(* that inverted index, and all of it when the merge is over; the loop's    *)
(* own check, exit(88) when an n-gram goes backwards, never strikes.        *)
SendsTheInvertedIndex ==
    /\ IsPrefix(sent, Inverted)
    /\ pc = "done" => sent = Inverted
    /\ pc # "exit88"
=============================================================================
