------------------------------- MODULE Blocks -------------------------------
(***************************************************************************)
(* Blocks of code as clone detection sees them: detection.block.Block,     *)
(* what MyPrefixer makes of one, and when HeuristicCloneDetector takes two *)
(* for clones.                                                             *)
(*                                                                         *)
(* A block is a record of its id, its file, its first and last line and    *)
(* the frequency of every term, zero for the terms it does not have.  Its  *)
(* list of terms is in the order of the sorter, the global order Rank of   *)
(* the terms.                                                              *)
(***************************************************************************)
EXTENDS Naturals, FiniteSets

CONSTANTS
  Terms,      (* the terms of the source code                               *)
  Rank,       (* Rank[t]: place of t in the order of the sorter             *)
  MaxTokens   (* bound: how many tokens a block has at most                 *)

ASSUME TermsAssumption ==
  /\ IsFiniteSet(Terms)
  /\ Rank \in [Terms -> Nat]
  /\ \A t, u \in Terms : Rank[t] = Rank[u] => t = u
  /\ MaxTokens \in Nat

(* A term of frequency n stands for n tokens; counting tokens is counting
   these pairs.                                                            *)
TokensOf(b, T) == UNION {{t} \X (1 .. b.freq[t]) : t \in T}
Tokens(b)      == TokensOf(b, Terms)
numTokens(b)   == Cardinality(Tokens(b))

(* The terms of Block.blockAsList.                                         *)
TermsOf(b)  == {t \in Terms : b.freq[t] # 0}
Before(t)   == {u \in Terms : Rank[u] < Rank[t]}
FirstOf(T)  == CHOOSE t \in T : T \cap Before(t) = {}

(* The tokens two blocks share: of each term, the smaller frequency.       *)
Shared(b, c)     == Tokens(b) \cap Tokens(c)
numShared(b, c)  == Cardinality(Shared(b, c))

-----------------------------------------------------------------------------
(* The similarity threshold: threshold[n] is (int) Math.ceil(n * sim), the
   number of tokens that must be shared when the larger block has n tokens.
   The product is rounded, so little is said of it: rounding is monotonic,
   and sim is at most 1.                                                   *)
IsThreshold(threshold) ==
  /\ threshold \in [0 .. MaxTokens -> Nat]
  /\ \A n \in 0 .. MaxTokens : threshold[n] <= n
  /\ \A m, n \in 0 .. MaxTokens : m <= n => threshold[m] <= threshold[n]

(* ... and a sim that is not 0 asks for something.                         *)
IsPositive(threshold) == \A n \in 1 .. MaxTokens : threshold[n] # 0

(* A block that was read from the block file.  It has a term: reading a
   block without terms throws (InputBlock.readDetectionBlock).             *)
IsBlock(b) ==
  /\ b.id \in Nat
  /\ b.start \in Nat /\ b.end \in Nat /\ b.start <= b.end
  /\ b.freq \in [Terms -> 0 .. MaxTokens]
  /\ TermsOf(b) # {}
  /\ numTokens(b) <= MaxTokens

-----------------------------------------------------------------------------
(* MyPrefixer.prefix: the terms met before prefixLength tokens have gone by
   are marked; the index holds a block under these terms only.             *)

(* Mutant: the token that completes the prefix is left out.                *)
PrefixLengthShort(b, threshold) == numTokens(b) - threshold[numTokens(b)]

PrefixLength(b, threshold) == numTokens(b) - threshold[numTokens(b)] + 1

PrefixTerms(b, threshold) ==
  {t \in TermsOf(b) :
     Cardinality(TokensOf(b, Before(t))) < PrefixLength(b, threshold)}

-----------------------------------------------------------------------------
(* Block.doesOverlap.                                                      *)

(* Mutant: the case of a block around the other is forgotten.              *)
doesOverlapAtEnds(b, c) ==
  /\ b.file = c.file
  /\ \/ b.start >= c.start /\ b.start <= c.end
     \/ b.end >= c.start /\ b.end <= c.end

doesOverlap(b, c) ==
  /\ b.file = c.file
  /\ \/ b.start >= c.start /\ b.start <= c.end
     \/ b.end >= c.start /\ b.end <= c.end
     \/ b.start <= c.start /\ b.end >= c.end

-----------------------------------------------------------------------------
(* What the two promise, without prefixes, index and early exits.          *)

(* Two blocks of one file that have a line in common.                      *)
HaveCommonLine(b, c) ==
  b.file = c.file /\ (b.start .. b.end) \cap (c.start .. c.end) # {}

Larger(b, c)  == IF numTokens(b) > numTokens(c) THEN b ELSE c
Smaller(b, c) == IF numTokens(b) > numTokens(c) THEN c ELSE b

Similar(b, c, threshold) == numShared(b, c) >= threshold[numTokens(Larger(b, c))]

(* The pair that detection reports from the side of q: of two blocks, the
   one with the larger id reports.                                         *)
ClonePair(q, c, threshold) ==
  /\ q.id >= c.id
  /\ ~ HaveCommonLine(q, c)
  /\ Similar(q, c, threshold)
=============================================================================
