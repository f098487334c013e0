----------------------- MODULE HeuristicCloneDetector -----------------------
(***************************************************************************)
(* detection.detection.HeuristicCloneDetector.detectClones: the clones of  *)
(* one query block among the blocks of an index that is complete.          *)
(***************************************************************************)
EXTENDS Blocks

CONSTANTS
  Thresholds,   (* the similarity thresholds detection may be run with      *)
  Inputs        (* what detectClones may be given: records of the query and
                   of the set of blocks that have been indexed              *)

ASSUME InputAssumption ==
  /\ \A threshold \in Thresholds : IsThreshold(threshold)
  /\ \A in \in Inputs :
       /\ IsBlock(in.query)
       /\ IsFiniteSet(in.indexed)
       /\ \A b \in in.indexed : IsBlock(b)

VARIABLES
  threshold,    (* the detector's and the prefixer's sim                    *)
  query,        (* qBlock                                                   *)
  indexed,      (* the blocks the indexers have put into the index          *)
  pc,
  candidates,   (* the candidates still to be checked                       *)
  candidate,    (* cBlock of the call of isClone that is running            *)
  rest,         (* the terms of the larger block the loop has not reached   *)
  shared,       (* sharedTokens                                             *)
  remaining,    (* remainingTokens                                          *)
  clones        (* the blocks reported as clones of the query               *)

scanVars == <<candidate, rest, shared, remaining>>
vars == <<threshold, query, indexed, pc, candidates, candidate, rest, shared,
          remaining, clones>>

Init ==
  /\ threshold \in Thresholds
  /\ \E in \in Inputs : query = in.query /\ indexed = in.indexed
  /\ pc = "collect"
  /\ candidates = {}
  /\ candidate = query
  /\ rest = {}
  /\ shared = 0
  /\ remaining = 0
  /\ clones = {}

-----------------------------------------------------------------------------
(* Candidates: the blocks that are indexed under a prefix term of the query,
   whose terms are read in order up to the first that is no prefix term.   *)

Index(t) == {b \in indexed : t \in PrefixTerms(b, threshold)}

CollectedTerms ==
  LET prefix == PrefixTerms(query, threshold)
  IN  {t \in prefix : TermsOf(query) \cap Before(t) \subseteq prefix}

CollectCandidates ==
  /\ pc = "collect"
  /\ candidates' = UNION {Index(t) : t \in CollectedTerms}
  /\ pc' = "next"
  /\ UNCHANGED <<threshold, query, indexed, scanVars, clones>>

-----------------------------------------------------------------------------
(* isClone: what is checked before the terms are compared.                 *)

larger  == Larger(query, candidate)
smaller == Smaller(query, candidate)
needed  == threshold[numTokens(larger)]

RejectedAtOnce(c) ==
  \/ query.id < c.id
  \/ doesOverlap(query, c)
  \/ numTokens(Smaller(query, c)) < threshold[numTokens(Larger(query, c))]

SkipCandidate(c) ==
  /\ pc = "next"
  /\ c \in candidates
  /\ RejectedAtOnce(c)
  /\ candidates' = candidates \ {c}
  /\ UNCHANGED <<threshold, query, indexed, pc, scanVars, clones>>

(* Mutant: the loop starts with the counts of the smaller block.           *)
ScanCandidateSmaller(c) ==
  /\ pc = "next"
  /\ c \in candidates
  /\ ~ RejectedAtOnce(c)
  /\ candidates' = candidates \ {c}
  /\ candidate' = c
  /\ rest' = TermsOf(Larger(query, c))
  /\ shared' = 0
  /\ remaining' = numTokens(Smaller(query, c))
  /\ pc' = IF rest' = {} THEN "bug" ELSE "scan"
  /\ UNCHANGED <<threshold, query, indexed, clones>>

ScanCandidate(c) ==
  /\ pc = "next"
  /\ c \in candidates
  /\ ~ RejectedAtOnce(c)
  /\ candidates' = candidates \ {c}
  /\ candidate' = c
  /\ rest' = TermsOf(Larger(query, c))
  /\ shared' = 0
  /\ remaining' = numTokens(Larger(query, c))
  /\ pc' = IF rest' = {} THEN "bug" ELSE "scan"
  /\ UNCHANGED <<threshold, query, indexed, clones>>

-----------------------------------------------------------------------------
(* isClone: the loop over the terms of the larger block.                   *)

Least(m, n) == IF m <= n THEN m ELSE n

(* Mutant: the loop goes on until the threshold is passed.                 *)
ScanTermPastThreshold ==
  /\ pc = "scan"
  /\ LET t == FirstOf(rest)
     IN  /\ rest' = rest \ {t}
         /\ shared' = shared + Least(smaller.freq[t], larger.freq[t])
         /\ remaining' = remaining - larger.freq[t]
  /\ \/ /\ shared' > needed
        /\ clones' = clones \cup {candidate}
        /\ pc' = "next"
     \/ /\ shared' <= needed
        /\ clones' = clones
        /\ pc' = IF shared' + remaining' < needed THEN "next"
                 ELSE IF rest' = {} THEN "bug" ELSE "scan"
  /\ UNCHANGED <<threshold, query, indexed, candidates, candidate>>

(* One round: the term's tokens are no longer remaining, those the smaller
   block has are shared, and the verdict is given as soon as it is known.
   When no term is left and nothing was decided, "Bug?" is printed: that
   state is not reached (NotABug), so its final check is no action.        *)
ScanTerm ==
  /\ pc = "scan"
  /\ LET t == FirstOf(rest)
     IN  /\ rest' = rest \ {t}
         /\ shared' = shared + Least(smaller.freq[t], larger.freq[t])
         /\ remaining' = remaining - larger.freq[t]
  /\ \/ /\ shared' >= needed
        /\ clones' = clones \cup {candidate}
        /\ pc' = "next"
     \/ /\ shared' < needed
        /\ shared' + remaining' < needed
        /\ pc' = "next"
        /\ UNCHANGED clones
     \/ /\ shared' < needed
        /\ shared' + remaining' >= needed
        /\ pc' = IF rest' = {} THEN "bug" ELSE "scan"
        /\ UNCHANGED clones
  /\ UNCHANGED <<threshold, query, indexed, candidates, candidate>>

Return ==
  /\ pc = "next"
  /\ candidates = {}
  /\ pc' = "done"
  /\ UNCHANGED <<threshold, query, indexed, candidates, scanVars, clones>>

Terminating == pc = "done" /\ UNCHANGED vars

Next ==
  \/ CollectCandidates
  \/ \E c \in candidates : SkipCandidate(c) \/ ScanCandidate(c)
  \/ ScanTerm
  \/ Return
  \/ Terminating

Spec == Init /\ [][Next]_vars /\ WF_vars(Next)

-----------------------------------------------------------------------------
(* Properties.                                                             *)

(* The types of the variables.                                             *)
TypeOK ==
  /\ threshold \in Thresholds
  /\ \E in \in Inputs : query = in.query /\ indexed = in.indexed
  /\ pc \in {"collect", "next", "scan", "bug", "done"}
  /\ candidates \subseteq indexed
  /\ candidate \in indexed \cup {query}
  /\ rest \subseteq Terms
  /\ shared \in Nat
  /\ remaining \in Nat
  /\ clones \subseteq indexed

(* isClone's loop: sharedTokens counts what the blocks share of the terms
   passed, remainingTokens the tokens still to come, and neither of the two
   early exits has been due.                                               *)
LoopInvariant ==
  pc = "scan" =>
    /\ rest \subseteq TermsOf(larger)
    /\ shared = Cardinality(TokensOf(larger, Terms \ rest) \cap Tokens(smaller))
    /\ remaining = Cardinality(TokensOf(larger, rest))
    /\ rest # TermsOf(larger) => shared < needed
    /\ shared + remaining >= needed

(* "Need for compilation, but I don't think should end up here": isClone's
   loop always returns, whatever the sizes and the threshold.              *)
NotABug == pc # "bug"

(* Whatever is reported is a pair that shares enough tokens, without common
   lines, reported from the block with the larger id; the early exit of the
   loop never reports too much.                                            *)
OnlyClones == \A b \in clones : ClonePair(query, b, threshold)

(* The prefixes, the index and the early exits lose no clone: every pair
   that shares enough tokens is found, if sim is not 0.                    *)
AllClones ==
  pc = "done" /\ IsPositive(threshold) =>
    {b \in indexed : ClonePair(query, b, threshold)} \subseteq clones

(* The threshold as the manual words it, "for the Jaccard clone similarity
   metric": of the tokens that are in either block, a part of sim is in
   both.                                                                   *)
JaccardSimilar ==
  \A b \in clones :
    numShared(query, b)
      >= threshold[Cardinality(Tokens(query) \cup Tokens(b))]
=============================================================================
