-------------------- MODULE HeuristicCloneDetector_proofs --------------------
(***************************************************************************)
(* What detectClones finds, for any blocks and any similarity threshold.   *)
(***************************************************************************)
EXTENDS HeuristicCloneDetector, Blocks_proofs

(* The candidate being compared is one that may be reported.               *)
Comparable ==
  pc = "scan" =>
    /\ candidate \in indexed
    /\ query.id >= candidate.id
    /\ ~ HaveCommonLine(query, candidate)
    /\ rest # {}

(* The blocks not checked yet, the one being compared among them.          *)
Pending == candidates \cup (IF pc = "scan" THEN {candidate} ELSE {})

(* A clone of the query has been reported or has not been checked yet.     *)
NoneLost ==
  pc # "collect" /\ IsPositive(threshold) =>
    {b \in indexed : ClonePair(query, b, threshold)} \subseteq clones \cup Pending

Finished == pc = "done" => candidates = {}

IInv ==
  /\ TypeOK
  /\ Comparable
  /\ LoopInvariant
  /\ NotABug
  /\ OnlyClones
  /\ NoneLost
  /\ Finished

-----------------------------------------------------------------------------
(* What TypeOK says of the input.                                          *)
LEMMA InputFacts ==
  ASSUME TypeOK
  PROVE  /\ IsThreshold(threshold)
         /\ IsBlock(query)
         /\ \A d \in indexed : IsBlock(d)
BY InputAssumption DEF TypeOK

LEMMA InitIInv ==
  ASSUME Init
  PROVE  IInv
<1>1. TypeOK
  BY DEF Init, TypeOK
<1>2. QED
  BY <1>1 DEF Init, IInv, Comparable, LoopInvariant, NotABug,
              OnlyClones, NoneLost, Finished

(* A block that is a clone of the query, and shares a token with it as it
   must if sim is not 0, is among the candidates that are collected.       *)
LEMMA ClonesAreCandidates ==
  ASSUME TypeOK, IsPositive(threshold),
         NEW d \in indexed, ClonePair(query, d, threshold)
  PROVE  d \in UNION {Index(t) : t \in CollectedTerms}
<1>1. IsThreshold(threshold) /\ IsBlock(query) /\ IsBlock(d)
  BY InputFacts
<1>2. Similar(query, d, threshold)
  BY DEF ClonePair
<1>3. PICK t \in PrefixTerms(query, threshold) : t \in PrefixTerms(d, threshold)
  BY <1>1, <1>2, SimilarShare, SimilarMeetInPrefix
<1>4. t \in CollectedTerms
  BY <1>1, <1>3, PrefixComesFirst DEF CollectedTerms
<1>5. d \in Index(t)
  BY <1>3 DEF Index
<1>6. QED
  BY <1>4, <1>5

LEMMA CollectIInv ==
  ASSUME IInv, CollectCandidates
  PROVE  IInv'
<1> USE DEF CollectCandidates, scanVars
<1>1. TypeOK'
  BY DEF IInv, TypeOK, Index
<1>3. NoneLost'
  <2>1. ASSUME IsPositive(threshold),
               NEW d \in indexed, ClonePair(query, d, threshold)
        PROVE  d \in candidates'
    BY <2>1, ClonesAreCandidates DEF IInv
  <2>2. QED
    BY <2>1 DEF NoneLost, Pending
<1>4. OnlyClones'
  BY DEF IInv, OnlyClones
<1>5. QED
  BY <1>1, <1>3, <1>4
     DEF IInv, Comparable, LoopInvariant, NotABug, Finished

(* isClone rejects at once only what is no clone.                          *)
LEMMA RejectedIsNoClone ==
  ASSUME TypeOK, NEW d \in indexed, RejectedAtOnce(d)
  PROVE  ~ ClonePair(query, d, threshold)
<1> DEFINE n == numTokens(Larger(query, d))
<1>1. IsThreshold(threshold) /\ IsBlock(query) /\ IsBlock(d)
  BY InputFacts
<1>2. query.id \in Nat /\ d.id \in Nat
  BY <1>1 DEF IsBlock
<1>3. CASE query.id < d.id
  BY <1>2, <1>3 DEF ClonePair
<1>4. CASE doesOverlap(query, d)
  BY <1>1, <1>4, OverlapIsCommonLine DEF ClonePair
<1>5. CASE numTokens(Smaller(query, d)) < threshold[n]
  <2>1. numShared(query, d) <= numTokens(Smaller(query, d))
    BY <1>1, LargerSmaller, SharedFinite
  <2>2. n \in 0 .. MaxTokens /\ numTokens(Smaller(query, d)) \in Nat
    BY <1>1, LargerSmaller, TokensFinite, TermsAssumption
  <2>3. threshold[n] \in Nat /\ numShared(query, d) \in Nat
    BY <1>1, <2>2, SharedFinite DEF IsThreshold
  <2>4. ~ (numShared(query, d) >= threshold[n])
    BY <1>5, <2>1, <2>2, <2>3
  <2>5. QED
    BY <2>4 DEF ClonePair, Similar
<1>6. QED
  BY <1>3, <1>4, <1>5 DEF RejectedAtOnce

LEMMA SkipIInv ==
  ASSUME IInv, NEW d \in candidates, SkipCandidate(d)
  PROVE  IInv'
<1> USE DEF SkipCandidate, scanVars
<1>1. TypeOK'
  BY DEF IInv, TypeOK
<1>2. OnlyClones'
  BY DEF IInv, OnlyClones
<1>3. ~ ClonePair(query, d, threshold)
  BY RejectedIsNoClone DEF IInv, TypeOK
<1>4. NoneLost'
  BY <1>3 DEF IInv, NoneLost, Pending
<1>5. QED
  BY <1>1, <1>2, <1>4 DEF IInv, Comparable, LoopInvariant, NotABug, Finished

LEMMA ScanCandidateIInv ==
  ASSUME IInv, NEW d \in candidates, ScanCandidate(d)
  PROVE  IInv'
<1> USE DEF ScanCandidate
<1> DEFINE l == Larger(query, d)
           s == Smaller(query, d)
<1>1. IsThreshold(threshold) /\ IsBlock(query) /\ IsBlock(d) /\ d \in indexed
  BY InputFacts DEF IInv, TypeOK
<1>2. IsBlock(l) /\ IsBlock(s) /\ (l = query \/ l = d)
  BY <1>1, LargerSmaller
<1>3. numTokens(l) \in Nat /\ numTokens(s) \in Nat /\ numTokens(l) \in 0 .. MaxTokens
  BY <1>2, TokensFinite, TermsAssumption
<1>4. TermsOf(l) # {}
  BY <1>2 DEF IsBlock
<1>5. TermsOf(l) \subseteq Terms
  BY DEF TermsOf
<1>6. pc' = "scan" /\ rest' = TermsOf(l) /\ shared' = 0 /\ remaining' = numTokens(l)
  BY <1>4
<1>7. larger' = l /\ smaller' = s /\ needed' = threshold[numTokens(l)]
  BY DEF larger, smaller, needed
<1>8. TypeOK'
  <2> HIDE DEF l
  <2>1. QED
    BY <1>1, <1>3, <1>5, <1>6 DEF IInv, TypeOK
<1>9. OnlyClones'
  BY DEF IInv, OnlyClones
<1>10. Comparable'
  <2>1. ~ RejectedAtOnce(d)
    OBVIOUS
  <2>2. query.id \in Nat /\ d.id \in Nat
    BY <1>1 DEF IsBlock
  <2>3. query.id >= d.id
    BY <2>1, <2>2 DEF RejectedAtOnce
  <2>4. ~ HaveCommonLine(query, d)
    BY <1>1, <2>1, OverlapIsCommonLine DEF RejectedAtOnce
  <2>5. QED
    BY <1>1, <1>4, <1>6, <2>3, <2>4 DEF Comparable
<1>11. LoopInvariant'
  <2>1. TokensOf(l, Terms \ TermsOf(l)) = {}
    <3>1. \A u \in Terms \ TermsOf(l) : 1 .. l.freq[u] = {}
      BY DEF TermsOf
    <3>2. QED
      BY <3>1 DEF TokensOf
  <2>2. Cardinality(TokensOf(l, Terms \ TermsOf(l)) \cap Tokens(s)) = 0
    BY <2>1, FS_EmptySet
  <2>3. TokensOf(l, TermsOf(l)) = Tokens(l)
    <3>1. Terms = TermsOf(l) \cup (Terms \ TermsOf(l))
      BY <1>5
    <3>2. Tokens(l) = TokensOf(l, TermsOf(l)) \cup TokensOf(l, Terms \ TermsOf(l))
      BY <3>1 DEF Tokens, TokensOf
    <3>3. QED
      BY <2>1, <3>2
  <2>4. numTokens(l) = Cardinality(TokensOf(l, TermsOf(l)))
    BY <2>3 DEF numTokens
  <2>5. threshold[numTokens(l)] \in Nat /\ threshold[numTokens(l)] <= numTokens(l)
    BY <1>1, <1>3 DEF IsThreshold
  <2>6. 0 + numTokens(l) >= threshold[numTokens(l)]
    BY <1>3, <2>5
  <2> HIDE DEF l, s
  <2>7. QED
    BY <1>6, <1>7, <2>2, <2>4, <2>6 DEF LoopInvariant
<1>12. NotABug'
  BY <1>6 DEF NotABug
<1>13. NoneLost'
  BY <1>6 DEF IInv, NoneLost, Pending
<1>14. QED
  BY <1>6, <1>8, <1>9, <1>10, <1>11, <1>12, <1>13 DEF IInv, Finished

-----------------------------------------------------------------------------
(* The loop of isClone.                                                    *)

(* A term more is shared as often as both blocks have it.                  *)
LEMMA SharedWithTerm ==
  ASSUME NEW l, IsBlock(l), NEW s, IsBlock(s),
         NEW T \in SUBSET Terms, NEW t \in Terms \ T
  PROVE  Cardinality(TokensOf(l, T \cup {t}) \cap Tokens(s))
           = Cardinality(TokensOf(l, T) \cap Tokens(s)) + Least(s.freq[t], l.freq[t])
<1> DEFINE old == TokensOf(l, T) \cap Tokens(s)
           new == TokensOf(l, {t}) \cap Tokens(s)
           k == Least(s.freq[t], l.freq[t])
<1>1. TokensOf(l, T \cup {t}) \cap Tokens(s) = old \cup new
  BY DEF TokensOf
<1>2. old \cap new = {}
  BY DEF TokensOf
<1>3. l.freq[t] \in Nat /\ s.freq[t] \in Nat
  BY TermsAssumption DEF IsBlock
<1>4. k \in Nat /\ (1 .. l.freq[t]) \cap (1 .. s.freq[t]) = 1 .. k
  BY <1>3 DEF Least
<1>5. new = {t} \X (1 .. k)
  <2>1. new = TokensOf(l, {t}) \cap TokensOf(s, {t})
    BY DEF Tokens, TokensOf
  <2>2. new = ({t} \X (1 .. l.freq[t])) \cap ({t} \X (1 .. s.freq[t]))
    BY <2>1, TokensOfOneTerm
  <2>3. new = {t} \X ((1 .. l.freq[t]) \cap (1 .. s.freq[t]))
    BY <2>2
  <2>4. QED
    BY <1>4, <2>3
<1>6. Cardinality(new) = k
  <2>1. IsFiniteSet(1 .. k) /\ Cardinality(1 .. k) = k
    BY <1>4, CountedFromOne
  <2>2. IsFiniteSet({t}) /\ Cardinality({t}) = 1
    BY FS_Singleton
  <2>3. Cardinality({t} \X (1 .. k)) = Cardinality({t}) * Cardinality(1 .. k)
    <3> HIDE DEF k
    <3>1. QED
      BY <2>1, <2>2, FS_Product
  <2>4. 1 * k = k
    BY <1>4
  <2>5. QED
    BY <1>5, <2>1, <2>2, <2>3, <2>4
<1>7. IsFiniteSet(old) /\ IsFiniteSet(new)
  <2>1. IsFiniteSet(TokensOf(l, T)) /\ IsFiniteSet(TokensOf(l, {t}))
    BY TokensFinite
  <2>2. QED
    BY <2>1, FS_Intersection
<1>8. Cardinality(old \cup new) = Cardinality(old) + Cardinality(new)
  BY <1>2, <1>7, DisjointUnion
<1>9. QED
  BY <1>1, <1>6, <1>8

(* What two blocks share is between what they share of the terms passed and
   that with all the tokens still to come.                                 *)
LEMMA SharedBounds ==
  ASSUME NEW l, IsBlock(l), NEW s, IsBlock(s), NEW R \in SUBSET Terms
  PROVE  LET passed == Cardinality(TokensOf(l, Terms \ R) \cap Tokens(s))
             ahead  == Cardinality(TokensOf(l, R))
         IN  /\ passed \in Nat /\ ahead \in Nat
             /\ passed <= numShared(l, s)
             /\ numShared(l, s) <= passed + ahead
<1> DEFINE P == TokensOf(l, Terms \ R) \cap Tokens(s)
           A == TokensOf(l, R)
           U == P \cup A
<1>1. IsFiniteSet(TokensOf(l, Terms \ R)) /\ IsFiniteSet(A)
  BY TokensFinite
<1>2. IsFiniteSet(P)
  BY <1>1, FS_Intersection
<1>3. Cardinality(P) \in Nat /\ Cardinality(A) \in Nat
  BY <1>1, <1>2, FS_CardinalityType
<1>4. P \in SUBSET Shared(l, s)
  BY DEF Shared, Tokens, TokensOf
<1>5. IsFiniteSet(Shared(l, s)) /\ numShared(l, s) \in Nat
  BY SharedFinite
<1>6. Cardinality(P) <= numShared(l, s)
  BY <1>4, <1>5, FS_Subset DEF numShared
<1>7. P \cap A = {}
  BY DEF TokensOf
<1>8. IsFiniteSet(U) /\ Cardinality(U) = Cardinality(P) + Cardinality(A)
  BY <1>1, <1>2, <1>7, DisjointUnion
<1>9. Shared(l, s) \in SUBSET U
  <2>1. Tokens(l) \subseteq TokensOf(l, Terms \ R) \cup TokensOf(l, R)
    BY DEF Tokens, TokensOf
  <2>2. QED
    BY <2>1 DEF Shared
<1>10. numShared(l, s) <= Cardinality(U)
  BY <1>8, <1>9, FS_Subset DEF numShared
<1>11. QED
  BY <1>3, <1>6, <1>8, <1>10

LEMMA ScanTermIInv ==
  ASSUME IInv, ScanTerm
  PROVE  IInv'
<1> DEFINE t == FirstOf(rest)
<1>1. /\ IsThreshold(threshold) /\ IsBlock(query) /\ IsBlock(candidate)
      /\ candidate \in indexed /\ pc = "scan"
  BY InputFacts DEF IInv, TypeOK, Comparable, ScanTerm
<1>2. /\ IsBlock(larger) /\ IsBlock(smaller)
      /\ numShared(query, candidate) = numShared(larger, smaller)
      /\ needed = threshold[numTokens(Larger(query, candidate))]
  BY <1>1, LargerSmaller DEF larger, smaller, needed
<1>3. needed \in Nat
  <2>1. numTokens(larger) \in 0 .. MaxTokens
    BY <1>2, TokensFinite
  <2>2. QED
    BY <1>1, <2>1 DEF needed, IsThreshold
<1>4. rest \in SUBSET Terms /\ rest # {}
  BY <1>1 DEF IInv, TypeOK, Comparable
<1>5. t \in rest /\ t \in Terms
  BY <1>4, FirstIsFirst
<1>6. /\ rest' = rest \ {t}
      /\ shared' = shared + Least(smaller.freq[t], larger.freq[t])
      /\ remaining' = remaining - larger.freq[t]
      /\ UNCHANGED <<threshold, query, indexed, candidates, candidate>>
  BY DEF ScanTerm
<1>7. larger' = larger /\ smaller' = smaller /\ needed' = needed
  BY <1>6 DEF larger, smaller, needed
<1> HIDE DEF t
<1>8. /\ rest \subseteq TermsOf(larger)
      /\ shared = Cardinality(TokensOf(larger, Terms \ rest) \cap Tokens(smaller))
      /\ remaining = Cardinality(TokensOf(larger, rest))
  BY <1>1 DEF IInv, LoopInvariant
<1>9. shared' = Cardinality(TokensOf(larger, Terms \ rest') \cap Tokens(smaller))
  <2>1. Terms \ rest' = (Terms \ rest) \cup {t} /\ t \in Terms \ (Terms \ rest)
    BY <1>5, <1>6
  <2>2. Cardinality(TokensOf(larger, (Terms \ rest) \cup {t}) \cap Tokens(smaller))
          = Cardinality(TokensOf(larger, Terms \ rest) \cap Tokens(smaller))
              + Least(smaller.freq[t], larger.freq[t])
    BY <1>2, <2>1, SharedWithTerm
  <2>3. QED
    BY <1>6, <1>8, <2>1, <2>2
<1>10. remaining' = Cardinality(TokensOf(larger, rest'))
  <2>1. Cardinality(TokensOf(larger, rest))
          = Cardinality(TokensOf(larger, rest \ {t})) + larger.freq[t]
    BY <1>2, <1>4, <1>5, TokensWithout
  <2>2. Cardinality(TokensOf(larger, rest \ {t})) \in Nat
    BY <1>2, <1>4, TokensFinite
  <2>3. larger.freq[t] \in Nat
    BY <1>2, <1>5, TermsAssumption DEF IsBlock
  <2>4. QED
    BY <1>6, <1>8, <2>1, <2>2, <2>3
<1>11. /\ shared' \in Nat /\ remaining' \in Nat
       /\ shared' <= numShared(larger, smaller)
       /\ numShared(larger, smaller) <= shared' + remaining'
       /\ numShared(larger, smaller) \in Nat
  <2>1. rest' \in SUBSET Terms
    BY <1>4, <1>6
  <2>2. QED
    BY <1>2, <1>9, <1>10, <2>1, SharedBounds, SharedFinite
<1>12. rest' = {} => remaining' = 0
  <2>1. TokensOf(larger, {}) = {}
    BY DEF TokensOf
  <2>2. QED
    BY <1>10, <2>1, FS_EmptySet
<1>13. query.id >= candidate.id /\ ~ HaveCommonLine(query, candidate)
  BY <1>1 DEF IInv, Comparable
<1>15. CASE /\ shared' >= needed
            /\ clones' = clones \cup {candidate}
            /\ pc' = "next"
  <2>1. ClonePair(query, candidate, threshold)
    BY <1>2, <1>3, <1>11, <1>13, <1>15 DEF ClonePair, Similar
  <2>2. OnlyClones'
    BY <1>6, <1>15, <2>1 DEF IInv, OnlyClones
  <2>3. NoneLost'
    BY <1>1, <1>6, <1>15 DEF IInv, NoneLost, Pending
  <2>4. TypeOK'
    BY <1>1, <1>4, <1>6, <1>11, <1>15 DEF IInv, TypeOK
  <2>5. QED
    BY <1>15, <2>2, <2>3, <2>4
       DEF IInv, Comparable, LoopInvariant, NotABug, Finished
<1>16. CASE /\ shared' < needed
            /\ shared' + remaining' < needed
            /\ pc' = "next"
            /\ UNCHANGED clones
  <2>1. ~ ClonePair(query, candidate, threshold)
    BY <1>2, <1>3, <1>11, <1>16 DEF ClonePair, Similar
  <2>2. OnlyClones'
    BY <1>6, <1>16 DEF IInv, OnlyClones
  <2>3. NoneLost'
    BY <1>1, <1>6, <1>16, <2>1 DEF IInv, NoneLost, Pending
  <2>4. TypeOK'
    BY <1>1, <1>4, <1>6, <1>11, <1>16 DEF IInv, TypeOK
  <2>5. QED
    BY <1>16, <2>2, <2>3, <2>4
       DEF IInv, Comparable, LoopInvariant, NotABug, Finished
<1>17. CASE /\ shared' < needed
            /\ shared' + remaining' >= needed
            /\ pc' = IF rest' = {} THEN "bug" ELSE "scan"
            /\ UNCHANGED clones
  <2>1. rest' # {} /\ pc' = "scan"
    <3>1. ASSUME NEW x \in Nat, NEW y \in Nat, NEW k \in Nat, x < k, x + y >= k
          PROVE  y # 0
      BY <3>1
    <3>2. shared' \in Nat /\ remaining' \in Nat
      BY <1>11
    <3>3. remaining' # 0
      BY <1>3, <1>17, <3>1, <3>2
    <3>4. rest' # {}
      BY <1>12, <3>3
    <3>5. QED
      BY <1>17, <3>4
  <2>2. OnlyClones'
    BY <1>6, <1>17 DEF IInv, OnlyClones
  <2>3. NoneLost'
    BY <1>1, <1>6, <1>17, <2>1 DEF IInv, NoneLost, Pending
  <2>4. TypeOK'
    BY <1>1, <1>4, <1>6, <1>11, <1>17, <2>1 DEF IInv, TypeOK
  <2>5. Comparable'
    BY <1>1, <1>6, <1>13, <2>1 DEF Comparable
  <2>6. LoopInvariant'
    BY <1>6, <1>7, <1>8, <1>9, <1>10, <1>17 DEF LoopInvariant
  <2>7. QED
    BY <2>1, <2>2, <2>3, <2>4, <2>5, <2>6 DEF IInv, NotABug, Finished
<1>18. QED
  BY <1>15, <1>16, <1>17 DEF ScanTerm

-----------------------------------------------------------------------------
LEMMA ReturnIInv ==
  ASSUME IInv, Return
  PROVE  IInv'
<1> USE DEF Return, scanVars
<1>1. TypeOK'
  BY DEF IInv, TypeOK
<1>2. OnlyClones' /\ NoneLost'
  BY DEF IInv, OnlyClones, NoneLost, Pending
<1>3. QED
  BY <1>1, <1>2 DEF IInv, Comparable, LoopInvariant, NotABug, Finished

LEMMA StutterIInv ==
  ASSUME IInv, UNCHANGED vars
  PROVE  IInv'
<1> USE DEF vars
<1>1. TypeOK' /\ Comparable'
  BY DEF IInv, TypeOK, Comparable
<1>2. larger' = larger /\ smaller' = smaller /\ needed' = needed
  BY DEF larger, smaller, needed
<1>3. LoopInvariant'
  BY <1>2 DEF IInv, LoopInvariant
<1>4. NotABug' /\ OnlyClones' /\ NoneLost' /\ Finished'
  BY DEF IInv, NotABug, OnlyClones, NoneLost, Pending, Finished
<1>5. QED
  BY <1>1, <1>3, <1>4 DEF IInv

(* The inductive invariant.                                                *)
THEOREM Inductive == Spec => []IInv
<1>1. Init => IInv
  BY InitIInv
<1>2. IInv /\ [Next]_vars => IInv'
  <2>1. SUFFICES ASSUME IInv, [Next]_vars
                 PROVE  IInv'
    OBVIOUS
  <2>2. CASE CollectCandidates
    BY <2>1, <2>2, CollectIInv
  <2>3. ASSUME NEW c \in candidates, SkipCandidate(c) \/ ScanCandidate(c)
        PROVE  IInv'
    BY <2>1, <2>3, SkipIInv, ScanCandidateIInv
  <2>4. CASE ScanTerm
    BY <2>1, <2>4, ScanTermIInv
  <2>5. CASE Return
    BY <2>1, <2>5, ReturnIInv
  <2>6. CASE UNCHANGED vars
    BY <2>1, <2>6, StutterIInv
  <2>7. QED
    BY <2>1, <2>2, <2>3, <2>4, <2>5, <2>6 DEF Next, Terminating
<1>3. QED
  BY <1>1, <1>2, PTL DEF Spec

(* Types: detectClones takes candidates and clones from the index only, and
   sharedTokens and remainingTokens never become negative.                 *)
THEOREM TypeCorrect == Spec => []TypeOK
<1>1. IInv => TypeOK
  BY DEF IInv
<1>2. QED
  BY <1>1, Inductive, PTL

(* isClone's loop: its two counts are what they stand for in every round.  *)
THEOREM LoopCounts == Spec => []LoopInvariant
<1>1. IInv => LoopInvariant
  BY DEF IInv
<1>2. QED
  BY <1>1, Inductive, PTL

(* isClone's loop returns before it runs out of terms: the lines after it,
   with "Bug?", are dead code.                                             *)
THEOREM NeverABug == Spec => []NotABug
<1>1. IInv => NotABug
  BY DEF IInv
<1>2. QED
  BY <1>1, Inductive, PTL

(* Every block detectClones reports is a clone of the query.               *)
THEOREM ReportsOnlyClones == Spec => []OnlyClones
<1>1. IInv => OnlyClones
  BY DEF IInv
<1>2. QED
  BY <1>1, Inductive, PTL

(* Every block of the index that is a clone of the query is reported: the
   prefix filter, the size filter and the two early exits of the loop are
   exact.                                                                  *)
THEOREM ReportsAllClones == Spec => []AllClones
<1>1. IInv => AllClones
  BY DEF IInv, NoneLost, Pending, Finished, AllClones
<1>2. QED
  BY <1>1, Inductive, PTL
=============================================================================
