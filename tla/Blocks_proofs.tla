---------------------------- MODULE Blocks_proofs ----------------------------
(***************************************************************************)
(* Facts about blocks: counting tokens, and why two blocks that share      *)
(* enough tokens have a prefix term in common.                             *)
(***************************************************************************)
EXTENDS Blocks, FiniteSetTheorems, TLAPS

(* The terms have an order: each nonempty set of them has a first one.     *)
LEMMA FirstIsFirst ==
  ASSUME NEW T \in SUBSET Terms, T # {}
  PROVE  FirstOf(T) \in T /\ T \cap Before(FirstOf(T)) = {}
<1> DEFINE Ranks == {Rank[t] : t \in T}
<1>1. Ranks \in SUBSET Nat /\ Ranks # {}
  BY TermsAssumption
<1>2. PICK n \in Ranks : \A m \in Ranks : <<m, n>> \notin OpToRel(<, Nat)
  BY <1>1, NatLessThanWellFounded, WFMin
<1>3. PICK t \in T : Rank[t] = n
  BY <1>2
<1>4. \A u \in T : ~ (Rank[u] < Rank[t])
  <2>1. TAKE u \in T
  <2>2. Rank[u] \in Ranks /\ Rank[u] \in Nat /\ Rank[t] \in Nat
    BY TermsAssumption
  <2>3. QED
    BY <1>2, <1>3, <2>2 DEF OpToRel
<1>5. T \cap Before(t) = {}
  BY <1>4 DEF Before
<1>6. QED
  BY <1>3, <1>5 DEF FirstOf

(* The tokens of a block are finitely many, and so are those of some terms.*)
LEMMA TokensFinite ==
  ASSUME NEW b, IsBlock(b), NEW T \in SUBSET Terms
  PROVE  /\ IsFiniteSet(TokensOf(b, T))
         /\ Cardinality(TokensOf(b, T)) \in Nat
         /\ TokensOf(b, T) \subseteq Tokens(b)
         /\ Cardinality(TokensOf(b, T)) <= numTokens(b)
         /\ IsFiniteSet(Tokens(b))
         /\ numTokens(b) \in 0 .. MaxTokens
<1>1. IsFiniteSet(Terms) /\ IsFiniteSet(1 .. MaxTokens)
  BY TermsAssumption, FS_Interval
<1>2. IsFiniteSet(Terms \X (1 .. MaxTokens))
  BY <1>1, FS_Product
<1>3. \A t \in Terms : b.freq[t] \in 0 .. MaxTokens
  BY DEF IsBlock
<1>4. Tokens(b) \in SUBSET (Terms \X (1 .. MaxTokens))
  <2>1. \A t \in Terms : 1 .. b.freq[t] \subseteq 1 .. MaxTokens
    BY <1>3, TermsAssumption
  <2>2. QED
    BY <2>1 DEF Tokens, TokensOf
<1>5. IsFiniteSet(Tokens(b)) /\ numTokens(b) \in Nat
  BY <1>2, <1>4, FS_Subset, FS_CardinalityType DEF numTokens
<1>6. TokensOf(b, T) \in SUBSET Tokens(b)
  BY DEF Tokens, TokensOf
<1>7. IsFiniteSet(TokensOf(b, T)) /\ Cardinality(TokensOf(b, T)) <= Cardinality(Tokens(b))
  BY <1>5, <1>6, FS_Subset
<1>8. Cardinality(TokensOf(b, T)) \in Nat
  BY <1>7, FS_CardinalityType
<1>9. numTokens(b) <= MaxTokens /\ MaxTokens \in Nat
  BY TermsAssumption DEF IsBlock
<1>10. QED
  BY <1>5, <1>6, <1>7, <1>8, <1>9 DEF numTokens

(* An interval from 1 counts itself.                                       *)
LEMMA CountedFromOne ==
  ASSUME NEW n \in Nat
  PROVE  IsFiniteSet(1 .. n) /\ Cardinality(1 .. n) = n
<1>1. /\ IsFiniteSet(1 .. n)
      /\ Cardinality(1 .. n) = IF 1 > n THEN 0 ELSE n - 1 + 1
  <2>1. 1 \in Int /\ n \in Int
    OBVIOUS
  <2>2. QED
    BY ONLY <2>1, FS_Interval
<1>2. QED
  BY <1>1

(* A term with its tokens can be counted by itself.                        *)
LEMMA TokensOfOneTerm ==
  ASSUME NEW b, IsBlock(b), NEW t \in Terms
  PROVE  /\ TokensOf(b, {t}) = {t} \X (1 .. b.freq[t])
         /\ Cardinality(TokensOf(b, {t})) = b.freq[t]
<1>1. TokensOf(b, {t}) = {t} \X (1 .. b.freq[t])
  BY DEF TokensOf
<1>2. b.freq[t] \in Nat
  BY TermsAssumption DEF IsBlock
<1>3. IsFiniteSet(1 .. b.freq[t]) /\ Cardinality(1 .. b.freq[t]) = b.freq[t]
  BY <1>2, CountedFromOne
<1>4. IsFiniteSet({t}) /\ Cardinality({t}) = 1
  BY FS_Singleton
<1>5. Cardinality({t} \X (1 .. b.freq[t])) = 1 * b.freq[t]
  <2>1. PICK T, N : T = {t} /\ N = 1 .. b.freq[t]
    OBVIOUS
  <2>2. IsFiniteSet(T) /\ IsFiniteSet(N)
    BY <1>3, <1>4, <2>1
  <2>3. Cardinality(T \X N) = Cardinality(T) * Cardinality(N)
    BY ONLY <2>2, FS_Product
  <2>4. QED
    BY <1>3, <1>4, <2>1, <2>3
<1>6. 1 * b.freq[t] = b.freq[t]
  BY <1>2
<1>7. QED
  BY <1>1, <1>5, <1>6

(* The cardinality of disjoint finite sets adds up.                        *)
LEMMA DisjointUnion ==
  ASSUME NEW S, NEW T, IsFiniteSet(S), IsFiniteSet(T), S \cap T = {}
  PROVE  /\ IsFiniteSet(S \cup T)
         /\ Cardinality(S \cup T) = Cardinality(S) + Cardinality(T)
<1>1. Cardinality(S) \in Nat /\ Cardinality(T) \in Nat
  BY FS_CardinalityType
<1>2. Cardinality(S \cap T) = 0
  BY FS_EmptySet
<1>3. /\ IsFiniteSet(S \cup T)
      /\ Cardinality(S \cup T)
           = Cardinality(S) + Cardinality(T) - Cardinality(S \cap T)
  BY FS_Union
<1>4. QED
  BY <1>1, <1>2, <1>3

(* Taking a term out of a set of terms takes its tokens out.               *)
LEMMA TokensWithout ==
  ASSUME NEW b, IsBlock(b), NEW T \in SUBSET Terms, NEW t \in T
  PROVE  Cardinality(TokensOf(b, T)) = Cardinality(TokensOf(b, T \ {t})) + b.freq[t]
<1>1. TokensOf(b, T) = TokensOf(b, T \ {t}) \cup TokensOf(b, {t})
  BY DEF TokensOf
<1>2. TokensOf(b, T \ {t}) \cap TokensOf(b, {t}) = {}
  BY DEF TokensOf
<1>3. IsFiniteSet(TokensOf(b, T \ {t})) /\ IsFiniteSet(TokensOf(b, {t}))
  BY TokensFinite
<1>4. Cardinality(TokensOf(b, T \ {t}) \cup TokensOf(b, {t}))
        = Cardinality(TokensOf(b, T \ {t})) + Cardinality(TokensOf(b, {t}))
  BY <1>2, <1>3, DisjointUnion
<1>5. Cardinality(TokensOf(b, {t})) = b.freq[t]
  BY TokensOfOneTerm
<1>6. QED
  BY <1>1, <1>4, <1>5

-----------------------------------------------------------------------------
(* Sharing is symmetric.                                                   *)
LEMMA SharedFinite ==
  ASSUME NEW b, NEW c, IsBlock(b), IsBlock(c)
  PROVE  /\ IsFiniteSet(Shared(b, c))
         /\ numShared(b, c) \in Nat
         /\ numShared(b, c) <= numTokens(b)
         /\ numShared(b, c) <= numTokens(c)
         /\ Shared(b, c) = Shared(c, b)
         /\ numShared(b, c) = numShared(c, b)
<1>1. IsFiniteSet(Tokens(b)) /\ IsFiniteSet(Tokens(c))
  BY TokensFinite
<1>2. Shared(b, c) \in SUBSET Tokens(b) /\ Shared(b, c) \in SUBSET Tokens(c)
  BY DEF Shared
<1>3. IsFiniteSet(Shared(b, c))
  BY <1>1, <1>2, FS_Subset
<1>4. /\ Cardinality(Shared(b, c)) <= Cardinality(Tokens(b))
      /\ Cardinality(Shared(b, c)) <= Cardinality(Tokens(c))
  BY <1>1, <1>2, FS_Subset
<1>5. Cardinality(Shared(b, c)) \in Nat
  BY <1>3, FS_CardinalityType
<1>6. Shared(b, c) = Shared(c, b)
  BY DEF Shared
<1>7. QED
  BY <1>3, <1>4, <1>5, <1>6 DEF numShared, numTokens

(* The larger of two blocks is one of them, and none is larger.            *)
LEMMA LargerSmaller ==
  ASSUME NEW b, NEW c, IsBlock(b), IsBlock(c)
  PROVE  /\ \/ Larger(b, c) = b /\ Smaller(b, c) = c
            \/ Larger(b, c) = c /\ Smaller(b, c) = b
         /\ numTokens(b) <= numTokens(Larger(b, c))
         /\ numTokens(c) <= numTokens(Larger(b, c))
         /\ numShared(b, c) = numShared(Larger(b, c), Smaller(b, c))
<1>1. numTokens(b) \in Nat /\ numTokens(c) \in Nat
  BY TokensFinite, TermsAssumption
<1>2. numShared(b, c) = numShared(c, b)
  BY SharedFinite
<1>3. CASE numTokens(b) > numTokens(c)
  BY <1>1, <1>2, <1>3 DEF Larger, Smaller
<1>4. CASE ~ (numTokens(b) > numTokens(c))
  BY <1>1, <1>2, <1>4 DEF Larger, Smaller
<1>5. QED
  BY <1>3, <1>4

-----------------------------------------------------------------------------
(* doesOverlap's three cases are all the ways of having a common line.     *)
LEMMA OverlapIsCommonLine ==
  ASSUME NEW b, NEW c, IsBlock(b), IsBlock(c)
  PROVE  doesOverlap(b, c) <=> HaveCommonLine(b, c)
<1>1. /\ b.start \in Nat /\ b.end \in Nat /\ b.start <= b.end
      /\ c.start \in Nat /\ c.end \in Nat /\ c.start <= c.end
  BY DEF IsBlock
<1>2. ASSUME b.start <= c.end, c.start <= b.end
      PROVE  (b.start .. b.end) \cap (c.start .. c.end) # {}
  <2>1. CASE b.start <= c.start
    BY <1>1, <1>2, <2>1 
  <2>2. CASE c.start <= b.start
    BY <1>1, <1>2, <2>2
  <2>3. QED
    BY <1>1, <2>1, <2>2
<1>3. ASSUME NEW line \in (b.start .. b.end) \cap (c.start .. c.end)
      PROVE  b.start <= c.end /\ c.start <= b.end
  BY <1>1, <1>3
<1>4. HaveCommonLine(b, c)
        <=> b.file = c.file /\ b.start <= c.end /\ c.start <= b.end
  BY <1>2, <1>3 DEF HaveCommonLine
<1>5. doesOverlap(b, c)
        <=> b.file = c.file /\ b.start <= c.end /\ c.start <= b.end
  BY <1>1 DEF doesOverlap
<1>6. QED
  BY <1>4, <1>5

(* The prefix terms of a block come before its other terms: the loop that
   stops at the first term that is no prefix term misses none.             *)
LEMMA PrefixComesFirst ==
  ASSUME NEW b, IsBlock(b), NEW threshold, IsThreshold(threshold),
         NEW t \in PrefixTerms(b, threshold)
  PROVE  TermsOf(b) \cap Before(t) \subseteq PrefixTerms(b, threshold)
<1>1. SUFFICES ASSUME NEW u \in TermsOf(b) \cap Before(t)
               PROVE  u \in PrefixTerms(b, threshold)
  OBVIOUS
<1>2. t \in Terms /\ u \in Terms /\ Rank[u] < Rank[t]
  BY DEF PrefixTerms, TermsOf, Before
<1>3. Before(u) \subseteq Before(t)
  BY <1>2, TermsAssumption DEF Before
<1>4. TokensOf(b, Before(u)) \in SUBSET TokensOf(b, Before(t))
  BY <1>3 DEF TokensOf
<1>5. Before(t) \in SUBSET Terms /\ Before(u) \in SUBSET Terms
  BY DEF Before
<1>6. /\ IsFiniteSet(TokensOf(b, Before(t)))
      /\ Cardinality(TokensOf(b, Before(t))) \in Nat
      /\ Cardinality(TokensOf(b, Before(u))) \in Nat
      /\ numTokens(b) \in 0 .. MaxTokens
  BY <1>5, TokensFinite
<1>7. Cardinality(TokensOf(b, Before(u))) <= Cardinality(TokensOf(b, Before(t)))
  BY <1>4, <1>6, FS_Subset
<1>8. PrefixLength(b, threshold) \in Int
  BY <1>6, TermsAssumption DEF PrefixLength, IsThreshold
<1>9. Cardinality(TokensOf(b, Before(t))) < PrefixLength(b, threshold)
  BY DEF PrefixTerms
<1>10. Cardinality(TokensOf(b, Before(u))) < PrefixLength(b, threshold)
  BY <1>6, <1>7, <1>8, <1>9
<1>11. QED
  BY <1>10 DEF PrefixTerms

(* Of two blocks that share as many tokens as a block of their size n or
   more must, terms of which none is shared have fewer tokens than a prefix,
   whatever the order of the terms.                                        *)
LEMMA UnsharedIsShort ==
  ASSUME NEW b, IsBlock(b), NEW c, IsBlock(c),
         NEW threshold, IsThreshold(threshold),
         NEW n \in 0 .. MaxTokens, numTokens(b) <= n,
         numShared(b, c) >= threshold[n],
         NEW E \in SUBSET Terms,
         TermsOf(b) \cap TermsOf(c) \cap E = {}
  PROVE  Cardinality(TokensOf(b, E)) < PrefixLength(b, threshold)
<1> DEFINE early == TokensOf(b, E)
<1>1. /\ IsFiniteSet(early) /\ Cardinality(early) \in Nat /\ early \subseteq Tokens(b)
      /\ IsFiniteSet(Tokens(b)) /\ numTokens(b) \in 0 .. MaxTokens
  BY TokensFinite
<1>2. early \cap Shared(b, c) = {}
  <2>1. SUFFICES ASSUME NEW x \in early, x \in Shared(b, c)
                 PROVE  FALSE
    OBVIOUS
  <2>2. PICK u \in E : x \in {u} \X (1 .. b.freq[u])
    BY DEF TokensOf
  <2>3. PICK v \in Terms : x \in {v} \X (1 .. c.freq[v])
    BY <2>1 DEF Shared, Tokens, TokensOf
  <2>4. u = v /\ u \in Terms /\ x[2] \in 1 .. b.freq[u] /\ x[2] \in 1 .. c.freq[u]
    BY <2>2, <2>3
  <2>5. b.freq[u] # 0 /\ c.freq[u] # 0
    BY <2>4
  <2>6. QED
    BY <2>2, <2>4, <2>5 DEF TermsOf
<1>3. IsFiniteSet(Shared(b, c)) /\ numShared(b, c) \in Nat
  BY SharedFinite
<1>4. Cardinality(early \cup Shared(b, c)) = Cardinality(early) + numShared(b, c)
  BY <1>1, <1>2, <1>3, DisjointUnion DEF numShared
<1>5. early \cup Shared(b, c) \in SUBSET Tokens(b)
  BY <1>1 DEF Shared
<1>6. Cardinality(early \cup Shared(b, c)) <= numTokens(b)
  BY <1>1, <1>5, FS_Subset DEF numTokens
<1>7. /\ threshold[numTokens(b)] <= threshold[n]
      /\ threshold[numTokens(b)] \in Nat /\ threshold[n] \in Nat
  BY <1>1 DEF IsThreshold
<1>8. Cardinality(early) < numTokens(b) - threshold[numTokens(b)] + 1
  <2>1. numTokens(b) \in Nat
    BY <1>1, TermsAssumption
  <2>2. Cardinality(early) + numShared(b, c) <= numTokens(b)
    BY <1>4, <1>6
  <2> HIDE DEF early
  <2>3. QED
    BY <1>1, <1>3, <1>7, <2>1, <2>2
<1>9. QED
  BY <1>8 DEF PrefixLength

(* So the first shared term is a prefix term.                              *)
LEMMA FirstSharedInPrefix ==
  ASSUME NEW b, IsBlock(b), NEW c, IsBlock(c),
         NEW threshold, IsThreshold(threshold),
         NEW n \in 0 .. MaxTokens, numTokens(b) <= n,
         numShared(b, c) >= threshold[n],
         NEW t \in TermsOf(b),
         TermsOf(b) \cap TermsOf(c) \cap Before(t) = {}
  PROVE  t \in PrefixTerms(b, threshold)
<1>1. Before(t) \in SUBSET Terms
  BY DEF Before
<1>2. Cardinality(TokensOf(b, Before(t))) < PrefixLength(b, threshold)
  BY <1>1, UnsharedIsShort
<1>3. QED
  BY <1>2 DEF PrefixTerms

(* A block has tokens.                                                     *)
LEMMA BlocksHaveTokens ==
  ASSUME NEW b, IsBlock(b)
  PROVE  numTokens(b) # 0
<1>1. PICK t \in Terms : b.freq[t] # 0
  BY DEF TermsOf, IsBlock
<1>2. b.freq[t] \in Nat
  BY TermsAssumption DEF IsBlock
<1>3. <<t, 1>> \in Tokens(b)
  BY <1>1, <1>2 DEF Tokens, TokensOf
<1>4. IsFiniteSet(Tokens(b))
  BY TokensFinite
<1>5. QED
  BY <1>3, <1>4, FS_EmptySet DEF numTokens

(* Two blocks that are similar share something, if sim is not 0.           *)
LEMMA SimilarShare ==
  ASSUME NEW b, IsBlock(b), NEW c, IsBlock(c),
         NEW threshold, IsThreshold(threshold), IsPositive(threshold),
         Similar(b, c, threshold)
  PROVE  Shared(b, c) # {}
<1> DEFINE n == numTokens(Larger(b, c))
<1>1. numTokens(b) # 0
  BY BlocksHaveTokens
<1>2. n \in 1 .. MaxTokens
  <2>1. numTokens(b) <= n /\ n \in 0 .. MaxTokens /\ numTokens(b) \in 0 .. MaxTokens
    BY LargerSmaller, TokensFinite
  <2>2. QED
    BY <1>1, <2>1, TermsAssumption
<1>3. threshold[n] # 0 /\ threshold[n] \in Nat
  BY <1>2, TermsAssumption DEF IsPositive, IsThreshold
<1>4. numShared(b, c) # 0
  BY <1>3, SharedFinite DEF Similar
<1>5. QED
  BY <1>4, FS_EmptySet DEF numShared

(* Tokens are shared under a term that is.                                 *)
LEMMA SharedTerm ==
  ASSUME NEW b, NEW c, Shared(b, c) # {}
  PROVE  TermsOf(b) \cap TermsOf(c) # {}
<1>1. PICK x : x \in Shared(b, c)
  OBVIOUS
<1>2. PICK u \in Terms : x \in {u} \X (1 .. b.freq[u])
  BY <1>1 DEF Shared, Tokens, TokensOf
<1>3. PICK v \in Terms : x \in {v} \X (1 .. c.freq[v])
  BY <1>1 DEF Shared, Tokens, TokensOf
<1>4. u = v /\ x[2] \in 1 .. b.freq[u] /\ x[2] \in 1 .. c.freq[u]
  BY <1>2, <1>3
<1>5. b.freq[u] # 0 /\ c.freq[u] # 0
  BY <1>4
<1>6. QED
  BY <1>4, <1>5 DEF TermsOf

(* The prefix filter is complete: two blocks that share a token and as many
   tokens as the larger of them needs have a prefix term in common, so one
   finds the other in the index.                                           *)
THEOREM SimilarMeetInPrefix ==
  ASSUME NEW b, IsBlock(b), NEW c, IsBlock(c),
         NEW threshold, IsThreshold(threshold),
         Similar(b, c, threshold),
         Shared(b, c) # {}
  PROVE  PrefixTerms(b, threshold) \cap PrefixTerms(c, threshold) # {}
<1> DEFINE common == TermsOf(b) \cap TermsOf(c)
           n == numTokens(Larger(b, c))
<1>1. common # {}
  BY SharedTerm
<1>2. common \in SUBSET Terms
  BY DEF TermsOf
<1> DEFINE t == FirstOf(common)
<1>3. t \in common /\ common \cap Before(t) = {}
  <2> HIDE DEF common
  <2>1. QED
    BY <1>1, <1>2, FirstIsFirst
<1>4. /\ numTokens(b) <= n /\ numTokens(c) <= n
      /\ n \in 0 .. MaxTokens
  BY LargerSmaller, TokensFinite
<1>5. numShared(b, c) >= threshold[n] /\ numShared(c, b) >= threshold[n]
  BY SharedFinite DEF Similar
<1>6. t \in TermsOf(b) /\ TermsOf(b) \cap TermsOf(c) \cap Before(t) = {}
  BY <1>3
<1>7. t \in TermsOf(c) /\ TermsOf(c) \cap TermsOf(b) \cap Before(t) = {}
  BY <1>3
<1> HIDE DEF t, n
<1>8. t \in PrefixTerms(b, threshold)
  BY <1>4, <1>5, <1>6, FirstSharedInPrefix
<1>9. t \in PrefixTerms(c, threshold)
  BY <1>4, <1>5, <1>7, FirstSharedInPrefix
<1>10. QED
  BY <1>8, <1>9

(* No tokens are fewer than a prefix.                                      *)
LEMMA NothingIsShort ==
  ASSUME NEW b, IsBlock(b), NEW threshold, IsThreshold(threshold),
         NEW E \in SUBSET Terms, TermsOf(b) \cap E = {}
  PROVE  Cardinality(TokensOf(b, E)) < PrefixLength(b, threshold)
<1>1. TokensOf(b, E) = {}
  <2>1. \A u \in E : b.freq[u] = 0
    BY DEF TermsOf
  <2>2. QED
    BY <2>1 DEF TokensOf
<1>2. Cardinality(TokensOf(b, E)) = 0
  BY <1>1, FS_EmptySet
<1>3. numTokens(b) \in 0 .. MaxTokens /\ numTokens(b) \in Nat
  BY TokensFinite, TermsAssumption
<1>4. threshold[numTokens(b)] \in Nat /\ threshold[numTokens(b)] <= numTokens(b)
  BY <1>3 DEF IsThreshold
<1>5. 0 < PrefixLength(b, threshold)
  BY <1>3, <1>4 DEF PrefixLength
<1>6. QED
  BY <1>2, <1>5

(* A block has a prefix: nothing comes before its first term.              *)
LEMMA FirstInPrefix ==
  ASSUME NEW b, IsBlock(b), NEW threshold, IsThreshold(threshold)
  PROVE  PrefixTerms(b, threshold) # {}
<1> DEFINE t == FirstOf(TermsOf(b))
<1>1. t \in TermsOf(b) /\ TermsOf(b) \cap Before(t) = {}
  <2>1. TermsOf(b) \in SUBSET Terms /\ TermsOf(b) # {}
    BY DEF IsBlock, TermsOf
  <2>2. QED
    BY <2>1, FirstIsFirst
<1> HIDE DEF t
<1>2. Before(t) \in SUBSET Terms
  BY DEF Before
<1>3. Cardinality(TokensOf(b, Before(t))) < PrefixLength(b, threshold)
  BY <1>1, <1>2, NothingIsShort
<1>4. QED
  BY <1>1, <1>3 DEF PrefixTerms

-----------------------------------------------------------------------------
(* What the prefix filter promises to a pipeline, whose order of the terms
   is made of term frequencies and is no constant: whoever instantiates
   this shows that it is an order.                                         *)
THEOREM FilterIsComplete ==
  TermsAssumption =>
    \A b, c, threshold :
      IsBlock(b) /\ IsBlock(c) /\ IsThreshold(threshold) /\ IsPositive(threshold) =>
        (Similar(b, c, threshold) =>
           \E t \in PrefixTerms(b, threshold) : t \in PrefixTerms(c, threshold))
<1> SUFFICES ASSUME NEW b, IsBlock(b), NEW c, IsBlock(c), NEW threshold,
                    IsThreshold(threshold), IsPositive(threshold), Similar(b, c, threshold)
             PROVE  PrefixTerms(b, threshold) \cap PrefixTerms(c, threshold) # {}
  OBVIOUS
<1>1. QED
  BY SimilarShare, SimilarMeetInPrefix

(* ... and so that every block has a prefix.                               *)
THEOREM PrefixIsThere ==
  TermsAssumption =>
    \A b, threshold : IsBlock(b) /\ IsThreshold(threshold) => PrefixTerms(b, threshold) # {}
<1> SUFFICES ASSUME NEW b, IsBlock(b), NEW threshold, IsThreshold(threshold)
             PROVE  PrefixTerms(b, threshold) # {}
  OBVIOUS
<1>1. QED
  BY FirstInPrefix

(* The same with no word of the order of the terms, for blocks that come in
   orders of their own: similar blocks share a term, and of both, the terms
   in a set without a shared term have fewer tokens than a prefix ...      *)
THEOREM SharedComeEarly ==
  TermsAssumption =>
    \A b, c, threshold :
      IsBlock(b) /\ IsBlock(c) /\ IsThreshold(threshold) /\ IsPositive(threshold) =>
        (Similar(b, c, threshold) =>
           /\ TermsOf(b) \cap TermsOf(c) # {}
           /\ \A E \in SUBSET Terms : TermsOf(b) \cap TermsOf(c) \cap E = {} =>
                /\ Cardinality(TokensOf(b, E)) < PrefixLength(b, threshold)
                /\ Cardinality(TokensOf(c, E)) < PrefixLength(c, threshold))
<1> SUFFICES ASSUME NEW b, IsBlock(b), NEW c, IsBlock(c), NEW threshold,
                    IsThreshold(threshold), IsPositive(threshold), Similar(b, c, threshold),
                    NEW E \in SUBSET Terms
             PROVE  /\ TermsOf(b) \cap TermsOf(c) # {}
                    /\ TermsOf(b) \cap TermsOf(c) \cap E = {} =>
                         /\ Cardinality(TokensOf(b, E)) < PrefixLength(b, threshold)
                         /\ Cardinality(TokensOf(c, E)) < PrefixLength(c, threshold)
  OBVIOUS
<1> DEFINE n == numTokens(Larger(b, c))
<1>1. TermsOf(b) \cap TermsOf(c) # {}
  BY SimilarShare, SharedTerm
<1>2. numTokens(b) <= n /\ numTokens(c) <= n /\ n \in 0 .. MaxTokens
  BY LargerSmaller, TokensFinite
<1>3. numShared(b, c) >= threshold[n] /\ numShared(c, b) >= threshold[n]
  BY SharedFinite DEF Similar
<1>4. TermsOf(c) \cap TermsOf(b) = TermsOf(b) \cap TermsOf(c)
  OBVIOUS
<1> HIDE DEF n
<1>5. QED
  BY <1>1, <1>2, <1>3, <1>4, UnsharedIsShort

(* ... and a block has terms, and a set without any of them has no tokens.  *)
THEOREM NothingComesEarly ==
  TermsAssumption =>
    \A b, threshold : IsBlock(b) /\ IsThreshold(threshold) =>
      \A E \in SUBSET Terms : TermsOf(b) \cap E = {} =>
        Cardinality(TokensOf(b, E)) < PrefixLength(b, threshold)
<1>1. QED
  BY NothingIsShort

(* Nothing is similar to a block of source code that has no terms itself.  *)
THEOREM NothingIsSimilar ==
  TermsAssumption =>
    \A b, c, threshold :
      TermsOf(b) = {} /\ IsBlock(c) /\ IsThreshold(threshold) /\ IsPositive(threshold) =>
        ~ Similar(b, c, threshold)
<1> SUFFICES ASSUME NEW b, TermsOf(b) = {}, NEW c, IsBlock(c), NEW threshold,
                    IsThreshold(threshold), IsPositive(threshold), Similar(b, c, threshold)
             PROVE  FALSE
  OBVIOUS
<1>1. Tokens(b) = {}
  <2>1. \A t \in Terms : {t} \X (1 .. b.freq[t]) = {}
    <3>1. TAKE t \in Terms
    <3>2. b.freq[t] = 0
      BY DEF TermsOf
    <3>3. 1 .. 0 = {}
      OBVIOUS
    <3>4. QED
      BY <3>2, <3>3
  <2>2. QED
    BY <2>1 DEF Tokens, TokensOf
<1>2. numTokens(b) = 0 /\ numShared(b, c) = 0
  BY <1>1, FS_EmptySet DEF numTokens, numShared, Shared
<1>3. numTokens(c) \in 0 .. MaxTokens /\ numTokens(c) # 0 /\ MaxTokens \in Nat
  BY BlocksHaveTokens, TokensFinite, TermsAssumption
<1>4. Larger(b, c) = c
  BY <1>2, <1>3 DEF Larger
<1>5. threshold[numTokens(c)] \in Nat \ {0}
  BY <1>3 DEF IsThreshold, IsPositive
<1>6. QED
  BY <1>2, <1>4, <1>5 DEF Similar
=============================================================================
