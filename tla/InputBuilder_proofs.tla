-------------------------- MODULE InputBuilder_proofs --------------------------
(***************************************************************************)
(* Proofs about InputBuilder, for any files, any number of workers, queues *)
(* and groups of any size, and whatever I/O may fail.                      *)
(***************************************************************************)
EXTENDS InputBuilder, FiniteSetTheorems, WellFoundedInduction, TLAPS

(* Every set of numbers that is not empty has a least one.                 *)
LEMMA NatOrder == IsWellFoundedOn({p \in Nat \X Nat : p[1] < p[2]}, Nat)
<1>1. OpToRel(<, Nat) = {p \in Nat \X Nat : p[1] < p[2]}
  BY DEF OpToRel
<1>2. QED
  BY <1>1, NatLessThanWellFounded

LEMMA LeastNumber ==
  ASSUME NEW T, T \subseteq Nat, T # {}
  PROVE  \E n \in T : \A m \in T : n <= m
<1>1. PICK n \in T : \A m \in T : <<m, n>> \notin {p \in Nat \X Nat : p[1] < p[2]}
  BY NatOrder, WFMin
<1>2. \A m \in T : ~ (m < n)
  <2>1. SUFFICES ASSUME NEW m \in T, m < n PROVE FALSE
    OBVIOUS
  <2>2. <<m, n>> \in {p \in Nat \X Nat : p[1] < p[2]}
    BY <2>1
  <2>3. QED
    BY <1>1, <2>2
<1>3. QED
  BY <1>2

-----------------------------------------------------------------------------
(* getBlocks.  What its loop computes is proved without induction: the     *)
(* first place where it would be wrong is a contradiction.                 *)

LoopStep(f, upTo, n) ==
  IF n = 0 THEN <<>>
  ELSE IF n \in Built(f) THEN Append(upTo[n - 1], n) ELSE upTo[n - 1]

Loop(f, upTo, m) == upTo = [n \in 0 .. m |-> LoopStep(f, upTo, n)]

LEMMA LoopExists ==
  ASSUME NEW f
  PROVE  \A m \in Nat : \E upTo : Loop(f, upTo, m)
<1> DEFINE Wrong == {m \in Nat : ~ \E upTo : Loop(f, upTo, m)}
<1>1. SUFFICES ASSUME Wrong # {} PROVE FALSE
  OBVIOUS
<1>2. PICK m \in Wrong : \A k \in Wrong : m <= k
  BY <1>1, LeastNumber
<1>3. m # 0
  <2>1. Loop(f, [n \in 0 .. 0 |-> <<>>], 0)
    BY DEF Loop, LoopStep
  <2>2. QED
    BY <1>2, <2>1
<1>4. PICK g : Loop(f, g, m - 1)
  BY <1>2, <1>3
<1>5. PICK h : h = [n \in 0 .. m |-> LoopStep(f, g, n)]
  OBVIOUS
<1>6. \A n \in 0 .. m - 1 : g[n] = h[n]
  BY <1>4, <1>5 DEF Loop
<1>7. \A n \in 0 .. m : LoopStep(f, g, n) = LoopStep(f, h, n)
  BY <1>6 DEF LoopStep
<1>8. Loop(f, h, m)
  BY <1>5, <1>7 DEF Loop
<1>9. QED
  BY <1>2, <1>8

LEMMA GetBlocksLoops ==
  ASSUME NEW f, Len(f.blocks) \in Nat
  PROVE  \E upTo : /\ Loop(f, upTo, Len(f.blocks))
                   /\ GetBlocks(f) = upTo[Len(f.blocks)]
<1>1. PICK upTo : upTo = CHOOSE g : Loop(f, g, Len(f.blocks))
  OBVIOUS
<1>2. Loop(f, upTo, Len(f.blocks))
  BY <1>1, LoopExists
<1>3. GetBlocks(f) = upTo[Len(f.blocks)]
  BY <1>1 DEF GetBlocks, Loop, LoopStep
<1>4. QED
  BY <1>2, <1>3

(* A sequence of numbers that grow, and have all places of P up to n.      *)
Lists(s, P, n) ==
  /\ s \in Seq(Nat)
  /\ ToSet(s) = P \cap (1 .. n)
  /\ \A i, j \in DOMAIN s : i < j => s[i] < s[j]

LEMMA ListsNext ==
  ASSUME NEW P, NEW s, NEW n \in Nat \ {0}, Lists(s, P, n - 1)
  PROVE  Lists(IF n \in P THEN Append(s, n) ELSE s, P, n)
<1>1. CASE n \notin P
  BY <1>1 DEF Lists
<1>2. CASE n \in P
  <2>1. PICK t : t = Append(s, n)
    OBVIOUS
  <2>2. s \in Seq(Nat) /\ Len(s) \in Nat /\ DOMAIN s = 1 .. Len(s)
    BY DEF Lists
  <2>3. t \in Seq(Nat) /\ DOMAIN t = 1 .. Len(s) + 1 /\ t[Len(s) + 1] = n
    BY <2>1, <2>2
  <2>4. \A i \in 1 .. Len(s) : t[i] = s[i] /\ s[i] \in P \cap (1 .. n - 1)
    <3>1. \A i \in 1 .. Len(s) : t[i] = s[i]
      BY <2>1, <2>2
    <3>2. \A i \in 1 .. Len(s) : s[i] \in ToSet(s)
      BY <2>2 DEF ToSet
    <3>3. QED
      BY <3>1, <3>2 DEF Lists
  <2>5. ToSet(t) = ToSet(s) \cup {n}
    <3>1. 1 .. Len(s) + 1 = (1 .. Len(s)) \cup {Len(s) + 1}
      BY <2>2
    <3>2. ToSet(t) = {t[i] : i \in 1 .. Len(s)} \cup {t[Len(s) + 1]}
      BY <2>3, <3>1 DEF ToSet
    <3>3. ToSet(s) = {t[i] : i \in 1 .. Len(s)}
      BY <2>2, <2>4 DEF ToSet
    <3>4. QED
      BY <2>3, <3>2, <3>3
  <2>6. ToSet(t) = P \cap (1 .. n)
    <3>1. 1 .. n = (1 .. n - 1) \cup {n}
      OBVIOUS
    <3>2. QED
      BY <1>2, <2>5, <3>1 DEF Lists
  <2>7. \A i, j \in DOMAIN t : i < j => t[i] < t[j]
    <3>1. SUFFICES ASSUME NEW i \in 1 .. Len(s) + 1, NEW j \in 1 .. Len(s) + 1, i < j
                   PROVE  t[i] < t[j]
      BY <2>3
    <3>2. i \in 1 .. Len(s) /\ t[i] \in 1 .. n - 1
      BY <2>2, <2>4, <3>1
    <3>3. CASE j \in 1 .. Len(s)
      BY <2>2, <2>4, <3>1, <3>2, <3>3 DEF Lists
    <3>4. CASE j = Len(s) + 1
      BY <2>3, <3>2, <3>4
    <3>5. QED
      BY <2>2, <3>3, <3>4
  <2>8. QED
    BY <1>2, <2>1, <2>3, <2>6, <2>7 DEF Lists
<1>3. QED
  BY <1>1, <1>2

(* getBlocks answers the blocks that are to be built, each once and in the
   order of the file.                                                      *)
THEOREM GetBlocksLists ==
  ASSUME NEW f, f.blocks \in Seq(Fragments)
  PROVE  Lists(GetBlocks(f), Built(f), Len(f.blocks))
<1>1. Len(f.blocks) \in Nat
  OBVIOUS
<1>2. PICK m \in Nat : m = Len(f.blocks)
  BY <1>1
<1>3. PICK upTo : Loop(f, upTo, m) /\ GetBlocks(f) = upTo[m]
  BY <1>1, <1>2, GetBlocksLoops
<1>4. \A n \in 0 .. m : upTo[n] = LoopStep(f, upTo, n)
  BY <1>3 DEF Loop
<1> DEFINE Wrong == {n \in 0 .. m : ~ Lists(upTo[n], Built(f), n)}
<1>5. ASSUME Wrong # {} PROVE FALSE
  <2>1. PICK n \in Wrong : \A k \in Wrong : n <= k
    <3>1. Wrong \subseteq Nat
      OBVIOUS
    <3>2. QED
      BY <1>5, <3>1, LeastNumber
  <2>2. n # 0
    <3>1. Lists(<<>>, Built(f), 0)
      BY DEF Lists, ToSet
    <3>2. upTo[0] = <<>>
      BY <1>4 DEF LoopStep
    <3>3. ~ Lists(upTo[n], Built(f), n)
      BY <2>1
    <3>4. QED
      BY <3>1, <3>2, <3>3
  <2>3. n \in Nat \ {0} /\ n - 1 \in 0 .. m /\ n \in 0 .. m
    BY <2>1, <2>2
  <2>4. Lists(upTo[n - 1], Built(f), n - 1)
    BY <2>1, <2>3
  <2>5. upTo[n] = IF n \in Built(f) THEN Append(upTo[n - 1], n) ELSE upTo[n - 1]
    BY <1>4, <2>3 DEF LoopStep
  <2>6. Lists(upTo[n], Built(f), n)
    BY <2>3, <2>4, <2>5, ListsNext
  <2>7. QED
    BY <2>1, <2>6
<1>6. m \in 0 .. m
  OBVIOUS
<1>7. QED
  BY <1>2, <1>3, <1>5, <1>6

LEMMA BuiltBlocks ==
  ASSUME NEW f, f.blocks \in Seq(Fragments)
  PROVE  /\ GetBlocks(f) \in Seq(Built(f))
         /\ ToSet(GetBlocks(f)) = Built(f)
         /\ \A i, j \in DOMAIN GetBlocks(f) : i < j => GetBlocks(f)[i] < GetBlocks(f)[j]
<1>1. Lists(GetBlocks(f), Built(f), Len(f.blocks))
  BY GetBlocksLists
<1>2. Built(f) \subseteq 1 .. Len(f.blocks)
  BY DEF Built
<1>3. ToSet(GetBlocks(f)) = Built(f)
  BY <1>1, <1>2 DEF Lists
<1>4. GetBlocks(f) \in Seq(Built(f))
  BY <1>1, <1>3 DEF Lists, ToSet
<1>5. QED
  BY <1>1, <1>3, <1>4 DEF Lists

-----------------------------------------------------------------------------
(* Sequences and the sets of their elements.                               *)

LEMMA SetOfAppend ==
  ASSUME NEW S, NEW s \in Seq(S), NEW x
  PROVE  ToSet(Append(s, x)) = ToSet(s) \cup {x}
<1>1. PICK t : t = Append(s, x)
  OBVIOUS
<1>2. Len(s) \in Nat /\ DOMAIN s = 1 .. Len(s) /\ DOMAIN t = (1 .. Len(s)) \cup {Len(s) + 1}
  BY <1>1
<1>3. t[Len(s) + 1] = x /\ \A i \in 1 .. Len(s) : t[i] = s[i]
  BY <1>1
<1>4. ToSet(t) = {t[i] : i \in 1 .. Len(s)} \cup {t[Len(s) + 1]}
  BY <1>2 DEF ToSet
<1>5. ToSet(s) = {t[i] : i \in 1 .. Len(s)}
  BY <1>2, <1>3 DEF ToSet
<1>6. QED
  BY <1>1, <1>3, <1>4, <1>5

LEMMA SetOfTail ==
  ASSUME NEW S, NEW s \in Seq(S), s # <<>>
  PROVE  /\ Head(s) \in ToSet(s) /\ Head(s) \in S
         /\ Tail(s) \in Seq(S) /\ Len(Tail(s)) = Len(s) - 1 /\ Len(s) \in Nat \ {0}
         /\ \A i \in DOMAIN Tail(s) : i + 1 \in DOMAIN s /\ Tail(s)[i] = s[i + 1]
         /\ ToSet(s) = {Head(s)} \cup ToSet(Tail(s))
<1>1. PICK t : t = Tail(s)
  OBVIOUS
<1>2. Len(s) \in Nat \ {0} /\ DOMAIN s = {1} \cup (2 .. Len(s)) /\ DOMAIN t = 1 .. Len(s) - 1
  <2>1. Len(s) \in Nat \ {0} /\ DOMAIN s = 1 .. Len(s)
    OBVIOUS
  <2>2. 1 .. Len(s) = {1} \cup (2 .. Len(s))
    BY <2>1
  <2>3. DOMAIN t = 1 .. Len(s) - 1
    BY <1>1
  <2>4. QED
    BY <2>1, <2>2, <2>3
<1>3. Head(s) = s[1] /\ \A i \in 1 .. Len(s) - 1 : t[i] = s[i + 1]
  BY <1>1
<1>4. ToSet(s) = {s[1]} \cup {s[i] : i \in 2 .. Len(s)}
  BY <1>2 DEF ToSet
<1>5. {s[i] : i \in 2 .. Len(s)} = {t[i] : i \in 1 .. Len(s) - 1}
  <2>1. \A i \in 2 .. Len(s) : i - 1 \in 1 .. Len(s) - 1 /\ s[i] = t[i - 1]
    BY <1>2, <1>3
  <2>2. \A i \in 1 .. Len(s) - 1 : i + 1 \in 2 .. Len(s) /\ t[i] = s[i + 1]
    BY <1>2, <1>3
  <2>3. QED
    BY <2>1, <2>2
<1>6. ToSet(s) = {Head(s)} \cup ToSet(t)
  BY <1>2, <1>3, <1>4, <1>5 DEF ToSet
<1>7. \A i \in DOMAIN t : i + 1 \in DOMAIN s /\ t[i] = s[i + 1]
  BY <1>2, <1>3
<1>8. t \in Seq(S) /\ Len(t) = Len(s) - 1 /\ Head(s) \in S
  BY <1>1
<1>9. QED
  BY <1>1, <1>2, <1>6, <1>7, <1>8

LEMMA SetOfPrefix ==
  ASSUME NEW S, NEW s \in Seq(S), NEW n \in 0 .. Len(s)
  PROVE  /\ SubSeq(s, 1, n) \in Seq(S)
         /\ DOMAIN SubSeq(s, 1, n) = 1 .. n
         /\ \A i \in 1 .. n : i \in DOMAIN s /\ SubSeq(s, 1, n)[i] = s[i]
         /\ ToSet(SubSeq(s, 1, n)) \subseteq ToSet(s)
<1>1. PICK t : t = SubSeq(s, 1, n)
  OBVIOUS
<1>2. t \in Seq(S) /\ DOMAIN t = 1 .. n /\ \A i \in 1 .. n : i \in DOMAIN s /\ t[i] = s[i]
  BY <1>1
<1>3. ToSet(t) \subseteq ToSet(s)
  BY <1>2 DEF ToSet
<1>4. QED
  BY <1>1, <1>2, <1>3

LEMMA EmptySet == ToSet(<<>>) = {}
  BY DEF ToSet

-----------------------------------------------------------------------------
(* The types, and how far the threads have come.                           *)

(* How far the main thread has come tells how many poisons there are and
   which threads have come to their end.                                   *)
MainProgress ==
  /\ main = "join producer" => filePoison = [left |-> Cardinality(Workers), there |-> 0]
  /\ main = "poison files" => filePoison.left > 0
  /\ filePoison.left + filePoison.there <= Cardinality(Workers)
  /\ main # "join producer" => producer \in {"ended", "failed"}
  /\ main \in {"poison blocks", "join writer", "done", "unclosed"} => \A w \in Workers : Terminated(w)

ThreadProgress ==
  /\ producer = "put" => fileids # <<>>
  /\ producer = "ended" => visited = Len(listing)
  /\ \A w \in Workers : worker[w].pc # "put" => worker[w].todo = <<>>
  /\ \A w \in Workers : worker[w].pc = "ended" => main # "join producer"
  /\ writer = "ended" => \A w \in Workers : blockQueue[w] = <<>> /\ Terminated(w)

Recorded == ToSet(fileids) = {i \in 1 .. visited : Accepted(listing[i])}

Progress == listing \in Listings /\ MainProgress /\ ThreadProgress /\ Recorded

Many == Cardinality(Workers)

LEMMA ManyWorkers == Many \in Nat /\ Many # 0
  BY InputAssumption, FS_CardinalityType, FS_EmptySet DEF Many

LEMMA Numbers ==
  ASSUME TypeOK
  PROVE  /\ Len(fileids) \in Nat /\ DOMAIN fileids = 1 .. Len(fileids)
         /\ \A id \in Ids : id \in Nat /\ id + 1 \in DOMAIN fileids
         /\ filePoison.left \in 0 .. Many /\ filePoison.there \in 0 .. Many
         /\ FileCapacity \in Nat \ {0} /\ GroupSize \in Nat \ {0}
         /\ \A w \in Workers : /\ worker[w].todo \in Seq(AllOutputs)
                               /\ blockQueue[w] \in Seq(AllOutputs)
<1>1. Len(fileids) \in Nat /\ DOMAIN fileids = 1 .. Len(fileids)
  <2>1. fileids \in Seq(DOMAIN listing)
    BY DEF TypeOK
  <2>2. QED
    BY <2>1
<1>2. \A id \in Ids : id \in Nat /\ id + 1 \in DOMAIN fileids
  BY <1>1 DEF Ids
<1>3. filePoison.left \in 0 .. Many /\ filePoison.there \in 0 .. Many
  BY DEF TypeOK, Many
<1>4. FileCapacity \in Nat \ {0} /\ GroupSize \in Nat \ {0}
  BY InputAssumption
<1>5. \A w \in Workers : /\ worker[w].todo \in Seq(AllOutputs)
                         /\ blockQueue[w] \in Seq(AllOutputs)
  BY DEF TypeOK
<1>6. QED
  BY <1>1, <1>2, <1>3, <1>4, <1>5

LEMMA ListingType ==
  ASSUME TypeOK, Progress
  PROVE  /\ listing \in Seq(Sources) /\ Len(listing) \in Nat
         /\ DOMAIN listing = 1 .. Len(listing) /\ visited \in 0 .. Len(listing)
         /\ \A id \in Ids : File(id).blocks \in Seq(Fragments)
<1>1. listing \in Seq(Sources)
  BY InputAssumption DEF Progress
<1>2. \A id \in Ids : fileids[id + 1] \in DOMAIN listing
  <2>1. fileids \in Seq(DOMAIN listing)
    BY DEF TypeOK
  <2>2. \A i \in DOMAIN fileids : fileids[i] \in DOMAIN listing
    BY <2>1
  <2>3. QED
    BY <2>2, Numbers
<1>3. \A id \in Ids : File(id) \in Sources
  BY <1>1, <1>2 DEF File
<1>4. \A id \in Ids : File(id).blocks \in Seq(Fragments)
  BY <1>3 DEF Sources
<1>5. Len(listing) \in Nat /\ DOMAIN listing = 1 .. Len(listing)
  BY <1>1
<1>6. visited \in 0 .. Len(listing)
  BY DEF TypeOK
<1>7. QED
  BY <1>1, <1>4, <1>5, <1>6

(* What the worker that takes a file has to put.                           *)
Taken(id) ==
  [j \in DOMAIN GetBlocks(File(id)) |-> [file |-> id, block |-> GetBlocks(File(id))[j]]]

LEMMA TakenBlocks ==
  ASSUME TypeOK, Progress, NEW id \in Ids
  PROVE  /\ Taken(id) \in Seq(AllOutputs)
         /\ ToSet(Taken(id)) = Outputs(id)
         /\ \A j \in DOMAIN Taken(id) : Taken(id)[j].file = id
         /\ \A i, j \in DOMAIN Taken(id) : i < j => Taken(id)[i].block < Taken(id)[j].block
<1>1. PICK f : f = File(id)
  OBVIOUS
<1>2. PICK s : s = GetBlocks(f)
  OBVIOUS
<1>3. f.blocks \in Seq(Fragments)
  BY <1>1, ListingType
<1>4. s \in Seq(Built(f)) /\ ToSet(s) = Built(f) /\ \A i, j \in DOMAIN s : i < j => s[i] < s[j]
  BY <1>2, <1>3, BuiltBlocks
<1>5. PICK t : t = [j \in DOMAIN s |-> [file |-> id, block |-> s[j]]]
  OBVIOUS
<1>6. t = Taken(id)
  BY <1>1, <1>2, <1>5 DEF Taken
<1>7. DOMAIN t = DOMAIN s /\ \A j \in DOMAIN s : t[j].file = id /\ t[j].block = s[j]
  BY <1>5
<1>8. ToSet(t) = Outputs(id)
  <2>1. ToSet(t) = {[file |-> id, block |-> s[j]] : j \in DOMAIN s}
    BY <1>5 DEF ToSet
  <2>2. Built(f) = {s[j] : j \in DOMAIN s}
    BY <1>4 DEF ToSet
  <2>3. QED
    BY <1>1, <2>1, <2>2 DEF Outputs
<1>9. Outputs(id) \subseteq AllOutputs
  BY DEF AllOutputs
<1>10. t \in Seq(AllOutputs)
  <2>1. Len(s) \in Nat /\ DOMAIN s = 1 .. Len(s)
    BY <1>4
  <2>2. \A j \in 1 .. Len(s) : t[j] \in AllOutputs
    BY <1>7, <1>8, <1>9, <2>1 DEF ToSet
  <2>3. QED
    BY <1>5, <2>1, <2>2
<1>11. QED
  BY <1>4, <1>6, <1>7, <1>8, <1>10

LEMMA ProgressInit == Init => TypeOK /\ Progress
<1> SUFFICES ASSUME Init PROVE TypeOK /\ Progress
  OBVIOUS
<1>1. listing \in Seq(Sources)
  BY InputAssumption DEF Init
<1>2. Taking \in [pc : {"take", "put", "ended", "dead"}, todo : Seq(AllOutputs)]
  BY DEF Taking
<1>3. filePoison \in [left : 0 .. Many, there : 0 .. Many]
        /\ filePoison.left + filePoison.there <= Many
  <2>1. filePoison = [left |-> Many, there |-> 0]
    BY DEF Init, Many
  <2>2. filePoison.left = Many /\ filePoison.there = 0
    BY <2>1
  <2>3. QED
    BY <2>1, <2>2, ManyWorkers
<1>4. TypeOK
  <2>1. visited \in 0 .. Len(listing) /\ fileids \in Seq(DOMAIN listing) /\ fileQueue \subseteq Ids
    <3>1. visited = 0 /\ fileids = <<>> /\ fileQueue = {}
      BY DEF Init
    <3>2. Len(listing) \in Nat
      BY <1>1
    <3>3. QED
      BY <3>1, <3>2
  <2>2. worker \in [Workers -> [pc : {"take", "put", "ended", "dead"}, todo : Seq(AllOutputs)]]
    BY <1>2 DEF Init
  <2>3. blockQueue \in [Workers -> Seq(AllOutputs)] /\ written \in Seq(AllOutputs)
    <3>1. blockQueue = [w \in Workers |-> <<>>] /\ written = <<>>
      BY DEF Init
    <3>2. <<>> \in Seq(AllOutputs)
      OBVIOUS
    <3>3. QED
      BY <3>1, <3>2
  <2>4. QED
    BY <1>3, <2>1, <2>2, <2>3 DEF Init, TypeOK, Many
<1>5. Recorded
  <2>1. ToSet(fileids) = {}
    BY EmptySet DEF Init
  <2>2. 1 .. visited = {}
    <3>1. visited = 0
      BY DEF Init
    <3>2. QED
      BY <3>1
  <2>3. QED
    BY <2>1, <2>2 DEF Recorded
<1>6. Progress
  BY <1>3, <1>5 DEF Init, Progress, MainProgress, ThreadProgress, Taking, Many
<1>7. QED
  BY <1>4, <1>6

(* As long as no file is recorded, the files are the same.                 *)
LEMMA FilesSame ==
  ASSUME UNCHANGED <<listing, fileids>>
  PROVE  /\ Ids' = Ids /\ AllOutputs' = AllOutputs
         /\ \A id : File(id)' = File(id) /\ Outputs(id)' = Outputs(id)
<1>1. Ids' = Ids /\ \A id : File(id)' = File(id)
  BY DEF Ids, File
<1>2. \A id : Outputs(id)' = Outputs(id)
  BY <1>1 DEF Outputs
<1>3. QED
  BY <1>1, <1>2 DEF AllOutputs

(* ... and then there is one more.                                         *)
LEMMA FilesMore ==
  ASSUME TypeOK, Record
  PROVE  /\ Len(fileids') = Len(fileids) + 1
         /\ Ids' = Ids \cup {Len(fileids)} /\ AllOutputs \subseteq AllOutputs'
         /\ \A id \in Ids : File(id)' = File(id) /\ Outputs(id)' = Outputs(id)
<1>1. fileids \in Seq(DOMAIN listing) /\ fileids' = Append(fileids, visited + 1) /\ listing' = listing
  BY DEF TypeOK, Record
<1>2. Len(fileids') = Len(fileids) + 1 /\ Len(fileids) \in Nat
  BY <1>1
<1>3. \A i \in 1 .. Len(fileids) : fileids'[i] = fileids[i]
  BY <1>1
<1>4. Ids' = Ids \cup {Len(fileids)}
  BY <1>2 DEF Ids
<1>5. \A id \in Ids : id + 1 \in 1 .. Len(fileids)
  BY Numbers
<1>6. \A id \in Ids : File(id)' = File(id)
  BY <1>1, <1>3, <1>5 DEF File
<1>7. \A id \in Ids : Outputs(id)' = Outputs(id)
  BY <1>6 DEF Outputs
<1>8. AllOutputs \subseteq AllOutputs'
  BY <1>4, <1>7 DEF AllOutputs
<1>9. QED
  BY <1>2, <1>4, <1>6, <1>7, <1>8

Threads == [pc : {"take", "put", "ended", "dead"}, todo : Seq(AllOutputs)]

(* What is left to show when no file is recorded.                          *)
LEMMA TypeSame ==
  ASSUME TypeOK, UNCHANGED <<listing, fileids>>,
         main' \in {"join producer", "poison files", "join workers", "poison blocks",
                    "join writer", "done", "unclosed"},
         producer' \in {"next", "put", "ended", "failed"},
         visited' \in 0 .. Len(listing),
         fileQueue' \subseteq Ids,
         filePoison' \in [left : 0 .. Many, there : 0 .. Many],
         worker' \in [Workers -> Threads],
         blockQueue' \in [Workers -> Seq(AllOutputs)],
         writer' \in {"take", "ended", "failed"},
         written' \in Seq(AllOutputs)
  PROVE  TypeOK'
<1>1. Ids' = Ids /\ AllOutputs' = AllOutputs
  BY FilesSame
<1>2. fileids' \in Seq(DOMAIN listing')
  BY DEF TypeOK
<1>3. worker' \in [Workers -> [pc : {"take", "put", "ended", "dead"}, todo : Seq(AllOutputs')]]
  BY <1>1 DEF Threads
<1>4. QED
  BY <1>1, <1>2, <1>3 DEF TypeOK, Many

LEMMA TypeFacts ==
  ASSUME TypeOK
  PROVE  /\ main \in {"join producer", "poison files", "join workers", "poison blocks",
                      "join writer", "done", "unclosed"}
         /\ producer \in {"next", "put", "ended", "failed"}
         /\ visited \in 0 .. Len(listing)
         /\ fileQueue \subseteq Ids
         /\ filePoison \in [left : 0 .. Many, there : 0 .. Many]
         /\ worker \in [Workers -> Threads]
         /\ blockQueue \in [Workers -> Seq(AllOutputs)]
         /\ writer \in {"take", "ended", "failed"}
         /\ written \in Seq(AllOutputs)
  BY DEF TypeOK, Many, Threads

LEMMA TypeMain ==
  ASSUME TypeOK, Progress, Main \/ FinishFails
  PROVE  TypeOK'
<1> USE DEF producerVars
<1>1. UNCHANGED <<listing, producer, visited, fileids, fileQueue, worker, blockQueue, writer, written>>
  BY DEF Main, JoinProducer, PoisonFiles, JoinWorkers, PoisonBlocks, Finish, FinishFails
<1>2. CASE PoisonFiles
  <2>1. /\ filePoison.left \in 0 .. Many /\ filePoison.there \in 0 .. Many
        /\ filePoison.left > 0 /\ filePoison.left + filePoison.there <= Many
    BY <1>2, Numbers DEF PoisonFiles, Progress, MainProgress, Many
  <2>2. filePoison' = [left |-> filePoison.left - 1, there |-> filePoison.there + 1]
    BY <1>2 DEF PoisonFiles
  <2>3. filePoison.left - 1 \in 0 .. Many /\ filePoison.there + 1 \in 0 .. Many
    BY <2>1, ManyWorkers
  <2>4. filePoison' \in [left : 0 .. Many, there : 0 .. Many]
    BY <2>2, <2>3
  <2>5. main' \in {"poison files", "join workers"}
    BY <1>2 DEF PoisonFiles
  <2>6. QED
    BY <1>1, <2>4, <2>5, TypeSame, TypeFacts
<1>3. CASE JoinProducer \/ JoinWorkers \/ PoisonBlocks \/ Finish \/ FinishFails
  <2>1. /\ main' \in {"poison files", "poison blocks", "join writer", "done", "unclosed"}
        /\ filePoison' = filePoison
    BY <1>3 DEF JoinProducer, JoinWorkers, PoisonBlocks, Finish, FinishFails
  <2>2. QED
    BY <1>1, <2>1, TypeSame, TypeFacts
<1>4. QED
  BY <1>2, <1>3 DEF Main

LEMMA TypeProducer ==
  ASSUME TypeOK, Progress, Producer \/ ReadFails
  PROVE  TypeOK'
<1> USE DEF producerVars
<1>1. UNCHANGED <<listing, main, filePoison, worker, blockQueue, writer, written>>
  BY DEF Producer, SkipFile, Record, PutFile, ReadFails, ProducerEnds
<1>2. AtFile => visited + 1 \in 0 .. Len(listing) /\ visited + 1 \in DOMAIN listing
  BY ListingType DEF AtFile
<1>3. CASE SkipFile
  <2>1. visited' \in 0 .. Len(listing) /\ UNCHANGED <<producer, fileids, fileQueue>>
    BY <1>2, <1>3 DEF SkipFile
  <2>2. QED
    BY <1>1, <2>1, TypeSame, TypeFacts
<1>4. CASE Record
  <2>1. /\ visited + 1 \in DOMAIN listing /\ visited' = visited + 1
        /\ fileids' = Append(fileids, visited + 1) /\ producer' = "put"
        /\ fileQueue' = fileQueue
    BY <1>2, <1>4 DEF Record
  <2>2. fileids' \in Seq(DOMAIN listing)
    <3>1. fileids \in Seq(DOMAIN listing)
      BY DEF TypeOK
    <3>2. QED
      BY <2>1, <3>1
  <2>3. Ids \subseteq Ids' /\ AllOutputs \subseteq AllOutputs'
    BY <1>4, FilesMore
  <2>4. Seq(AllOutputs) \subseteq Seq(AllOutputs')
    BY <2>3
  <2>5. fileQueue' \subseteq Ids'
    BY <2>1, <2>3, TypeFacts
  <2>6. worker' \in [Workers -> [pc : {"take", "put", "ended", "dead"}, todo : Seq(AllOutputs')]]
    BY <1>1, <2>4, TypeFacts DEF Threads
  <2>7. blockQueue' \in [Workers -> Seq(AllOutputs')] /\ written' \in Seq(AllOutputs')
    BY <1>1, <2>4, TypeFacts
  <2>8. visited' \in 0 .. Len(listing)
    BY <1>2, <1>4, <2>1 DEF Record
  <2>9. QED
    BY <1>1, <2>1, <2>2, <2>5, <2>6, <2>7, <2>8 DEF TypeOK
<1>5. CASE PutFile
  <2>1. /\ fileQueue' = fileQueue \cup {Len(fileids) - 1} /\ producer' = "next"
        /\ UNCHANGED <<visited, fileids>>
    BY <1>5 DEF PutFile
  <2>2. Len(fileids) - 1 \in Ids
    <3>1. fileids # <<>>
      BY <1>5 DEF PutFile, Progress, ThreadProgress
    <3>2. fileids \in Seq(DOMAIN listing)
      BY DEF TypeOK
    <3>3. Len(fileids) \in Nat /\ Len(fileids) # 0
      BY <3>1, <3>2
    <3>4. QED
      BY <3>3 DEF Ids
  <2>3. fileQueue' \subseteq Ids
    BY <2>1, <2>2, TypeFacts
  <2>4. QED
    BY <1>1, <2>1, <2>3, TypeSame, TypeFacts
<1>6. CASE ReadFails \/ ProducerEnds
  <2>1. /\ fileQueue' \subseteq fileQueue /\ producer' \in {"ended", "failed"}
        /\ UNCHANGED <<visited, fileids>>
    BY <1>6 DEF ReadFails, ProducerEnds
  <2>2. fileQueue' \subseteq Ids
    BY <2>1, TypeFacts
  <2>3. QED
    BY <1>1, <2>1, <2>2, TypeSame, TypeFacts
<1>7. QED
  BY <1>3, <1>4, <1>5, <1>6 DEF Producer

(* A thread is what it was but for what its step changes, and so is what it
   has put.                                                                *)
LEMMA WorkerMoves ==
  ASSUME TypeOK, NEW w \in Workers, NEW t \in Threads, worker' = [worker EXCEPT ![w] = t]
  PROVE  /\ worker' \in [Workers -> Threads]
         /\ worker'[w] = t
         /\ \A v \in Workers : v # w => worker'[v] = worker[v]
<1>1. worker \in [Workers -> Threads]
  BY TypeFacts
<1>2. QED
  BY <1>1

LEMMA QueueMoves ==
  ASSUME TypeOK, NEW w \in Workers, NEW q \in Seq(AllOutputs),
         blockQueue' = [blockQueue EXCEPT ![w] = q]
  PROVE  /\ blockQueue' \in [Workers -> Seq(AllOutputs)]
         /\ blockQueue'[w] = q
         /\ \A v \in Workers : v # w => blockQueue'[v] = blockQueue[v]
<1>1. blockQueue \in [Workers -> Seq(AllOutputs)]
  BY TypeFacts
<1>2. QED
  BY <1>1

LEMMA TakeFileShape ==
  ASSUME TypeOK, Progress, NEW w \in Workers, TakeFile(w)
  PROVE  \E id \in fileQueue :
           /\ id \in Ids
           /\ fileQueue' = fileQueue \ {id}
           /\ worker[w].pc = "take"
           /\ worker' \in [Workers -> Threads]
           /\ worker'[w] = IF Skipped(File(id)) THEN Taking
                           ELSE [pc |-> "put", todo |-> Taken(id)]
           /\ \A v \in Workers : v # w => worker'[v] = worker[v]
<1>1. PICK id \in fileQueue :
        /\ fileQueue' = fileQueue \ {id}
        /\ worker' = [worker EXCEPT ![w] = IF Skipped(File(id)) THEN Taking
                                           ELSE [pc |-> "put", todo |-> Taken(id)]]
  BY DEF TakeFile, Taken
<1>2. id \in Ids
  BY TypeFacts
<1>3. worker[w] \in Threads
  BY TypeFacts
<1>4. Taken(id) \in Seq(AllOutputs)
  BY <1>2, TakenBlocks
<1>5. PICK t : t = IF Skipped(File(id)) THEN Taking ELSE [pc |-> "put", todo |-> Taken(id)]
  OBVIOUS
<1>6. t \in Threads
  BY <1>4, <1>5 DEF Threads, Taking
<1>7. worker' = [worker EXCEPT ![w] = t]
  BY <1>1, <1>5
<1>8. /\ worker' \in [Workers -> Threads] /\ worker'[w] = t
      /\ \A v \in Workers : v # w => worker'[v] = worker[v]
  BY <1>6, <1>7, WorkerMoves
<1>9. worker[w].pc = "take"
  BY DEF TakeFile
<1>10. QED
  BY <1>1, <1>2, <1>5, <1>8, <1>9

LEMMA PutBlockShape ==
  ASSUME TypeOK, Progress, NEW w \in Workers, PutBlock(w)
  PROVE  /\ worker[w].pc = "put" /\ worker[w].todo # <<>> /\ worker[w].todo \in Seq(AllOutputs)
         /\ worker' \in [Workers -> Threads]
         /\ worker'[w] = [pc |-> "put", todo |-> Tail(worker[w].todo)]
         /\ \A v \in Workers : v # w => worker'[v] = worker[v]
         /\ blockQueue' \in [Workers -> Seq(AllOutputs)]
         /\ blockQueue'[w] = Append(blockQueue[w], Head(worker[w].todo))
         /\ \A v \in Workers : v # w => blockQueue'[v] = blockQueue[v]
<1>1. worker[w] \in Threads /\ worker \in [Workers -> Threads]
  BY TypeFacts
<1>2. worker[w].pc = "put" /\ worker[w].todo # <<>>
  BY DEF PutBlock
<1>3. worker[w].todo \in Seq(AllOutputs) /\ blockQueue[w] \in Seq(AllOutputs)
  BY Numbers
<1>4. Tail(worker[w].todo) \in Seq(AllOutputs) /\ Head(worker[w].todo) \in AllOutputs
  BY <1>2, <1>3, SetOfTail
<1>5. PICK t : t = [pc |-> "put", todo |-> Tail(worker[w].todo)]
  OBVIOUS
<1>6. t \in Threads
  BY <1>4, <1>5 DEF Threads
<1>7. worker' = [worker EXCEPT ![w] = t]
  <2>1. worker' = [worker EXCEPT ![w].todo = Tail(worker[w].todo)]
    BY DEF PutBlock
  <2>2. [worker[w] EXCEPT !.todo = Tail(worker[w].todo)] = t
    <3>1. [worker[w] EXCEPT !.todo = Tail(worker[w].todo)] \in Threads
      BY <1>1, <1>4 DEF Threads
    <3>2. PICK u : u = [worker[w] EXCEPT !.todo = Tail(worker[w].todo)]
      OBVIOUS
    <3>3. u.pc = "put" /\ u.todo = Tail(worker[w].todo)
      BY <1>1, <1>2, <3>2 DEF Threads
    <3>4. t.pc = "put" /\ t.todo = Tail(worker[w].todo)
      BY <1>5
    <3>5. \A r, q \in Threads : r.pc = q.pc /\ r.todo = q.todo => r = q
      BY DEF Threads
    <3>6. QED
      BY <1>6, <3>1, <3>2, <3>3, <3>4, <3>5
  <2>3. QED
    BY <2>1, <2>2
<1>8. PICK q : q = Append(blockQueue[w], Head(worker[w].todo))
  OBVIOUS
<1>9. q \in Seq(AllOutputs)
  BY <1>3, <1>4, <1>8
<1>10. blockQueue' = [blockQueue EXCEPT ![w] = q]
  BY <1>8 DEF PutBlock
<1>11. /\ worker' \in [Workers -> Threads] /\ worker'[w] = t
       /\ \A v \in Workers : v # w => worker'[v] = worker[v]
  BY <1>6, <1>7, WorkerMoves
<1>12. /\ blockQueue' \in [Workers -> Seq(AllOutputs)] /\ blockQueue'[w] = q
       /\ \A v \in Workers : v # w => blockQueue'[v] = blockQueue[v]
  BY <1>9, <1>10, QueueMoves
<1>13. QED
  BY <1>2, <1>3, <1>5, <1>8, <1>11, <1>12

LEMMA IdleShape ==
  ASSUME TypeOK, Progress, NEW w \in Workers, NextFile(w) \/ WorkerEnds(w)
  PROVE  /\ worker[w].todo = <<>> /\ worker[w].pc \in {"take", "put"}
         /\ worker' \in [Workers -> Threads]
         /\ worker'[w] = IF NextFile(w) THEN Taking ELSE Ended
         /\ \A v \in Workers : v # w => worker'[v] = worker[v]
<1>1. PICK t : t = IF NextFile(w) THEN Taking ELSE Ended
  OBVIOUS
<1>2. t \in Threads
  BY <1>1 DEF Threads, Taking, Ended
<1>3. worker' = [worker EXCEPT ![w] = t]
  BY <1>1 DEF NextFile, WorkerEnds
<1>4. worker[w].todo = <<>> /\ worker[w].pc \in {"take", "put"}
  BY DEF NextFile, WorkerEnds, Progress, ThreadProgress
<1>5. QED
  BY <1>1, <1>2, <1>3, <1>4, WorkerMoves

LEMMA DiesShape ==
  ASSUME TypeOK, Progress, NEW w \in Workers, WorkerDies(w)
  PROVE  /\ worker[w].todo = <<>> /\ worker[w].pc = "take"
         /\ worker' \in [Workers -> Threads]
         /\ worker'[w] = Dead
         /\ \A v \in Workers : v # w => worker'[v] = worker[v]
         /\ \E id \in fileQueue, heldBack \in SUBSET fileQueue :
              /\ id \notin heldBack /\ Cardinality(heldBack) < GroupSize
              /\ fileQueue' = fileQueue \ ({id} \cup heldBack)
         /\ \E n \in 0 .. Len(blockQueue[w]) :
              /\ n + GroupSize >= Len(blockQueue[w])
              /\ blockQueue' \in [Workers -> Seq(AllOutputs)]
              /\ blockQueue'[w] = SubSeq(blockQueue[w], 1, n)
              /\ \A v \in Workers : v # w => blockQueue'[v] = blockQueue[v]
<1>1. PICK id \in fileQueue, heldBack \in SUBSET fileQueue,
           buffered \in 0 .. Len(blockQueue[w]) :
        /\ id \notin heldBack
        /\ Cardinality(heldBack) < GroupSize /\ buffered <= GroupSize
        /\ fileQueue' = fileQueue \ ({id} \cup heldBack)
        /\ blockQueue' = [blockQueue EXCEPT
                            ![w] = SubSeq(blockQueue[w], 1, Len(blockQueue[w]) - buffered)]
  BY DEF WorkerDies
<1>2. worker[w].pc = "take" /\ worker[w].todo = <<>>
  BY DEF WorkerDies, Progress, ThreadProgress
<1>3. Dead \in Threads /\ worker' = [worker EXCEPT ![w] = Dead]
  BY DEF WorkerDies, Threads, Dead
<1>4. blockQueue[w] \in Seq(AllOutputs) /\ Len(blockQueue[w]) \in Nat /\ GroupSize \in Nat
  BY Numbers
<1>5. PICK n \in 0 .. Len(blockQueue[w]) : n = Len(blockQueue[w]) - buffered
  <2>1. Len(blockQueue[w]) - buffered \in 0 .. Len(blockQueue[w])
    BY <1>4
  <2>2. QED
    BY <2>1
<1>6. n + GroupSize >= Len(blockQueue[w])
  BY <1>1, <1>4, <1>5
<1>7. PICK q : q = SubSeq(blockQueue[w], 1, n)
  OBVIOUS
<1>8. q \in Seq(AllOutputs)
  BY <1>4, <1>7, SetOfPrefix
<1>9. blockQueue' = [blockQueue EXCEPT ![w] = q]
  BY <1>1, <1>5, <1>7
<1>10. /\ blockQueue' \in [Workers -> Seq(AllOutputs)] /\ blockQueue'[w] = q
       /\ \A v \in Workers : v # w => blockQueue'[v] = blockQueue[v]
  BY <1>8, <1>9, QueueMoves
<1>11. /\ worker' \in [Workers -> Threads] /\ worker'[w] = Dead
       /\ \A v \in Workers : v # w => worker'[v] = worker[v]
  BY <1>3, WorkerMoves
<1>12. QED
  BY <1>1, <1>2, <1>6, <1>7, <1>10, <1>11

LEMMA WriteBlockShape ==
  ASSUME TypeOK, WriteBlock
  PROVE  \E w \in Workers :
           /\ blockQueue[w] # <<>> /\ blockQueue[w] \in Seq(AllOutputs)
           /\ written' \in Seq(AllOutputs)
           /\ written' = Append(written, Head(blockQueue[w]))
           /\ blockQueue' \in [Workers -> Seq(AllOutputs)]
           /\ blockQueue'[w] = Tail(blockQueue[w])
           /\ \A v \in Workers : v # w => blockQueue'[v] = blockQueue[v]
<1>1. PICK w \in Workers :
        /\ blockQueue[w] # <<>>
        /\ written' = Append(written, Head(blockQueue[w]))
        /\ blockQueue' = [blockQueue EXCEPT ![w] = Tail(blockQueue[w])]
  BY DEF WriteBlock
<1>2. blockQueue[w] \in Seq(AllOutputs) /\ written \in Seq(AllOutputs)
  BY TypeFacts
<1>3. Tail(blockQueue[w]) \in Seq(AllOutputs) /\ Head(blockQueue[w]) \in AllOutputs
  BY <1>1, <1>2, SetOfTail
<1>4. written' \in Seq(AllOutputs)
  BY <1>1, <1>2, <1>3
<1>5. /\ blockQueue' \in [Workers -> Seq(AllOutputs)]
      /\ blockQueue'[w] = Tail(blockQueue[w])
      /\ \A v \in Workers : v # w => blockQueue'[v] = blockQueue[v]
  BY <1>1, <1>3, QueueMoves
<1>6. QED
  BY <1>1, <1>2, <1>4, <1>5

LEMMA WriteFailsShape ==
  ASSUME TypeOK, WriteFails
  PROVE  \E w \in Workers : \E n \in 1 .. Len(blockQueue[w]) :
           /\ blockQueue[w] \in Seq(AllOutputs)
           /\ blockQueue' \in [Workers -> Seq(AllOutputs)]
           /\ blockQueue'[w] = SubSeq(blockQueue[w], n + 1, Len(blockQueue[w]))
           /\ \A v \in Workers : v # w => blockQueue'[v] = blockQueue[v]
<1>1. PICK w \in Workers, n \in 1 .. GroupSize :
        /\ n <= Len(blockQueue[w])
        /\ blockQueue' =
             [blockQueue EXCEPT ![w] = SubSeq(blockQueue[w], n + 1, Len(blockQueue[w]))]
  BY DEF WriteFails
<1>2. blockQueue[w] \in Seq(AllOutputs) /\ Len(blockQueue[w]) \in Nat
  <2>1. blockQueue[w] \in Seq(AllOutputs)
    BY Numbers
  <2>2. QED
    BY <2>1
<1>3. n \in 1 .. Len(blockQueue[w])
  BY <1>1, <1>2, Numbers
<1>4. SubSeq(blockQueue[w], n + 1, Len(blockQueue[w])) \in Seq(AllOutputs)
  BY <1>2, <1>3
<1>5. /\ blockQueue' \in [Workers -> Seq(AllOutputs)]
      /\ blockQueue'[w] = SubSeq(blockQueue[w], n + 1, Len(blockQueue[w]))
      /\ \A v \in Workers : v # w => blockQueue'[v] = blockQueue[v]
  BY <1>1, <1>4, QueueMoves
<1>6. QED
  BY <1>2, <1>3, <1>5

LEMMA TypeWorker ==
  ASSUME TypeOK, Progress, NEW w \in Workers, Worker(w)
  PROVE  TypeOK'
<1> USE DEF producerVars
<1>1. UNCHANGED <<listing, main, producer, visited, fileids, writer, written>>
  BY DEF Worker, TakeFile, PutBlock, NextFile, WorkerEnds, WorkerDies
<1>2. worker' \in [Workers -> Threads]
  BY TakeFileShape, PutBlockShape, IdleShape, DiesShape DEF Worker
<1>3. blockQueue' \in [Workers -> Seq(AllOutputs)]
  <2>1. CASE PutBlock(w)
    BY <2>1, PutBlockShape
  <2>2. CASE WorkerDies(w)
    BY <2>2, DiesShape
  <2>3. CASE TakeFile(w) \/ NextFile(w) \/ WorkerEnds(w)
    BY <2>3, TypeFacts DEF TakeFile, NextFile, WorkerEnds
  <2>4. QED
    BY <2>1, <2>2, <2>3 DEF Worker
<1>4. fileQueue' \subseteq Ids
  <2>1. fileQueue' \subseteq fileQueue
    BY DEF Worker, TakeFile, PutBlock, NextFile, WorkerEnds, WorkerDies
  <2>2. QED
    BY <2>1, TypeFacts
<1>5. filePoison' \in [left : 0 .. Many, there : 0 .. Many]
  <2>1. CASE WorkerEnds(w)
    <3>1. filePoison \in [left : 0 .. Many, there : 0 .. Many]
      BY TypeFacts
    <3>2. filePoison.there - 1 \in 0 .. Many
      BY <2>1, Numbers, ManyWorkers DEF WorkerEnds
    <3>3. filePoison' = [filePoison EXCEPT !.there = filePoison.there - 1]
      BY <2>1 DEF WorkerEnds
    <3>4. QED
      BY <3>1, <3>2, <3>3
  <2>2. CASE ~ WorkerEnds(w)
    BY <2>2, TypeFacts DEF Worker, TakeFile, PutBlock, NextFile, WorkerDies
  <2>3. QED
    BY <2>1, <2>2
<1>6. QED
  BY <1>1, <1>2, <1>3, <1>4, <1>5, TypeSame, TypeFacts

LEMMA TypeWriter ==
  ASSUME TypeOK, WriteBlock \/ WriterEnds \/ WriteFails
  PROVE  TypeOK'
<1> USE DEF producerVars
<1>1. UNCHANGED <<listing, main, producer, visited, fileids, fileQueue, filePoison, worker>>
  BY DEF WriteBlock, WriterEnds, WriteFails
<1>2. CASE WriteBlock
  <2>1. written' \in Seq(AllOutputs) /\ blockQueue' \in [Workers -> Seq(AllOutputs)]
    BY <1>2, WriteBlockShape
  <2>2. writer' = writer
    BY <1>2 DEF WriteBlock
  <2>3. QED
    BY <1>1, <2>1, <2>2, TypeSame, TypeFacts
<1>3. CASE WriterEnds
  <2>1. writer' = "ended" /\ UNCHANGED <<blockQueue, written>>
    BY <1>3 DEF WriterEnds
  <2>2. QED
    BY <1>1, <2>1, TypeSame, TypeFacts
<1>4. CASE WriteFails
  <2>1. writer' = "failed" /\ UNCHANGED written
    BY <1>4 DEF WriteFails
  <2>2. blockQueue' \in [Workers -> Seq(AllOutputs)]
    BY <1>4, WriteFailsShape
  <2>3. QED
    BY <1>1, <2>1, <2>2, TypeSame, TypeFacts
<1>5. QED
  BY <1>2, <1>3, <1>4

LEMMA TypeStep == TypeOK /\ Progress /\ [Next]_vars => TypeOK'
<1> SUFFICES ASSUME TypeOK, Progress, [Next]_vars PROVE TypeOK'
  OBVIOUS
<1>1. CASE UNCHANGED vars
  BY <1>1, TypeSame, TypeFacts DEF vars, producerVars
<1>2. CASE Step
  BY <1>2, TypeMain, TypeProducer, TypeWorker, TypeWriter DEF Step
<1>3. QED
  BY <1>1, <1>2 DEF Next, Terminating

(* No poison is put before the main thread has seen the producer end.      *)
LEMMA NoPoison ==
  ASSUME Progress, main = "join producer"
  PROVE  filePoison.left = Many /\ filePoison.there = 0
<1>1. filePoison = [left |-> Many, there |-> 0]
  BY DEF Progress, MainProgress, Many
<1>2. QED
  BY <1>1

LEMMA ProgressMain ==
  ASSUME TypeOK, Progress, Main \/ FinishFails
  PROVE  Progress'
<1> USE DEF producerVars
<1>1. UNCHANGED <<listing, producer, visited, fileids, fileQueue, worker, blockQueue, writer, written>>
  BY DEF Main, JoinProducer, PoisonFiles, JoinWorkers, PoisonBlocks, Finish, FinishFails
<1>2. Recorded'
  BY <1>1 DEF Progress, Recorded, Accepted
<1>3. main' # "join producer"
  BY DEF Main, JoinProducer, PoisonFiles, JoinWorkers, PoisonBlocks, Finish, FinishFails
<1>4. ThreadProgress'
  BY <1>1, <1>3 DEF Progress, ThreadProgress, Terminated
<1>5. MainProgress'
  <2>1. CASE JoinProducer
    <3>1. filePoison.left = Many /\ filePoison.there = 0
      BY <2>1, NoPoison DEF JoinProducer
    <3>2. /\ main' = "poison files" /\ filePoison' = filePoison
          /\ producer \in {"ended", "failed"}
      BY <2>1 DEF JoinProducer
    <3>3. filePoison'.left > 0 /\ filePoison'.left + filePoison'.there <= Many
      <4>1. filePoison'.left = Many /\ filePoison'.there = 0
        BY <3>1, <3>2
      <4>2. Many > 0 /\ Many + 0 <= Many
        BY ManyWorkers
      <4>3. QED
        BY <4>1, <4>2
    <3>4. QED
      BY <1>1, <3>2, <3>3 DEF MainProgress, Many
  <2>2. CASE PoisonFiles
    <3>1. filePoison' = [left |-> filePoison.left - 1, there |-> filePoison.there + 1]
      BY <2>2 DEF PoisonFiles
    <3>2. filePoison'.left = filePoison.left - 1 /\ filePoison'.there = filePoison.there + 1
      BY <3>1
    <3>3. filePoison.left > 0 /\ filePoison.left + filePoison.there <= Many
      BY <2>2 DEF PoisonFiles, Progress, MainProgress, Many
    <3>4. filePoison'.left + filePoison'.there <= Many
      BY <3>2, <3>3, Numbers, ManyWorkers
    <3>5. main' = IF filePoison.left = 1 THEN "join workers" ELSE "poison files"
      BY <2>2 DEF PoisonFiles
    <3>6. main' = "poison files" => filePoison'.left > 0
      <4>1. filePoison.left \in 0 .. Many
        BY Numbers
      <4>2. filePoison.left # 1 => filePoison.left - 1 > 0
        BY <3>3, <4>1, ManyWorkers
      <4>3. QED
        BY <3>2, <3>5, <4>2
    <3>7. producer \in {"ended", "failed"}
      BY <2>2 DEF PoisonFiles, Progress, MainProgress
    <3>8. QED
      BY <1>1, <3>4, <3>5, <3>6, <3>7 DEF MainProgress, Many
  <2>3. CASE JoinWorkers \/ PoisonBlocks \/ Finish \/ FinishFails
    BY <1>1, <2>3 DEF JoinWorkers, PoisonBlocks, Finish, FinishFails, Progress, MainProgress, Terminated
  <2>4. QED
    BY <2>1, <2>2, <2>3 DEF Main
<1>6. QED
  BY <1>1, <1>2, <1>4, <1>5 DEF Progress

LEMMA ProgressProducer ==
  ASSUME TypeOK, Progress, Producer \/ ReadFails
  PROVE  Progress'
<1> USE DEF producerVars
<1>1. UNCHANGED <<listing, main, filePoison, worker, blockQueue, writer, written>>
  BY DEF Producer, SkipFile, Record, PutFile, ReadFails, ProducerEnds
<1>2. main = "join producer"
  BY DEF Producer, SkipFile, Record, PutFile, ReadFails, ProducerEnds, AtFile,
         Progress, MainProgress
<1>3. MainProgress'
  BY <1>1, <1>2 DEF Progress, MainProgress, Terminated
<1>4. fileids \in Seq(DOMAIN listing) /\ visited \in Nat
  <2>1. fileids \in Seq(DOMAIN listing)
    BY DEF TypeOK
  <2>2. visited \in Nat
    BY ListingType
  <2>3. QED
    BY <2>1, <2>2
<1>5. CASE SkipFile \/ Record
  <2>1. visited' = visited + 1 /\ 1 .. visited' = (1 .. visited) \cup {visited + 1}
    BY <1>4, <1>5 DEF SkipFile, Record
  <2>2. Recorded'
    <3>1. \A i \in 1 .. visited' : Accepted(listing'[i]) = Accepted(listing[i])
      BY <1>1 DEF Accepted
    <3>2. CASE SkipFile
      BY <1>1, <2>1, <3>1, <3>2 DEF SkipFile, Progress, Recorded
    <3>3. CASE Record
      <4>1. ToSet(fileids') = ToSet(fileids) \cup {visited + 1}
        BY <1>4, <3>3, SetOfAppend DEF Record
      <4>2. QED
        BY <1>1, <2>1, <3>1, <3>3, <4>1 DEF Record, Progress, Recorded
    <3>4. QED
      BY <1>5, <3>2, <3>3
  <2>3. ThreadProgress'
    <3>1. producer' = "put" => fileids' # <<>>
      <4>1. Record => fileids' # <<>>
        BY <1>4 DEF Record
      <4>2. SkipFile => producer' = "next"
        BY DEF SkipFile, AtFile
      <4>3. QED
        BY <1>5, <4>1, <4>2
    <3>2. producer' # "ended"
      BY <1>5 DEF SkipFile, Record, AtFile
    <3>3. QED
      BY <1>1, <3>1, <3>2 DEF Progress, ThreadProgress, Terminated
  <2>4. QED
    BY <1>1, <1>3, <2>2, <2>3 DEF Progress
<1>6. CASE PutFile \/ ReadFails \/ ProducerEnds
  <2>1. UNCHANGED <<visited, fileids>> /\ producer' \in {"next", "failed", "ended"}
    BY <1>6 DEF PutFile, ReadFails, ProducerEnds
  <2>2. Recorded'
    BY <1>1, <2>1 DEF Progress, Recorded, Accepted
  <2>3. producer' = "ended" => visited = Len(listing)
    BY <1>6 DEF PutFile, ReadFails, ProducerEnds
  <2>4. ThreadProgress'
    BY <1>1, <2>1, <2>3 DEF Progress, ThreadProgress, Terminated
  <2>5. QED
    BY <1>1, <1>3, <2>2, <2>4 DEF Progress
<1>7. QED
  BY <1>5, <1>6 DEF Producer

LEMMA ProgressWorker ==
  ASSUME TypeOK, Progress, NEW w \in Workers, Worker(w)
  PROVE  Progress'
<1> USE DEF producerVars
<1>1. UNCHANGED <<listing, main, producer, visited, fileids, writer, written>>
  BY DEF Worker, TakeFile, PutBlock, NextFile, WorkerEnds, WorkerDies
<1>2. /\ worker[w].pc \in {"take", "put"}
      /\ worker'[w].pc # "put" => worker'[w].todo = <<>>
      /\ worker'[w].pc = "ended" => filePoison.there > 0
      /\ \A v \in Workers : v # w => worker'[v] = worker[v]
  <2>1. CASE TakeFile(w)
    <3>1. PICK id \in fileQueue :
            /\ worker[w].pc = "take"
            /\ worker'[w] = IF Skipped(File(id)) THEN Taking
                            ELSE [pc |-> "put", todo |-> Taken(id)]
            /\ \A v \in Workers : v # w => worker'[v] = worker[v]
      BY <2>1, TakeFileShape
    <3>2. worker'[w] = Taking \/ worker'[w].pc = "put"
      BY <3>1
    <3>3. worker'[w].pc \in {"take", "put"} /\ (worker'[w].pc = "take" => worker'[w].todo = <<>>)
      BY <3>2 DEF Taking
    <3>4. QED
      BY <3>1, <3>3
  <2>2. CASE PutBlock(w)
    <3>1. /\ worker[w].pc = "put"
          /\ worker'[w] = [pc |-> "put", todo |-> Tail(worker[w].todo)]
          /\ \A v \in Workers : v # w => worker'[v] = worker[v]
      BY <2>2, PutBlockShape
    <3>2. worker'[w].pc = "put"
      BY <3>1
    <3>3. QED
      BY <3>1, <3>2
  <2>3. CASE NextFile(w)
    BY <2>3, IdleShape DEF Taking
  <2>4. CASE WorkerEnds(w)
    BY <2>4, IdleShape DEF Taking, Ended, WorkerEnds
  <2>5. CASE WorkerDies(w)
    BY <2>5, DiesShape DEF Dead
  <2>6. QED
    BY <2>1, <2>2, <2>3, <2>4, <2>5 DEF Worker
<1>3. ~ Terminated(w)
  BY <1>2 DEF Terminated
<1>4. main \notin {"poison blocks", "join writer", "done", "unclosed"} /\ writer # "ended"
  BY <1>3 DEF Progress, MainProgress, ThreadProgress
<1>5. filePoison'.left = filePoison.left /\ filePoison'.there <= filePoison.there
      /\ filePoison'.there \in Nat /\ (filePoison.there = 0 => filePoison' = filePoison)
  <2>1. CASE WorkerEnds(w)
    <3>1. filePoison \in [left : 0 .. Many, there : 0 .. Many] /\ filePoison.there > 0
      BY <2>1, TypeFacts DEF WorkerEnds
    <3>2. filePoison' = [filePoison EXCEPT !.there = filePoison.there - 1]
      BY <2>1 DEF WorkerEnds
    <3>3. filePoison'.left = filePoison.left /\ filePoison'.there = filePoison.there - 1
      BY <3>1, <3>2
    <3>4. filePoison.there \in Nat
      BY <3>1, ManyWorkers
    <3>5. QED
      BY <3>1, <3>3, <3>4
  <2>2. CASE ~ WorkerEnds(w)
    <3>1. filePoison' = filePoison
      BY <2>2 DEF Worker, TakeFile, PutBlock, NextFile, WorkerDies
    <3>2. QED
      BY <3>1, Numbers, ManyWorkers
  <2>3. QED
    BY <2>1, <2>2
<1>6. MainProgress'
  <2>1. main = "join producer" => filePoison' = filePoison
    <3>1. main = "join producer" => filePoison.there = 0
      BY NoPoison
    <3>2. QED
      BY <1>5, <3>1
  <2>2. filePoison'.left + filePoison'.there <= Many
    <3>1. filePoison.left + filePoison.there <= Many
      BY DEF Progress, MainProgress, Many
    <3>2. QED
      BY <1>5, <3>1, Numbers, ManyWorkers
  <2>3. QED
    BY <1>1, <1>4, <1>5, <2>1, <2>2 DEF Progress, MainProgress, Many
<1>7. ThreadProgress'
  <2>1. worker'[w].pc = "ended" => main # "join producer"
    <3>1. main = "join producer" => ~ (filePoison.there > 0)
      <4>1. ~ (0 > 0)
        OBVIOUS
      <4>2. QED
        BY <4>1, NoPoison
    <3>2. QED
      BY <1>2, <3>1
  <2>2. \A v \in Workers : /\ worker'[v].pc # "put" => worker'[v].todo = <<>>
                           /\ worker'[v].pc = "ended" => main # "join producer"
    BY <1>2, <2>1 DEF Progress, ThreadProgress
  <2>3. QED
    BY <1>1, <1>4, <2>2 DEF Progress, ThreadProgress
<1>8. Recorded'
  BY <1>1 DEF Progress, Recorded, Accepted
<1>9. QED
  BY <1>1, <1>6, <1>7, <1>8 DEF Progress

LEMMA ProgressWriter ==
  ASSUME TypeOK, Progress, WriteBlock \/ WriterEnds \/ WriteFails
  PROVE  Progress'
<1> USE DEF producerVars
<1>1. UNCHANGED <<listing, main, producer, visited, fileids, fileQueue, filePoison, worker>>
  BY DEF WriteBlock, WriterEnds, WriteFails
<1>2. MainProgress' /\ Recorded'
  BY <1>1 DEF Progress, MainProgress, Recorded, Accepted, Terminated
<1>3. writer' = "ended" => \A w \in Workers : blockQueue'[w] = <<>> /\ Terminated(w)
  BY DEF WriteBlock, WriterEnds, WriteFails, Progress, MainProgress
<1>4. ThreadProgress'
  BY <1>1, <1>3 DEF Progress, ThreadProgress, Terminated
<1>5. QED
  BY <1>1, <1>2, <1>4 DEF Progress

LEMMA ProgressStep == TypeOK /\ Progress /\ [Next]_vars => Progress'
<1> SUFFICES ASSUME TypeOK, Progress, [Next]_vars PROVE Progress'
  OBVIOUS
<1>1. CASE UNCHANGED vars
  BY <1>1 DEF vars, producerVars, Progress, MainProgress, ThreadProgress, Recorded, Accepted,
              Terminated
<1>2. CASE Step
  BY <1>2, ProgressMain, ProgressProducer, ProgressWorker, ProgressWriter DEF Step
<1>3. QED
  BY <1>1, <1>2 DEF Next, Terminating

LEMMA Invariance == Spec => [](TypeOK /\ Progress)
  BY ProgressInit, TypeStep, ProgressStep, PTL DEF Spec

(* The variables keep their types: every id that is queued, every block that
   is under way belongs to a file whose id has been recorded.              *)
THEOREM TypeCorrect == Spec => []TypeOK
  BY Invariance, PTL

-----------------------------------------------------------------------------
(* The blocks of a file stand in a line.                                   *)

(* The file that the producer has recorded and not yet put.                *)
Pending == IF producer = "put" THEN {Len(fileids) - 1} ELSE {}

FilesOf(s) == {x.file : x \in ToSet(s)}

FilesOfWorker(w) == FilesOf(blockQueue[w]) \cup FilesOf(worker[w].todo)

(* A file is waiting or has been taken, by one worker.                     *)
OneTaker ==
  /\ fileQueue \cap Pending = {}
  /\ \A w \in Workers : FilesOfWorker(w) \cap (fileQueue \cup Pending) = {}
  /\ FilesOf(written) \cap (fileQueue \cup Pending) = {}
  /\ \A v, w \in Workers : v # w => FilesOfWorker(v) \cap FilesOfWorker(w) = {}

Precedes(x, y) == x.file = y.file => x.block < y.block

Before(s, t) == \A x \in ToSet(s), y \in ToSet(t) : Precedes(x, y)

Sorted(s) == \A i, j \in DOMAIN s : i < j => Precedes(s[i], s[j])

(* What is written, what the worker has put, what it has still to put.     *)
InLine ==
  /\ Sorted(written)
  /\ \A w \in Workers :
       /\ Sorted(blockQueue[w])
       /\ Sorted(worker[w].todo)
       /\ Before(written, blockQueue[w])
       /\ Before(written, worker[w].todo)
       /\ Before(blockQueue[w], worker[w].todo)

LEMMA FilesOfOutputs ==
  ASSUME NEW s \in Seq(AllOutputs)
  PROVE  FilesOf(s) \subseteq Ids
<1>1. \A x \in AllOutputs : x.file \in Ids
  BY DEF AllOutputs, Outputs
<1>2. ToSet(s) \subseteq AllOutputs
  BY DEF ToSet
<1>3. QED
  BY <1>1, <1>2 DEF FilesOf

LEMMA FilesKnown ==
  ASSUME TypeOK, Progress
  PROVE  /\ Pending \subseteq Ids /\ fileQueue \subseteq Ids
         /\ FilesOf(written) \subseteq Ids
         /\ \A w \in Workers : FilesOfWorker(w) \subseteq Ids
<1>1. Pending \subseteq Ids
  <2>1. SUFFICES ASSUME producer = "put" PROVE Len(fileids) - 1 \in Ids
    BY DEF Pending
  <2>2. fileids # <<>>
    BY <2>1 DEF Progress, ThreadProgress
  <2>3. fileids \in Seq(DOMAIN listing)
    BY DEF TypeOK
  <2>4. Len(fileids) \in Nat /\ Len(fileids) # 0
    BY <2>2, <2>3
  <2>5. QED
    BY <2>4 DEF Ids
<1>2. FilesOf(written) \subseteq Ids
  BY TypeFacts, FilesOfOutputs
<1>3. \A w \in Workers : FilesOfWorker(w) \subseteq Ids
  BY Numbers, FilesOfOutputs DEF FilesOfWorker
<1>4. QED
  BY <1>1, <1>2, <1>3, TypeFacts

LEMMA LineInit == Init => OneTaker /\ InLine
<1> SUFFICES ASSUME Init PROVE OneTaker /\ InLine
  OBVIOUS
<1>1. /\ written = <<>> /\ fileQueue = {} /\ Pending = {}
      /\ \A w \in Workers : blockQueue[w] = <<>> /\ worker[w].todo = <<>>
  BY DEF Init, Pending, Taking
<1>2. Sorted(<<>>)
  BY DEF Sorted
<1>3. FilesOf(<<>>) = {}
  BY EmptySet DEF FilesOf
<1>4. QED
  BY <1>1, <1>2, <1>3, EmptySet DEF OneTaker, InLine, FilesOfWorker, Before

(* A part of a line is a line.                                             *)
LEMMA SortedPart ==
  ASSUME NEW S, NEW s \in Seq(S), NEW T, NEW t \in Seq(T), NEW d \in Nat, Sorted(s),
         \A i \in DOMAIN t : i + d \in DOMAIN s /\ t[i] = s[i + d]
  PROVE  Sorted(t) /\ ToSet(t) \subseteq ToSet(s)
<1>1. DOMAIN t \subseteq Nat
  OBVIOUS
<1>2. \A i, j \in DOMAIN t : i < j => i + d < j + d
  BY <1>1
<1>3. Sorted(t)
  BY <1>2 DEF Sorted
<1>4. ToSet(t) \subseteq ToSet(s)
  BY DEF ToSet
<1>5. QED
  BY <1>3, <1>4

LEMMA SortedTail ==
  ASSUME NEW S, NEW s \in Seq(S), s # <<>>, Sorted(s)
  PROVE  /\ Sorted(Tail(s)) /\ ToSet(Tail(s)) \subseteq ToSet(s)
         /\ \A y \in ToSet(Tail(s)) : Precedes(Head(s), y)
<1>1. PICK t \in Seq(S) : t = Tail(s)
  BY SetOfTail
<1>2. \A i \in DOMAIN t : i + 1 \in DOMAIN s /\ t[i] = s[i + 1]
  BY <1>1, SetOfTail
<1>3. Sorted(t) /\ ToSet(t) \subseteq ToSet(s)
  BY <1>2, SortedPart
<1>4. \A y \in ToSet(t) : Precedes(Head(s), y)
  <2>1. SUFFICES ASSUME NEW i \in DOMAIN t PROVE Precedes(Head(s), t[i])
    BY DEF ToSet
  <2>2. i \in Nat /\ i > 0
    BY <1>1
  <2>3. Head(s) = s[1] /\ 1 \in DOMAIN s /\ 1 < i + 1
    BY <2>2
  <2>4. QED
    BY <1>2, <2>3 DEF Sorted
<1>5. QED
  BY <1>1, <1>3, <1>4

LEMMA SortedAppend ==
  ASSUME NEW S, NEW s \in Seq(S), NEW y, Sorted(s), \A x \in ToSet(s) : Precedes(x, y)
  PROVE  Sorted(Append(s, y))
<1>1. PICK t : t = Append(s, y)
  OBVIOUS
<1>2. Len(s) \in Nat /\ DOMAIN s = 1 .. Len(s) /\ DOMAIN t = 1 .. Len(s) + 1
  BY <1>1
<1>3. t[Len(s) + 1] = y /\ \A i \in 1 .. Len(s) : t[i] = s[i]
  BY <1>1
<1>4. SUFFICES ASSUME NEW i \in DOMAIN t, NEW j \in DOMAIN t, i < j
               PROVE  Precedes(t[i], t[j])
  BY <1>1 DEF Sorted
<1>5. i \in 1 .. Len(s)
  BY <1>2, <1>4
<1>6. CASE j \in 1 .. Len(s)
  BY <1>2, <1>3, <1>4, <1>5, <1>6 DEF Sorted
<1>7. CASE j = Len(s) + 1
  <2>1. s[i] \in ToSet(s)
    BY <1>2, <1>5 DEF ToSet
  <2>2. QED
    BY <1>3, <1>5, <1>7, <2>1
<1>8. j \in 1 .. Len(s) \/ j = Len(s) + 1
  BY <1>2
<1>9. QED
  BY <1>6, <1>7, <1>8

LEMMA SortedPrefix ==
  ASSUME NEW S, NEW s \in Seq(S), NEW n \in 0 .. Len(s), Sorted(s)
  PROVE  Sorted(SubSeq(s, 1, n)) /\ ToSet(SubSeq(s, 1, n)) \subseteq ToSet(s)
<1>1. PICK t \in Seq(S) : t = SubSeq(s, 1, n)
  BY SetOfPrefix
<1>2. DOMAIN t = 1 .. n /\ \A i \in 1 .. n : i \in DOMAIN s /\ t[i] = s[i]
  BY <1>1, SetOfPrefix
<1>3. \A i \in DOMAIN t : i + 0 \in DOMAIN s /\ t[i] = s[i + 0]
  <2>1. \A i \in 1 .. n : i + 0 = i
    OBVIOUS
  <2>2. QED
    BY <1>2, <2>1
<1>4. QED
  BY <1>1, <1>3, SortedPart

LEMMA SortedRest ==
  ASSUME NEW S, NEW s \in Seq(S), NEW n \in 1 .. Len(s), Sorted(s)
  PROVE  /\ Sorted(SubSeq(s, n + 1, Len(s)))
         /\ ToSet(SubSeq(s, n + 1, Len(s))) \subseteq ToSet(s)
<1>1. PICK t : t = SubSeq(s, n + 1, Len(s))
  OBVIOUS
<1>2. Len(s) \in Nat /\ n \in Nat
  OBVIOUS
<1>3. t \in Seq(S) /\ DOMAIN t = 1 .. Len(s) - n
  BY <1>1, <1>2
<1>4. \A i \in 1 .. Len(s) - n : i + n \in DOMAIN s /\ t[i] = s[i + n]
  BY <1>1, <1>2
<1>5. QED
  BY <1>1, <1>2, <1>3, <1>4, SortedPart

(* The files may be waiting elsewhere, as long as no blocks move.          *)
LEMMA LineFiles ==
  ASSUME TypeOK, Progress, OneTaker, InLine,
         UNCHANGED <<worker, blockQueue, written>>,
         fileQueue' \cap Pending' = {},
         \A id \in fileQueue' \cup Pending' : id \in fileQueue \cup Pending \/ id \notin Ids
  PROVE  OneTaker' /\ InLine'
<1>1. /\ FilesOf(written)' = FilesOf(written)
      /\ \A w \in Workers : FilesOfWorker(w)' = FilesOfWorker(w)
  BY DEF FilesOfWorker, FilesOf
<1>2. InLine'
  BY DEF InLine
<1>3. /\ \A w \in Workers : FilesOfWorker(w) \cap (fileQueue' \cup Pending') = {}
      /\ FilesOf(written) \cap (fileQueue' \cup Pending') = {}
  BY FilesKnown DEF OneTaker
<1>4. QED
  BY <1>1, <1>2, <1>3 DEF OneTaker

(* A worker's blocks may go, or be those of a file that was waiting.       *)
LEMMA LineBlocks ==
  ASSUME OneTaker, InLine, UNCHANGED written, NEW w \in Workers, NEW q, NEW t, NEW ids,
         ids \subseteq fileQueue, fileQueue' \subseteq fileQueue \ ids, Pending' = Pending,
         blockQueue'[w] = q, worker'[w].todo = t,
         \A v \in Workers : v # w => /\ blockQueue'[v] = blockQueue[v]
                                     /\ worker'[v] = worker[v],
         Sorted(q), Sorted(t), ToSet(q) \subseteq ToSet(blockQueue[w]),
         ToSet(t) \subseteq ToSet(worker[w].todo) \/ FilesOf(t) \subseteq ids
  PROVE  OneTaker' /\ InLine'
<1>1. /\ FilesOf(written)' = FilesOf(written)
      /\ \A v \in Workers : v # w => FilesOfWorker(v)' = FilesOfWorker(v)
      /\ FilesOfWorker(w)' = FilesOf(q) \cup FilesOf(t)
  BY DEF FilesOfWorker, FilesOf
<1>2. FilesOf(q) \subseteq FilesOf(blockQueue[w])
  BY DEF FilesOf
<1>3. FilesOf(t) \subseteq FilesOf(worker[w].todo) \/ FilesOf(t) \subseteq ids
  BY DEF FilesOf
<1>4. FilesOfWorker(w)' \subseteq FilesOfWorker(w) \cup ids
  BY <1>1, <1>2, <1>3 DEF FilesOfWorker
<1>5. OneTaker'
  <2>1. fileQueue' \cap Pending' = {}
    BY DEF OneTaker
  <2>2. \A v \in Workers : FilesOfWorker(v)' \cap (fileQueue' \cup Pending') = {}
    BY <1>1, <1>4 DEF OneTaker
  <2>3. FilesOf(written)' \cap (fileQueue' \cup Pending') = {}
    BY <1>1 DEF OneTaker
  <2>4. \A v \in Workers : v # w => FilesOfWorker(v)' \cap FilesOfWorker(w)' = {}
    BY <1>1, <1>4 DEF OneTaker
  <2>5. \A u, v \in Workers : u # v => FilesOfWorker(u)' \cap FilesOfWorker(v)' = {}
    BY <1>1, <2>4 DEF OneTaker
  <2>6. QED
    BY <2>1, <2>2, <2>3, <2>5 DEF OneTaker
<1>6. Before(written, q) /\ Before(written, t) /\ Before(q, t)
  <2>1. \A s : FilesOf(s) \cap FilesOf(t) = {} => Before(s, t)
    BY DEF FilesOf, Before, Precedes
  <2>2. CASE ToSet(t) \subseteq ToSet(worker[w].todo)
    BY <2>2 DEF InLine, Before
  <2>3. CASE FilesOf(t) \subseteq ids
    <3>1. FilesOf(written) \cap FilesOf(t) = {} /\ FilesOf(q) \cap FilesOf(t) = {}
      BY <1>2, <2>3 DEF OneTaker, FilesOfWorker
    <3>2. Before(written, q)
      BY DEF InLine, Before
    <3>3. QED
      BY <2>1, <3>1, <3>2
  <2>4. QED
    BY <2>2, <2>3
<1>7. InLine'
  <2>1. Sorted(written')
    BY DEF InLine
  <2>2. ASSUME NEW v \in Workers
        PROVE  /\ Sorted(blockQueue'[v]) /\ Sorted(worker'[v].todo)
               /\ Before(written', blockQueue'[v]) /\ Before(written', worker'[v].todo)
               /\ Before(blockQueue'[v], worker'[v].todo)
    <3>1. CASE v = w
      BY <1>6, <3>1
    <3>2. CASE v # w
      BY <3>2 DEF InLine
    <3>3. QED
      BY <3>1, <3>2
  <2>3. QED
    BY <2>1, <2>2 DEF InLine
<1>8. QED
  BY <1>5, <1>7

LEMMA LineMainProducer ==
  ASSUME TypeOK, Progress, OneTaker, InLine,
         Main \/ FinishFails \/ Producer \/ ReadFails
  PROVE  OneTaker' /\ InLine'
<1> USE DEF producerVars
<1>1. UNCHANGED <<worker, blockQueue, written>>
  BY DEF Main, JoinProducer, PoisonFiles, JoinWorkers, PoisonBlocks, Finish, FinishFails,
         Producer, SkipFile, Record, PutFile, ReadFails, ProducerEnds
<1>2. fileQueue \cap Pending = {}
  BY DEF OneTaker
<1>3. CASE Main \/ FinishFails
  <2>1. UNCHANGED <<fileQueue, producer, fileids>>
    BY <1>3 DEF Main, JoinProducer, PoisonFiles, JoinWorkers, PoisonBlocks, Finish, FinishFails
  <2>2. Pending' = Pending
    BY <2>1 DEF Pending
  <2>3. QED
    BY <1>1, <1>2, <2>1, <2>2, LineFiles
<1>4. CASE Record
  <2>1. Len(fileids') - 1 = Len(fileids) /\ Len(fileids) \notin Ids
    <3>1. Len(fileids') = Len(fileids) + 1 /\ Len(fileids) \in Nat
      BY <1>4, FilesMore, Numbers
    <3>2. QED
      BY <3>1 DEF Ids
  <2>2. Pending' = {Len(fileids)} /\ fileQueue' = fileQueue
    BY <1>4, <2>1 DEF Record, Pending
  <2>3. fileQueue' \cap Pending' = {}
    BY <2>1, <2>2, FilesKnown
  <2>4. QED
    BY <1>1, <2>1, <2>2, <2>3, LineFiles
<1>5. CASE PutFile
  <2>1. /\ fileQueue' = fileQueue \cup {Len(fileids) - 1} /\ producer' = "next"
        /\ producer = "put"
    BY <1>5 DEF PutFile
  <2>2. Pending' = {} /\ fileQueue' = fileQueue \cup Pending
    BY <2>1 DEF Pending
  <2>3. QED
    BY <1>1, <2>2, LineFiles
<1>6. CASE SkipFile \/ ReadFails \/ ProducerEnds
  <2>1. fileQueue' \subseteq fileQueue /\ producer' # "put"
    BY <1>6 DEF SkipFile, ReadFails, ProducerEnds, AtFile
  <2>2. Pending' = {}
    BY <2>1 DEF Pending
  <2>3. QED
    BY <1>1, <2>1, <2>2, LineFiles
<1>7. QED
  BY <1>3, <1>4, <1>5, <1>6 DEF Producer

LEMMA LinePut ==
  ASSUME TypeOK, Progress, OneTaker, InLine, NEW w \in Workers, PutBlock(w)
  PROVE  OneTaker' /\ InLine'
<1>1. UNCHANGED <<fileQueue, producer, fileids, written>>
  BY DEF PutBlock, producerVars
<1>2. PICK q, t : q = blockQueue[w] /\ t = worker[w].todo
  OBVIOUS
<1>3. q \in Seq(AllOutputs) /\ t \in Seq(AllOutputs) /\ t # <<>>
  BY <1>2, Numbers, PutBlockShape
<1>4. /\ blockQueue'[w] = Append(q, Head(t)) /\ worker'[w].todo = Tail(t)
      /\ \A v \in Workers : v # w => /\ blockQueue'[v] = blockQueue[v]
                                     /\ worker'[v] = worker[v]
  <2>1. worker'[w] = [pc |-> "put", todo |-> Tail(t)]
    BY <1>2, PutBlockShape
  <2>2. worker'[w].todo = Tail(t)
    BY <2>1
  <2>3. QED
    BY <1>2, <2>2, PutBlockShape
<1>5. ToSet(Append(q, Head(t))) = ToSet(q) \cup {Head(t)}
  BY <1>3, SetOfAppend
<1>6. Head(t) \in ToSet(t) /\ ToSet(t) = {Head(t)} \cup ToSet(Tail(t))
  BY <1>3, SetOfTail
<1>7. Sorted(q) /\ Sorted(t) /\ Before(written, q) /\ Before(written, t) /\ Before(q, t)
  BY <1>2 DEF InLine
<1>8. Sorted(Append(q, Head(t)))
  <2>1. \A x \in ToSet(q) : Precedes(x, Head(t))
    BY <1>6, <1>7 DEF Before
  <2>2. QED
    BY <1>3, <1>7, <2>1, SortedAppend
<1>9. Sorted(Tail(t)) /\ \A y \in ToSet(Tail(t)) : Precedes(Head(t), y)
  BY <1>3, <1>7, SortedTail
<1>10. /\ Before(written, Append(q, Head(t))) /\ Before(written, Tail(t))
       /\ Before(Append(q, Head(t)), Tail(t))
  BY <1>5, <1>6, <1>7, <1>9 DEF Before
<1>11. FilesOfWorker(w)' = FilesOfWorker(w)
  <2>1. FilesOfWorker(w)' = FilesOf(Append(q, Head(t))) \cup FilesOf(Tail(t))
    BY <1>4 DEF FilesOfWorker, FilesOf
  <2>2. FilesOfWorker(w) = FilesOf(q) \cup FilesOf(t)
    BY <1>2 DEF FilesOfWorker
  <2>3. QED
    BY <1>5, <1>6, <2>1, <2>2 DEF FilesOf
<1>12. /\ Pending' = Pending /\ FilesOf(written)' = FilesOf(written)
       /\ \A v \in Workers : FilesOfWorker(v)' = FilesOfWorker(v)
  BY <1>1, <1>4, <1>11 DEF Pending, FilesOfWorker, FilesOf
<1>13. OneTaker'
  BY <1>1, <1>12 DEF OneTaker
<1>14. InLine'
  <2>1. Sorted(written')
    BY <1>1 DEF InLine
  <2>2. ASSUME NEW v \in Workers
        PROVE  /\ Sorted(blockQueue'[v]) /\ Sorted(worker'[v].todo)
               /\ Before(written', blockQueue'[v]) /\ Before(written', worker'[v].todo)
               /\ Before(blockQueue'[v], worker'[v].todo)
    <3>1. CASE v = w
      BY <1>1, <1>4, <1>8, <1>9, <1>10, <3>1
    <3>2. CASE v # w
      BY <1>1, <1>4, <3>2 DEF InLine
    <3>3. QED
      BY <3>1, <3>2
  <2>3. QED
    BY <2>1, <2>2 DEF InLine
<1>15. QED
  BY <1>13, <1>14

LEMMA LineTake ==
  ASSUME TypeOK, Progress, OneTaker, InLine, NEW w \in Workers, TakeFile(w)
  PROVE  OneTaker' /\ InLine'
<1>1. UNCHANGED <<producer, fileids, written, blockQueue>>
  BY DEF TakeFile, producerVars
<1>2. PICK id \in fileQueue :
        /\ id \in Ids
        /\ fileQueue' = fileQueue \ {id}
        /\ worker'[w] = IF Skipped(File(id)) THEN Taking
                        ELSE [pc |-> "put", todo |-> Taken(id)]
        /\ \A v \in Workers : v # w => worker'[v] = worker[v]
  BY TakeFileShape
<1>3. PICK q, t : q = blockQueue[w] /\ t = worker'[w].todo
  OBVIOUS
<1>4. t = <<>> \/ t = Taken(id)
  BY <1>2, <1>3 DEF Taking
<1>5. Sorted(t) /\ FilesOf(t) \subseteq {id}
  <2>1. Sorted(<<>>) /\ FilesOf(<<>>) = {}
    BY EmptySet DEF Sorted, FilesOf
  <2>2. Sorted(Taken(id))
    BY <1>2, TakenBlocks DEF Sorted, Precedes
  <2>3. FilesOf(Taken(id)) \subseteq {id}
    BY <1>2, TakenBlocks DEF FilesOf, ToSet
  <2>4. QED
    BY <1>4, <2>1, <2>2, <2>3
<1>6. Sorted(q) /\ ToSet(q) \subseteq ToSet(blockQueue[w])
  BY <1>3 DEF InLine
<1>7. Pending' = Pending
  BY <1>1 DEF Pending
<1>8. PICK ids : ids = {id}
  OBVIOUS
<1>9. ids \subseteq fileQueue /\ fileQueue' \subseteq fileQueue \ ids /\ FilesOf(t) \subseteq ids
  BY <1>2, <1>5, <1>8
<1>10. \A v \in Workers : v # w => blockQueue'[v] = blockQueue[v] /\ worker'[v] = worker[v]
  BY <1>1, <1>2
<1>11. blockQueue'[w] = q
  BY <1>1, <1>3
<1>12. QED
  BY <1>1, <1>3, <1>5, <1>6, <1>7, <1>9, <1>10, <1>11, LineBlocks

LEMMA LineIdle ==
  ASSUME TypeOK, Progress, OneTaker, InLine, NEW w \in Workers, NextFile(w) \/ WorkerEnds(w)
  PROVE  OneTaker' /\ InLine'
<1>1. UNCHANGED <<producer, fileids, written, blockQueue, fileQueue>>
  BY DEF NextFile, WorkerEnds, producerVars
<1>2. /\ worker[w].todo = <<>> /\ worker'[w].todo = <<>>
      /\ \A v \in Workers : v # w => worker'[v] = worker[v]
  BY IdleShape DEF Taking, Ended
<1>3. FilesOfWorker(w)' = FilesOfWorker(w)
  BY <1>1, <1>2 DEF FilesOfWorker, FilesOf
<1>4. \A v \in Workers : worker'[v].todo = worker[v].todo
  BY <1>2
<1>5. /\ Pending' = Pending /\ FilesOf(written)' = FilesOf(written)
      /\ \A v \in Workers : FilesOfWorker(v)' = FilesOfWorker(v)
  BY <1>1, <1>4 DEF Pending, FilesOfWorker, FilesOf
<1>6. QED
  BY <1>1, <1>4, <1>5 DEF OneTaker, InLine

LEMMA LineDies ==
  ASSUME TypeOK, Progress, OneTaker, InLine, NEW w \in Workers, WorkerDies(w)
  PROVE  OneTaker' /\ InLine'
<1>1. UNCHANGED <<producer, fileids, written>> /\ fileQueue' \subseteq fileQueue
  BY DEF WorkerDies, producerVars
<1>2. PICK n \in 0 .. Len(blockQueue[w]) :
        /\ blockQueue'[w] = SubSeq(blockQueue[w], 1, n)
        /\ \A v \in Workers : v # w => blockQueue'[v] = blockQueue[v]
  BY DiesShape
<1>3. /\ worker'[w].todo = <<>>
      /\ \A v \in Workers : v # w => worker'[v] = worker[v]
  BY DiesShape DEF Dead
<1>4. PICK q, t : q = blockQueue'[w] /\ t = worker'[w].todo
  OBVIOUS
<1>5. Sorted(q) /\ ToSet(q) \subseteq ToSet(blockQueue[w])
  <2>1. Sorted(blockQueue[w]) /\ blockQueue[w] \in Seq(AllOutputs)
    BY Numbers DEF InLine
  <2>2. QED
    BY <1>2, <1>4, <2>1, SortedPrefix
<1>6. Sorted(t) /\ ToSet(t) \subseteq ToSet(worker[w].todo)
  BY <1>3, <1>4, EmptySet DEF Sorted
<1>7. Pending' = Pending
  BY <1>1 DEF Pending
<1>8. PICK ids : ids = {}
  OBVIOUS
<1>9. ids \subseteq fileQueue /\ fileQueue' \subseteq fileQueue \ ids
  BY <1>1, <1>8
<1>10. QED
  BY <1>1, <1>2, <1>3, <1>4, <1>5, <1>6, <1>7, <1>9, LineBlocks

LEMMA LineWrite ==
  ASSUME TypeOK, Progress, OneTaker, InLine, WriteBlock
  PROVE  OneTaker' /\ InLine'
<1>1. UNCHANGED <<producer, fileids, fileQueue, worker>>
  BY DEF WriteBlock, producerVars
<1>2. PICK w \in Workers :
        /\ blockQueue[w] # <<>> /\ blockQueue[w] \in Seq(AllOutputs)
        /\ written' = Append(written, Head(blockQueue[w]))
        /\ blockQueue'[w] = Tail(blockQueue[w])
        /\ \A v \in Workers : v # w => blockQueue'[v] = blockQueue[v]
  BY WriteBlockShape
<1>3. PICK q, x, new : q = blockQueue[w] /\ x = Head(q) /\ new = Append(written, x)
  OBVIOUS
<1>4. written \in Seq(AllOutputs) /\ written' = new
  BY <1>2, <1>3, TypeFacts
<1>5. ToSet(new) = ToSet(written) \cup {x}
  BY <1>3, <1>4, SetOfAppend
<1>6. x \in ToSet(q) /\ ToSet(q) = {x} \cup ToSet(Tail(q))
  BY <1>2, <1>3, SetOfTail
<1>7. Sorted(q) /\ Before(written, q)
  BY <1>3 DEF InLine
<1>8. Sorted(Tail(q)) /\ \A y \in ToSet(Tail(q)) : Precedes(x, y)
  BY <1>2, <1>3, <1>7, SortedTail
<1>9. Sorted(new)
  <2>1. Sorted(written) /\ \A y \in ToSet(written) : Precedes(y, x)
    BY <1>6, <1>7 DEF InLine, Before
  <2>2. QED
    BY <1>3, <1>4, <2>1, SortedAppend
<1>10. /\ FilesOf(new) \subseteq FilesOf(written) \cup FilesOfWorker(w)
       /\ x.file \in FilesOfWorker(w)
       /\ FilesOf(Tail(q)) \subseteq FilesOf(q)
  BY <1>3, <1>5, <1>6 DEF FilesOf, FilesOfWorker
<1>11. /\ \A v \in Workers : FilesOfWorker(v)' \subseteq FilesOfWorker(v)
       /\ FilesOf(written)' = FilesOf(new) /\ Pending' = Pending
  <2>1. \A v \in Workers : FilesOfWorker(v)' = FilesOf(blockQueue'[v]) \cup FilesOf(worker[v].todo)
    BY <1>1 DEF FilesOfWorker, FilesOf
  <2>2. \A v \in Workers : FilesOf(blockQueue'[v]) \subseteq FilesOf(blockQueue[v])
    BY <1>2, <1>3, <1>10
  <2>3. FilesOf(written)' = FilesOf(new) /\ Pending' = Pending
    BY <1>1, <1>4 DEF FilesOf, Pending
  <2>4. QED
    BY <2>1, <2>2, <2>3 DEF FilesOfWorker
<1>12. OneTaker'
  BY <1>1, <1>10, <1>11 DEF OneTaker
<1>13. ASSUME NEW v \in Workers
       PROVE  /\ Sorted(blockQueue'[v]) /\ Sorted(worker'[v].todo)
              /\ Before(new, blockQueue'[v]) /\ Before(new, worker'[v].todo)
              /\ Before(blockQueue'[v], worker'[v].todo)
  <2>1. CASE v = w
    <3>1. blockQueue'[v] = Tail(q) /\ worker'[v] = worker[w]
      BY <1>1, <1>2, <1>3, <2>1
    <3>2. Before(new, Tail(q))
      BY <1>5, <1>6, <1>7, <1>8 DEF Before
    <3>3. Before(written, worker[w].todo) /\ Before(q, worker[w].todo) /\ Sorted(worker[w].todo)
      BY <1>3 DEF InLine
    <3>4. Before(new, worker[w].todo) /\ Before(Tail(q), worker[w].todo)
      BY <1>5, <1>6, <3>3 DEF Before
    <3>5. QED
      BY <1>8, <3>1, <3>2, <3>3, <3>4
  <2>2. CASE v # w
    <3>1. blockQueue'[v] = blockQueue[v] /\ worker'[v] = worker[v]
      BY <1>1, <1>2, <2>2
    <3>2. /\ Sorted(blockQueue[v]) /\ Sorted(worker[v].todo)
          /\ Before(written, blockQueue[v]) /\ Before(written, worker[v].todo)
          /\ Before(blockQueue[v], worker[v].todo)
      BY DEF InLine
    <3>3. x.file \notin FilesOf(blockQueue[v]) /\ x.file \notin FilesOf(worker[v].todo)
      BY <1>10, <2>2 DEF OneTaker, FilesOfWorker
    <3>4. \A s : x.file \notin FilesOf(s) => \A y \in ToSet(s) : Precedes(x, y)
      BY DEF FilesOf, Precedes
    <3>5. Before(new, blockQueue[v]) /\ Before(new, worker[v].todo)
      BY <1>5, <3>2, <3>3, <3>4 DEF Before
    <3>6. QED
      BY <3>1, <3>2, <3>5
  <2>3. QED
    BY <2>1, <2>2
<1>14. InLine'
  BY <1>4, <1>9, <1>13 DEF InLine
<1>15. QED
  BY <1>12, <1>14

LEMMA LineFails ==
  ASSUME TypeOK, Progress, OneTaker, InLine, WriteFails
  PROVE  OneTaker' /\ InLine'
<1>1. UNCHANGED <<producer, fileids, fileQueue, worker, written>>
  BY DEF WriteFails, producerVars
<1>2. PICK w \in Workers, n \in Nat :
        /\ n \in 1 .. Len(blockQueue[w])
        /\ blockQueue[w] \in Seq(AllOutputs)
        /\ blockQueue'[w] = SubSeq(blockQueue[w], n + 1, Len(blockQueue[w]))
        /\ \A v \in Workers : v # w => blockQueue'[v] = blockQueue[v]
  BY WriteFailsShape
<1>3. PICK q, t : q = blockQueue'[w] /\ t = worker'[w].todo
  OBVIOUS
<1>4. Sorted(q) /\ ToSet(q) \subseteq ToSet(blockQueue[w])
  <2>1. Sorted(blockQueue[w])
    BY DEF InLine
  <2>2. QED
    BY <1>2, <1>3, <2>1, SortedRest
<1>5. Sorted(t) /\ ToSet(t) \subseteq ToSet(worker[w].todo)
  BY <1>1, <1>3 DEF InLine
<1>6. Pending' = Pending
  BY <1>1 DEF Pending
<1>7. PICK ids : ids = {}
  OBVIOUS
<1>8. ids \subseteq fileQueue /\ fileQueue' \subseteq fileQueue \ ids
  BY <1>1, <1>7
<1>9. QED
  BY <1>1, <1>2, <1>3, <1>4, <1>5, <1>6, <1>8, LineBlocks

LEMMA LineStep == TypeOK /\ Progress /\ OneTaker /\ InLine /\ [Next]_vars => OneTaker' /\ InLine'
<1> SUFFICES ASSUME TypeOK, Progress, OneTaker, InLine, [Next]_vars PROVE OneTaker' /\ InLine'
  OBVIOUS
<1>1. CASE UNCHANGED vars \/ WriterEnds
  <2>1. UNCHANGED <<producer, fileids, fileQueue, worker, blockQueue, written>>
    BY <1>1 DEF vars, producerVars, WriterEnds
  <2>2. QED
    BY <2>1 DEF OneTaker, InLine, Pending, FilesOfWorker, FilesOf
<1>2. CASE Main \/ FinishFails \/ Producer \/ ReadFails
  BY <1>2, LineMainProducer
<1>3. CASE \E w \in Workers : Worker(w)
  BY <1>3, LineTake, LinePut, LineIdle, LineDies DEF Worker
<1>4. CASE WriteBlock \/ WriteFails
  BY <1>4, LineWrite, LineFails
<1>5. QED
  BY <1>1, <1>2, <1>3, <1>4 DEF Next, Step, Terminating

(* The blocks of a file are written once each and in the order they have in
   the file, however many threads turn files into blocks, and whoever dies
   or fails.                                                               *)
THEOREM WritesInSourceOrder == Spec => []InSourceOrder
<1>1. InLine => InSourceOrder
  BY DEF InLine, Sorted, Precedes, InSourceOrder
<1>2. QED
  BY <1>1, Invariance, LineInit, LineStep, PTL DEF Spec

-----------------------------------------------------------------------------
(* What is lost is counted.                                                *)

Held(w) == ToSet(blockQueue[w]) \cup ToSet(worker[w].todo)

InSight == ToSet(written) \cup UNION {Held(w) : w \in Workers}

Waiting == fileQueue \cup Pending

(* The files of which a block will never be written.                       *)
Lost ==
  {id \in Ids \ Waiting : ~ Skipped(File(id)) /\ ~ Outputs(id) \subseteq InSight}

Allowed == 2 * GroupSize * Deaths + (IF producer = "failed" THEN GroupSize ELSE 0)
Live    == Cardinality({w \in Workers : ~ Terminated(w)})

LossCounted == writer # "failed" => Cardinality(Lost) <= Allowed

(* When a worker has ended, what is left in the queue is in the groups of
   the others; those of a worker that dies then count as lost with it.     *)
SomeEnded == \E w \in Workers : worker[w].pc = "ended"

RestCounted ==
  writer # "failed" /\ SomeEnded =>
    Cardinality(Lost \cup fileQueue) <= (GroupSize - 1) * Live + Allowed

LEMMA CardUnion ==
  ASSUME NEW S, NEW T, IsFiniteSet(S), IsFiniteSet(T)
  PROVE  /\ IsFiniteSet(S \cup T) /\ Cardinality(S \cup T) \in Nat
         /\ Cardinality(S) \in Nat /\ Cardinality(T) \in Nat
         /\ Cardinality(S \cup T) <= Cardinality(S) + Cardinality(T)
<1>1. IsFiniteSet(S \cup T) /\ IsFiniteSet(S \cap T)
  BY FS_Union, FS_Subset
<1>2. /\ Cardinality(S \cup T) \in Nat /\ Cardinality(S) \in Nat
      /\ Cardinality(T) \in Nat /\ Cardinality(S \cap T) \in Nat
  BY <1>1, FS_CardinalityType
<1>3. Cardinality(S \cup T) = Cardinality(S) + Cardinality(T) - Cardinality(S \cap T)
  BY FS_Union
<1>4. QED
  BY <1>1, <1>2, <1>3

LEMMA CardPart ==
  ASSUME NEW S, NEW T, IsFiniteSet(T), S \subseteq T
  PROVE  IsFiniteSet(S) /\ Cardinality(S) \in Nat /\ Cardinality(S) <= Cardinality(T)
<1>1. IsFiniteSet(S) /\ Cardinality(S) <= Cardinality(T)
  BY FS_Subset
<1>2. QED
  BY <1>1, FS_CardinalityType

(* There are no more values than places.                                   *)
LEMMA CardValues ==
  ASSUME NEW m \in Nat, NEW n \in Nat, NEW f, NEW T, m <= n,
         \A t \in T : \E i \in m + 1 .. n : f[i] = t
  PROVE  IsFiniteSet(T) /\ Cardinality(T) \in Nat /\ Cardinality(T) <= n - m
<1>1. PICK S : S = m + 1 .. n
  OBVIOUS
<1>2. IsFiniteSet(S) /\ Cardinality(S) = n - m
  <2>1. m + 1 \in Int /\ n \in Int
    OBVIOUS
  <2>2. IsFiniteSet(S) /\ Cardinality(S) = IF m + 1 > n THEN 0 ELSE n - (m + 1) + 1
    BY <1>1, <2>1, FS_Interval
  <2>3. (IF m + 1 > n THEN 0 ELSE n - (m + 1) + 1) = n - m
    OBVIOUS
  <2>4. QED
    BY <2>2, <2>3
<1>3. PICK U : U = {f[i] : i \in S}
  OBVIOUS
<1>4. PICK g : g = [i \in S |-> f[i]]
  OBVIOUS
<1>5. g \in [S -> U] /\ \A u \in U : \E i \in S : g[i] = u
  BY <1>3, <1>4
<1>6. g \in Surjection(S, U)
  BY <1>5 DEF Surjection
<1>7. IsFiniteSet(U) /\ Cardinality(U) <= Cardinality(S)
  BY <1>2, <1>6, FS_Surjection
<1>8. Cardinality(U) \in Nat
  BY <1>7, FS_CardinalityType
<1>9. T \subseteq U
  BY <1>1, <1>3
<1>10. IsFiniteSet(T) /\ Cardinality(T) \in Nat /\ Cardinality(T) <= Cardinality(U)
  BY <1>7, <1>9, CardPart
<1>11. QED
  BY <1>2, <1>7, <1>8, <1>10

LEMMA CountsFinite ==
  ASSUME TypeOK
  PROVE  /\ IsFiniteSet(Ids) /\ IsFiniteSet(fileQueue) /\ IsFiniteSet(Lost)
         /\ Cardinality(fileQueue) \in Nat /\ Cardinality(Lost) \in Nat
         /\ Deaths \in Nat /\ Live \in Nat /\ Allowed \in Nat
<1>1. IsFiniteSet(Ids)
  <2>1. 0 \in Int /\ Len(fileids) - 1 \in Int
    BY Numbers
  <2>2. QED
    BY <2>1, FS_Interval DEF Ids
<1>2. IsFiniteSet(fileQueue) /\ Cardinality(fileQueue) \in Nat
  BY <1>1, TypeFacts, CardPart
<1>3. IsFiniteSet(Lost) /\ Cardinality(Lost) \in Nat
  <2>1. Lost \subseteq Ids
    BY DEF Lost
  <2>2. QED
    BY <1>1, <2>1, CardPart
<1>4. Deaths \in Nat
  <2>1. {w \in Workers : worker[w].pc = "dead"} \subseteq Workers
    OBVIOUS
  <2>2. QED
    BY <2>1, InputAssumption, CardPart DEF Deaths
<1>5. Live \in Nat
  <2>1. {w \in Workers : ~ Terminated(w)} \subseteq Workers
    OBVIOUS
  <2>2. QED
    BY <2>1, InputAssumption, CardPart DEF Live
<1>6. Allowed \in Nat
  <2>1. GroupSize \in Nat
    BY Numbers
  <2>2. 2 * GroupSize * Deaths \in Nat
    BY <1>4, <2>1
  <2>3. QED
    BY <2>1, <2>2 DEF Allowed
<1>7. QED
  BY <1>1, <1>2, <1>3, <1>4, <1>5, <1>6

(* A step loses the files of which blocks go out of sight, and those that
   no longer wait and have not been taken.                                 *)
LEMMA LostStep ==
  ASSUME UNCHANGED <<listing, fileids>>, NEW gone,
         \A x \in InSight \ InSight' : x.file \in gone,
         \A id \in Waiting \ Waiting' :
           id \in gone \/ Skipped(File(id)) \/ Outputs(id) \subseteq InSight'
  PROVE  Lost' \subseteq Lost \cup gone
<1>1. SUFFICES ASSUME NEW id \in Lost', id \notin gone PROVE id \in Lost
  OBVIOUS
<1>2. Ids' = Ids /\ File(id)' = File(id) /\ Outputs(id)' = Outputs(id)
  BY FilesSame
<1>3. Skipped(File(id))' <=> Skipped(File(id))
  BY <1>2 DEF Skipped
<1>4. /\ id \in Ids /\ id \notin Waiting' /\ ~ Skipped(File(id))
      /\ ~ Outputs(id) \subseteq InSight'
  BY <1>1, <1>2, <1>3 DEF Lost
<1>5. id \notin Waiting
  BY <1>1, <1>4
<1>6. ~ Outputs(id) \subseteq InSight
  <2>1. PICK x \in Outputs(id) : x \notin InSight'
    BY <1>4
  <2>2. x.file = id
    BY DEF Outputs
  <2>3. QED
    BY <1>1, <2>1, <2>2
<1>7. QED
  BY <1>4, <1>5, <1>6 DEF Lost

(* When no worker terminates and the producer does not fail, what may be
   lost does not change.                                                   *)
LEMMA CountsSame ==
  ASSUME producer' = "failed" <=> producer = "failed",
         \A w \in Workers : \/ worker'[w].pc = worker[w].pc
                            \/ worker[w].pc \in {"take", "put"} /\ worker'[w].pc \in {"take", "put"}
  PROVE  /\ Deaths' = Deaths /\ Live' = Live /\ Allowed' = Allowed
         /\ SomeEnded' <=> SomeEnded
<1>1. \A w \in Workers : /\ worker'[w].pc = "dead" <=> worker[w].pc = "dead"
                         /\ worker'[w].pc = "ended" <=> worker[w].pc = "ended"
  OBVIOUS
<1>2. Deaths' = Deaths
  BY <1>1 DEF Deaths
<1>3. \A w \in Workers : Terminated(w)' <=> Terminated(w)
  BY <1>1 DEF Terminated
<1>4. Live' = Live
  BY <1>3 DEF Live
<1>5. QED
  BY <1>1, <1>2, <1>4 DEF Allowed, SomeEnded

(* ... and what is lost is counted if no more is.                          *)
LEMMA CountedSame ==
  ASSUME TypeOK, TypeOK', LossCounted, RestCounted,
         producer' = "failed" <=> producer = "failed",
         \A w \in Workers : \/ worker'[w].pc = worker[w].pc
                            \/ worker[w].pc \in {"take", "put"} /\ worker'[w].pc \in {"take", "put"},
         writer' # "failed" => writer # "failed",
         writer' # "failed" => Lost' \subseteq Lost,
         writer' # "failed" /\ SomeEnded => fileQueue' \subseteq fileQueue
  PROVE  LossCounted' /\ RestCounted'
<1>1. /\ Live' = Live /\ Allowed' = Allowed /\ (SomeEnded' <=> SomeEnded)
  BY CountsSame
<1>2. IsFiniteSet(Lost) /\ Cardinality(Lost) \in Nat /\ Allowed \in Nat /\ IsFiniteSet(fileQueue)
      /\ Live \in Nat /\ GroupSize \in Nat
  BY CountsFinite, Numbers
<1>3. LossCounted'
  <2>1. SUFFICES ASSUME writer' # "failed" PROVE Cardinality(Lost') <= Allowed'
    BY DEF LossCounted
  <2>2. Cardinality(Lost') \in Nat /\ Cardinality(Lost') <= Cardinality(Lost)
    BY <1>2, <2>1, CardPart
  <2>3. Cardinality(Lost) <= Allowed
    BY <2>1 DEF LossCounted
  <2>4. QED
    BY <1>1, <1>2, <2>2, <2>3
<1>4. RestCounted'
  <2>1. SUFFICES ASSUME writer' # "failed", SomeEnded'
                 PROVE  Cardinality((Lost \cup fileQueue)') <= (GroupSize - 1) * Live' + Allowed'
    BY DEF RestCounted
  <2>2. (Lost \cup fileQueue)' \subseteq Lost \cup fileQueue
    BY <1>1, <2>1
  <2>3. IsFiniteSet(Lost \cup fileQueue) /\ Cardinality(Lost \cup fileQueue) \in Nat
    BY <1>2, CardUnion
  <2>4. /\ Cardinality((Lost \cup fileQueue)') \in Nat
        /\ Cardinality((Lost \cup fileQueue)') <= Cardinality(Lost \cup fileQueue)
    BY <2>2, <2>3, CardPart
  <2>5. Cardinality(Lost \cup fileQueue) <= (GroupSize - 1) * Live + Allowed
    BY <1>1, <2>1 DEF RestCounted
  <2>6. PICK most : most = (GroupSize - 1) * Live + Allowed
    OBVIOUS
  <2>7. most \in Int
    BY <1>2, <2>6
  <2>8. QED
    BY <1>1, <2>3, <2>4, <2>5, <2>6, <2>7
<1>5. QED
  BY <1>3, <1>4

LEMMA SightMoves ==
  ASSUME ToSet(written) \subseteq ToSet(written'),
         \A w \in Workers : Held(w) \subseteq Held(w)' \cup ToSet(written')
  PROVE  InSight \subseteq InSight'
  BY DEF InSight

(* A worker ends when the producer has.                                    *)
LEMMA EndedLate ==
  ASSUME Progress, SomeEnded
  PROVE  producer \in {"ended", "failed"} /\ Pending = {}
  BY DEF Progress, MainProgress, ThreadProgress, SomeEnded, Pending

LEMMA CountedInit == Init => LossCounted /\ RestCounted
<1> SUFFICES ASSUME Init PROVE LossCounted /\ RestCounted
  OBVIOUS
<1>1. fileids = <<>> /\ \A w \in Workers : worker[w].pc = "take"
  BY DEF Init, Taking
<1>2. Ids = {}
  BY <1>1 DEF Ids
<1>3. Lost = {} /\ ~ SomeEnded
  BY <1>1, <1>2 DEF Lost, SomeEnded
<1>4. Cardinality(Lost) = 0
  BY <1>3, FS_EmptySet
<1>5. TypeOK
  BY ProgressInit
<1>6. Allowed \in Nat
  BY <1>5, CountsFinite
<1>7. QED
  BY <1>3, <1>4, <1>6 DEF LossCounted, RestCounted

LEMMA CountedMain ==
  ASSUME TypeOK, TypeOK', Progress, LossCounted, RestCounted,
         Main \/ FinishFails \/ WriterEnds \/ UNCHANGED vars
  PROVE  LossCounted' /\ RestCounted'
<1>1. /\ UNCHANGED <<listing, fileids, producer, fileQueue, worker, blockQueue, written>>
      /\ writer' # "failed" => writer # "failed"
  BY DEF Main, JoinProducer, PoisonFiles, JoinWorkers, PoisonBlocks, Finish, FinishFails, WriterEnds,
         vars, producerVars
<1>2. Waiting' = Waiting /\ InSight' = InSight
  BY <1>1 DEF Waiting, Pending, InSight, Held
<1>3. PICK gone : gone = {}
  OBVIOUS
<1>4. Lost' \subseteq Lost \cup gone
  BY <1>1, <1>2, LostStep
<1>5. Lost' \subseteq Lost
  BY <1>3, <1>4
<1>6. QED
  BY <1>1, <1>5, CountedSame

LEMMA CountedProducer ==
  ASSUME TypeOK, TypeOK', Progress, OneTaker, LossCounted, RestCounted, Producer
  PROVE  LossCounted' /\ RestCounted'
<1> USE DEF producerVars
<1>1. UNCHANGED <<listing, main, worker, blockQueue, writer, written>>
  BY DEF Producer, SkipFile, Record, PutFile, ProducerEnds
<1>2. /\ producer \in {"next", "put"} /\ producer' # "failed"
  BY DEF Producer, SkipFile, Record, PutFile, ProducerEnds, AtFile
<1>3. ~ SomeEnded
  BY <1>2, EndedLate
<1>4. InSight' = InSight
  BY <1>1 DEF InSight, Held
<1>5. Lost' \subseteq Lost
  <2>1. CASE Record
    <3>1. Len(fileids') = Len(fileids) + 1 /\ Len(fileids) \in Nat
      BY <2>1, FilesMore, Numbers
    <3>2. Pending' = {Len(fileids)} /\ fileQueue' = fileQueue /\ Pending = {}
      <4>1. Len(fileids') - 1 = Len(fileids)
        BY <3>1
      <4>2. QED
        BY <2>1, <4>1 DEF Record, AtFile, Pending
    <3>3. Waiting' = Waiting \cup {Len(fileids)}
      BY <3>2 DEF Waiting
    <3>4. Ids' \ Waiting' \subseteq Ids \ Waiting
      BY <2>1, <3>3, FilesMore
    <3>5. \A id \in Ids : /\ Outputs(id)' = Outputs(id)
                          /\ Skipped(File(id))' <=> Skipped(File(id))
      BY <2>1, FilesMore DEF Skipped
    <3>6. QED
      BY <1>4, <3>4, <3>5 DEF Lost
  <2>2. CASE PutFile \/ SkipFile \/ ProducerEnds
    <3>1. fileids' = fileids
      BY <2>2 DEF PutFile, SkipFile, ProducerEnds
    <3>2. Waiting \subseteq Waiting'
      <4>1. CASE PutFile
        BY <4>1 DEF PutFile, Waiting, Pending
      <4>2. CASE SkipFile \/ ProducerEnds
        BY <4>2 DEF SkipFile, ProducerEnds, AtFile, Waiting, Pending
      <4>3. QED
        BY <2>2, <4>1, <4>2
    <3>3. PICK gone : gone = {}
      OBVIOUS
    <3>4. Lost' \subseteq Lost \cup gone
      BY <1>1, <1>4, <3>1, <3>2, LostStep
    <3>5. QED
      BY <3>3, <3>4
  <2>3. QED
    BY <2>1, <2>2 DEF Producer
<1>6. producer # "failed" /\ producer' # "failed"
  BY <1>2
<1>7. QED
  BY <1>1, <1>3, <1>5, <1>6, CountedSame

(* The producer fails: the files in its buffer, which are the last ones put,
   are not flushed.                                                        *)
LEMMA CountedReadFails ==
  ASSUME TypeOK, TypeOK', Progress, LossCounted, RestCounted, ReadFails
  PROVE  LossCounted' /\ RestCounted'
<1> USE DEF producerVars
<1>1. /\ UNCHANGED <<listing, fileids, worker, blockQueue, writer, written>>
      /\ producer = "next" /\ producer' = "failed"
  BY DEF ReadFails, AtFile
<1>2. PICK buffered \in 0 .. GroupSize :
        fileQueue' = {id \in fileQueue : id + buffered < Len(fileids)}
  BY DEF ReadFails
<1>3. ~ SomeEnded
  BY <1>1, EndedLate
<1>4. InSight' = InSight
  BY <1>1 DEF InSight, Held
<1>5. PICK gone : gone = {id \in fileQueue : ~ (id + buffered < Len(fileids))}
  OBVIOUS
<1>6. Lost' \subseteq Lost \cup gone
  <2>1. Waiting \ Waiting' \subseteq gone
    BY <1>1, <1>2, <1>5 DEF Waiting, Pending
  <2>2. QED
    BY <1>1, <1>4, <2>1, LostStep
<1>7. IsFiniteSet(gone) /\ Cardinality(gone) \in Nat /\ Cardinality(gone) <= GroupSize
  <2>1. Len(fileids) \in Nat /\ GroupSize \in Nat /\ buffered \in Nat /\ buffered <= GroupSize
    BY Numbers
  <2>2. gone \subseteq Len(fileids) - buffered .. Len(fileids) - 1
    <3>1. gone \subseteq Ids
      BY <1>5, TypeFacts
    <3>2. \A id \in gone : id \in 0 .. Len(fileids) - 1
      BY <3>1 DEF Ids
    <3>3. \A id \in gone : ~ (id + buffered < Len(fileids))
      BY <1>5
    <3>4. QED
      BY <2>1, <3>2, <3>3
  <2>3. PICK a, b \in Int : a = Len(fileids) - buffered /\ b = Len(fileids) - 1
    BY <2>1
  <2>4. IsFiniteSet(a .. b) /\ Cardinality(a .. b) = IF a > b THEN 0 ELSE b - a + 1
    BY FS_Interval
  <2>5. (IF a > b THEN 0 ELSE b - a + 1) <= GroupSize
    BY <2>1, <2>3
  <2>6. IsFiniteSet(gone) /\ Cardinality(gone) \in Nat /\ Cardinality(gone) <= Cardinality(a .. b)
    BY <2>2, <2>3, <2>4, CardPart
  <2>7. Cardinality(a .. b) \in Int
    BY <2>4
  <2>8. QED
    BY <2>1, <2>4, <2>5, <2>6, <2>7
<1>8. LossCounted'
  <2>1. SUFFICES ASSUME writer # "failed" PROVE Cardinality(Lost') <= Allowed'
    BY <1>1 DEF LossCounted
  <2>2. Deaths' = Deaths
    BY <1>1 DEF Deaths
  <2>3. PICK costs : costs = 2 * GroupSize * Deaths
    OBVIOUS
  <2>4. Allowed = costs + 0 /\ Allowed' = costs + GroupSize
    BY <1>1, <2>2, <2>3 DEF Allowed
  <2>5. costs \in Nat /\ GroupSize \in Nat
    <3>1. GroupSize \in Nat /\ Deaths \in Nat
      BY CountsFinite, Numbers
    <3>2. QED
      BY <2>3, <3>1
  <2>6. Cardinality(Lost) <= Allowed
    BY <2>1 DEF LossCounted
  <2>7. IsFiniteSet(Lost) /\ Cardinality(Lost) \in Nat
    BY CountsFinite
  <2>8. /\ IsFiniteSet(Lost \cup gone) /\ Cardinality(Lost \cup gone) \in Nat
        /\ Cardinality(Lost \cup gone) <= Cardinality(Lost) + Cardinality(gone)
    BY <1>7, <2>7, CardUnion
  <2>9. Cardinality(Lost') \in Nat /\ Cardinality(Lost') <= Cardinality(Lost \cup gone)
    BY <1>6, <2>8, CardPart
  <2>10. QED
    BY <1>7, <2>4, <2>5, <2>6, <2>7, <2>8, <2>9
<1>9. RestCounted'
  BY <1>1, <1>3 DEF RestCounted, SomeEnded
<1>10. QED
  BY <1>8, <1>9

LEMMA CountedTake ==
  ASSUME TypeOK, TypeOK', Progress, LossCounted, RestCounted, NEW w \in Workers, TakeFile(w)
  PROVE  LossCounted' /\ RestCounted'
<1>1. UNCHANGED <<listing, fileids, producer, written, blockQueue, writer>>
  BY DEF TakeFile, producerVars
<1>2. PICK id \in fileQueue :
        /\ id \in Ids
        /\ fileQueue' = fileQueue \ {id}
        /\ worker[w].pc = "take"
        /\ worker'[w] = IF Skipped(File(id)) THEN Taking
                        ELSE [pc |-> "put", todo |-> Taken(id)]
        /\ \A v \in Workers : v # w => worker'[v] = worker[v]
  BY TakeFileShape
<1>3. worker[w].todo = <<>>
  BY <1>2 DEF Progress, ThreadProgress
<1>4. \A v \in Workers : Held(v) \subseteq Held(v)'
  BY <1>1, <1>2, <1>3, EmptySet DEF Held
<1>5. InSight \subseteq InSight'
  BY <1>1, <1>4, SightMoves
<1>6. Skipped(File(id)) \/ Outputs(id) \subseteq InSight'
  <2>1. SUFFICES ASSUME ~ Skipped(File(id)) PROVE Outputs(id) \subseteq InSight'
    OBVIOUS
  <2>2. worker'[w].todo = Taken(id)
    BY <1>2, <2>1
  <2>3. Outputs(id) = ToSet(Taken(id))
    BY <1>2, TakenBlocks
  <2>4. QED
    BY <2>2, <2>3 DEF InSight, Held
<1>7. PICK gone : gone = {}
  OBVIOUS
<1>8. Waiting \ Waiting' \subseteq {id}
  BY <1>1, <1>2 DEF Waiting, Pending
<1>9. Lost' \subseteq Lost \cup gone
  BY <1>1, <1>5, <1>6, <1>8, LostStep
<1>10. worker'[w].pc \in {"take", "put"}
  BY <1>2 DEF Taking
<1>11. QED
  BY <1>1, <1>2, <1>7, <1>9, <1>10, CountedSame

LEMMA CountedPut ==
  ASSUME TypeOK, TypeOK', Progress, LossCounted, RestCounted, NEW w \in Workers, PutBlock(w)
  PROVE  LossCounted' /\ RestCounted'
<1>1. UNCHANGED <<listing, fileids, producer, written, fileQueue, writer>>
  BY DEF PutBlock, producerVars
<1>2. PICK q, t : q = blockQueue[w] /\ t = worker[w].todo
  OBVIOUS
<1>3. q \in Seq(AllOutputs) /\ t \in Seq(AllOutputs) /\ t # <<>>
  BY <1>2, Numbers, PutBlockShape
<1>4. /\ blockQueue'[w] = Append(q, Head(t)) /\ worker[w].pc = "put"
      /\ worker'[w] = [pc |-> "put", todo |-> Tail(t)]
      /\ \A v \in Workers : v # w => /\ blockQueue'[v] = blockQueue[v]
                                     /\ worker'[v] = worker[v]
  BY <1>2, PutBlockShape
<1>5. worker'[w].pc = "put" /\ worker'[w].todo = Tail(t)
  BY <1>4
<1>6. /\ ToSet(Append(q, Head(t))) = ToSet(q) \cup {Head(t)}
      /\ ToSet(t) = {Head(t)} \cup ToSet(Tail(t))
  BY <1>3, SetOfAppend, SetOfTail
<1>7. Held(w)' = ToSet(Append(q, Head(t))) \cup ToSet(Tail(t)) /\ Held(w) = ToSet(q) \cup ToSet(t)
  BY <1>2, <1>4, <1>5 DEF Held
<1>8. \A v \in Workers : Held(v) \subseteq Held(v)'
  BY <1>4, <1>6, <1>7 DEF Held
<1>9. InSight \subseteq InSight' /\ Waiting' = Waiting
  BY <1>1, <1>8, SightMoves DEF Waiting, Pending
<1>10. PICK gone : gone = {}
  OBVIOUS
<1>11. Lost' \subseteq Lost \cup gone
  BY <1>1, <1>9, LostStep
<1>12. QED
  BY <1>1, <1>4, <1>5, <1>10, <1>11, CountedSame

LEMMA CountedNext ==
  ASSUME TypeOK, TypeOK', Progress, LossCounted, RestCounted, NEW w \in Workers, NextFile(w)
  PROVE  LossCounted' /\ RestCounted'
<1>1. UNCHANGED <<listing, fileids, producer, written, fileQueue, blockQueue, writer>>
  BY DEF NextFile, producerVars
<1>2. /\ worker[w].todo = <<>> /\ worker[w].pc \in {"take", "put"}
      /\ worker'[w].pc = "take" /\ worker'[w].todo = <<>>
      /\ \A v \in Workers : v # w => worker'[v] = worker[v]
  BY IdleShape DEF Taking
<1>3. InSight \subseteq InSight' /\ Waiting' = Waiting
  <2>1. \A v \in Workers : Held(v) \subseteq Held(v)'
    BY <1>1, <1>2 DEF Held
  <2>2. QED
    BY <1>1, <2>1, SightMoves DEF Waiting, Pending
<1>4. PICK gone : gone = {}
  OBVIOUS
<1>5. Lost' \subseteq Lost \cup gone
  BY <1>1, <1>3, LostStep
<1>6. QED
  BY <1>1, <1>2, <1>4, <1>5, CountedSame

LEMMA CountedWrite ==
  ASSUME TypeOK, TypeOK', Progress, LossCounted, RestCounted, WriteBlock
  PROVE  LossCounted' /\ RestCounted'
<1>1. UNCHANGED <<listing, fileids, producer, fileQueue, worker, writer>>
  BY DEF WriteBlock, producerVars
<1>2. PICK w \in Workers :
        /\ blockQueue[w] # <<>> /\ blockQueue[w] \in Seq(AllOutputs)
        /\ written' = Append(written, Head(blockQueue[w]))
        /\ blockQueue'[w] = Tail(blockQueue[w])
        /\ \A v \in Workers : v # w => blockQueue'[v] = blockQueue[v]
  BY WriteBlockShape
<1>3. ToSet(written') = ToSet(written) \cup {Head(blockQueue[w])}
  BY <1>2, TypeFacts, SetOfAppend
<1>4. ToSet(blockQueue[w]) = {Head(blockQueue[w])} \cup ToSet(Tail(blockQueue[w]))
  BY <1>2, SetOfTail
<1>5. \A v \in Workers : Held(v) \subseteq Held(v)' \cup ToSet(written')
  BY <1>1, <1>2, <1>3, <1>4 DEF Held
<1>6. InSight \subseteq InSight' /\ Waiting' = Waiting
  BY <1>1, <1>3, <1>5, SightMoves DEF Waiting, Pending
<1>7. PICK gone : gone = {}
  OBVIOUS
<1>8. Lost' \subseteq Lost \cup gone
  BY <1>1, <1>6, LostStep
<1>9. QED
  BY <1>1, <1>7, <1>8, CountedSame

(* A worker terminates: one thread less goes on.                           *)
LEMMA LiveLess ==
  ASSUME NEW w \in Workers, ~ Terminated(w), Terminated(w)',
         \A v \in Workers : v # w => worker'[v] = worker[v]
  PROVE  /\ Live \in Nat /\ Live' = Live - 1
         /\ Cardinality({v \in Workers \ {w} : ~ Terminated(v)}) = Live'
<1>1. PICK S : S = {v \in Workers : ~ Terminated(v)}
  OBVIOUS
<1>2. IsFiniteSet(S) /\ Cardinality(S) \in Nat
  BY <1>1, InputAssumption, CardPart
<1>3. {v \in Workers : ~ Terminated(v)'} = S \ {w}
  BY <1>1 DEF Terminated
<1>4. {v \in Workers \ {w} : ~ Terminated(v)} = S \ {w}
  BY <1>1
<1>5. w \in S
  BY <1>1
<1>6. Cardinality(S \ {w}) = Cardinality(S) - 1
  BY <1>2, <1>5, FS_RemoveElement
<1>7. Live = Cardinality(S) /\ Live' = Cardinality(S \ {w})
  BY <1>1, <1>3 DEF Live
<1>8. QED
  BY <1>2, <1>4, <1>6, <1>7

(* The last groups: what is left in the queue are those of the others.     *)
LEMMA CountedEnds ==
  ASSUME TypeOK, TypeOK', Progress, LossCounted, NEW w \in Workers, WorkerEnds(w)
  PROVE  LossCounted' /\ RestCounted'
<1>1. UNCHANGED <<listing, fileids, producer, written, fileQueue, blockQueue, writer>>
  BY DEF WorkerEnds, producerVars
<1>2. /\ worker[w].todo = <<>> /\ worker[w].pc = "take" /\ ~ NextFile(w)
  BY IdleShape DEF WorkerEnds, NextFile
<1>3. /\ worker'[w].pc = "ended" /\ worker'[w].todo = <<>>
      /\ \A v \in Workers : v # w => worker'[v] = worker[v]
  BY <1>2, IdleShape DEF Ended
<1>4. InSight \subseteq InSight' /\ Waiting' = Waiting
  <2>1. \A v \in Workers : Held(v) \subseteq Held(v)'
    BY <1>1, <1>2, <1>3 DEF Held
  <2>2. QED
    BY <1>1, <2>1, SightMoves DEF Waiting, Pending
<1>5. PICK gone : gone = {}
  OBVIOUS
<1>6. Lost' \subseteq Lost \cup gone
  BY <1>1, <1>4, LostStep
<1>7. Lost' \subseteq Lost
  BY <1>5, <1>6
<1>8. Deaths' = Deaths /\ Allowed' = Allowed
  <2>1. {v \in Workers : worker'[v].pc = "dead"} = {v \in Workers : worker[v].pc = "dead"}
    BY <1>2, <1>3
  <2>2. Deaths' = Deaths
    BY <2>1 DEF Deaths
  <2>3. QED
    BY <1>1, <2>2 DEF Allowed
<1>9. Live' \in Nat /\ Cardinality(fileQueue) <= (GroupSize - 1) * Live'
  <2>1. ~ Terminated(w) /\ Terminated(w)'
    BY <1>2, <1>3 DEF Terminated
  <2>2. Cardinality({v \in Workers \ {w} : ~ Terminated(v)}) = Live'
    BY <1>3, <2>1, LiveLess
  <2>3. Cardinality(fileQueue) <= HeldByOthers(w)
    BY DEF WorkerEnds
  <2>4. Live' \in Nat
    <3>1. {v \in Workers \ {w} : ~ Terminated(v)} \subseteq Workers
      OBVIOUS
    <3>2. QED
      BY <2>2, <3>1, InputAssumption, CardPart
  <2>5. QED
    BY <2>2, <2>3, <2>4 DEF HeldByOthers
<1>10. CASE writer = "failed"
  BY <1>1, <1>10 DEF LossCounted, RestCounted
<1>11. CASE writer # "failed"
  <2>1. Cardinality(Lost) <= Allowed
    BY <1>11 DEF LossCounted
  <2>2. /\ IsFiniteSet(Lost) /\ Cardinality(Lost) \in Nat /\ Allowed \in Nat
        /\ IsFiniteSet(fileQueue) /\ Cardinality(fileQueue) \in Nat /\ GroupSize \in Nat
    BY CountsFinite, Numbers
  <2>3. /\ IsFiniteSet(Lost') /\ Cardinality(Lost') \in Nat
        /\ Cardinality(Lost') <= Cardinality(Lost)
    BY <1>7, <2>2, CardPart
  <2>4. Cardinality(Lost') <= Allowed
    BY <2>1, <2>2, <2>3
  <2>5. /\ Cardinality(Lost' \cup fileQueue) \in Nat
        /\ Cardinality(Lost' \cup fileQueue) <= Cardinality(Lost') + Cardinality(fileQueue)
    BY <2>2, <2>3, CardUnion
  <2>6. PICK most : most = (GroupSize - 1) * Live'
    OBVIOUS
  <2>7. most \in Int
    BY <1>9, <2>2, <2>6
  <2>8. Cardinality(Lost' \cup fileQueue) <= most + Allowed
    BY <1>9, <2>2, <2>3, <2>4, <2>5, <2>6, <2>7
  <2>9. QED
    BY <1>1, <1>8, <2>4, <2>6, <2>8 DEF LossCounted, RestCounted
<1>12. QED
  BY <1>10, <1>11

(* A worker dies: at most a group of files, the one that kills it with the
   rest of its group, and a group of blocks.                               *)
LEMMA CountedDies ==
  ASSUME TypeOK, TypeOK', Progress, LossCounted, RestCounted, NEW w \in Workers, WorkerDies(w)
  PROVE  LossCounted' /\ RestCounted'
<1>1. UNCHANGED <<listing, fileids, producer, written, writer>>
  BY DEF WorkerDies, producerVars
<1>2. PICK id \in fileQueue, heldBack \in SUBSET fileQueue :
        /\ id \notin heldBack /\ Cardinality(heldBack) < GroupSize
        /\ fileQueue' = fileQueue \ ({id} \cup heldBack)
  BY DiesShape
<1>3. PICK files : files = {id} \cup heldBack
  OBVIOUS
<1>4. PICK n \in Nat :
        /\ n \in 0 .. Len(blockQueue[w])
        /\ n + GroupSize >= Len(blockQueue[w])
        /\ blockQueue'[w] = SubSeq(blockQueue[w], 1, n)
        /\ \A v \in Workers : v # w => blockQueue'[v] = blockQueue[v]
  BY DiesShape
<1>5. /\ worker[w].todo = <<>> /\ worker[w].pc = "take"
      /\ worker'[w].pc = "dead" /\ worker'[w].todo = <<>>
      /\ \A v \in Workers : v # w => worker'[v] = worker[v]
  BY DiesShape DEF Dead
<1>6. PICK q \in Seq(AllOutputs), len \in Nat : q = blockQueue[w] /\ len = Len(q)
  <2>1. blockQueue[w] \in Seq(AllOutputs)
    BY Numbers
  <2>2. QED
    BY <2>1
<1>7. PICK f : f = [i \in 1 .. len |-> q[i].file]
  OBVIOUS
<1>8. PICK cut : cut = {f[i] : i \in n + 1 .. len}
  OBVIOUS
<1>9. GroupSize \in Nat /\ n <= len /\ len - n <= GroupSize
  BY <1>4, <1>6, Numbers
<1>10. IsFiniteSet(cut) /\ Cardinality(cut) \in Nat /\ Cardinality(cut) <= GroupSize
  <2>1. \A t \in cut : \E i \in n + 1 .. len : f[i] = t
    BY <1>8
  <2>2. IsFiniteSet(cut) /\ Cardinality(cut) \in Nat /\ Cardinality(cut) <= len - n
    BY <1>9, <2>1, CardValues
  <2>3. QED
    BY <1>9, <2>2
<1>11. IsFiniteSet(files) /\ Cardinality(files) \in Nat /\ Cardinality(files) <= GroupSize
  <2>1. IsFiniteSet(heldBack) /\ Cardinality(heldBack) \in Nat
    BY CountsFinite, CardPart
  <2>2. IsFiniteSet(heldBack \cup {id}) /\ Cardinality(heldBack \cup {id}) = Cardinality(heldBack) + 1
    BY <1>2, <2>1, FS_AddElement
  <2>3. files = heldBack \cup {id}
    BY <1>3
  <2>4. QED
    BY <1>2, <1>9, <2>1, <2>2, <2>3
<1>12. Lost' \subseteq Lost \cup (files \cup cut)
  <2>1. \A x \in InSight \ InSight' : x.file \in cut
    <3>1. SUFFICES ASSUME NEW x \in InSight, x \notin InSight' PROVE x.file \in cut
      OBVIOUS
    <3>2. \A v \in Workers : v # w => Held(v)' = Held(v)
      BY <1>4, <1>5 DEF Held
    <3>3. x \in Held(w) /\ x \notin Held(w)'
      BY <1>1, <3>1, <3>2 DEF InSight
    <3>4. x \in ToSet(q) /\ x \notin ToSet(SubSeq(q, 1, n))
      BY <1>4, <1>5, <1>6, <3>3, EmptySet DEF Held
    <3>5. PICK i \in 1 .. len : x = q[i]
      BY <1>6, <3>4 DEF ToSet
    <3>6. i \notin 1 .. n
      <4>1. DOMAIN SubSeq(q, 1, n) = 1 .. n /\ \A j \in 1 .. n : SubSeq(q, 1, n)[j] = q[j]
        BY <1>4, <1>6, SetOfPrefix
      <4>2. QED
        BY <3>4, <3>5, <4>1 DEF ToSet
    <3>7. i \in n + 1 .. len
      BY <1>9, <3>5, <3>6
    <3>8. QED
      BY <1>7, <1>8, <3>5, <3>7
  <2>2. Waiting \ Waiting' \subseteq files
    BY <1>1, <1>2, <1>3 DEF Waiting, Pending
  <2>3. PICK gone : gone = files \cup cut
    OBVIOUS
  <2>4. QED
    BY <1>1, <2>1, <2>2, <2>3, LostStep
<1>13. Deaths' = Deaths + 1 /\ Deaths \in Nat
  <2>1. PICK S : S = {v \in Workers : worker[v].pc = "dead"}
    OBVIOUS
  <2>2. IsFiniteSet(S) /\ Cardinality(S) \in Nat /\ w \notin S
    BY <1>5, <2>1, InputAssumption, CardPart
  <2>3. {v \in Workers : worker'[v].pc = "dead"} = S \cup {w}
    BY <1>5, <2>1
  <2>4. Cardinality(S \cup {w}) = Cardinality(S) + 1
    BY <2>2, FS_AddElement
  <2>5. QED
    BY <2>1, <2>2, <2>3, <2>4 DEF Deaths
<1>14. Live \in Nat /\ Live' = Live - 1
  <2>1. ~ Terminated(w) /\ Terminated(w)'
    BY <1>5 DEF Terminated
  <2>2. QED
    BY <1>5, <2>1, LiveLess
<1>15. Allowed \in Nat /\ Allowed' = Allowed + 2 * GroupSize
  <2>1. PICK rest : rest = IF producer = "failed" THEN GroupSize ELSE 0
    OBVIOUS
  <2>2. Allowed = 2 * GroupSize * Deaths + rest /\ Allowed' = 2 * GroupSize * (Deaths + 1) + rest
    BY <1>1, <1>13, <2>1 DEF Allowed
  <2>3. 2 * GroupSize * (Deaths + 1) = 2 * GroupSize * Deaths + 2 * GroupSize
    BY <1>9, <1>13
  <2>4. rest \in Nat /\ 2 * GroupSize * Deaths \in Nat /\ 2 * GroupSize \in Nat
    BY <1>9, <1>13, <2>1
  <2>5. QED
    BY <2>2, <2>3, <2>4
<1>16. IsFiniteSet(Lost) /\ Cardinality(Lost) \in Nat /\ IsFiniteSet(fileQueue)
  BY CountsFinite
<1>17. ASSUME writer # "failed" PROVE Cardinality(Lost') <= Allowed'
  <2>1. /\ IsFiniteSet(files \cup cut) /\ Cardinality(files \cup cut) \in Nat
        /\ Cardinality(files \cup cut) <= Cardinality(files) + Cardinality(cut)
    BY <1>10, <1>11, CardUnion
  <2>2. /\ IsFiniteSet(Lost \cup (files \cup cut)) /\ Cardinality(Lost \cup (files \cup cut)) \in Nat
        /\ Cardinality(Lost \cup (files \cup cut)) <= Cardinality(Lost) + Cardinality(files \cup cut)
    BY <1>16, <2>1, CardUnion
  <2>3. /\ Cardinality(Lost') \in Nat
        /\ Cardinality(Lost') <= Cardinality(Lost \cup (files \cup cut))
    BY <1>12, <2>2, CardPart
  <2>4. Cardinality(Lost) <= Allowed
    BY <1>17 DEF LossCounted
  <2>5. QED
    BY <1>9, <1>10, <1>11, <1>15, <1>16, <2>1, <2>2, <2>3, <2>4
<1>18. ASSUME writer # "failed", SomeEnded'
       PROVE  Cardinality((Lost \cup fileQueue)') <= (GroupSize - 1) * Live' + Allowed'
  <2>1. SomeEnded
    <3>1. PICK v \in Workers : worker'[v].pc = "ended"
      BY <1>18 DEF SomeEnded
    <3>2. v # w
      BY <1>5, <3>1
    <3>3. QED
      BY <1>5, <3>1, <3>2 DEF SomeEnded
  <2>2. Cardinality(Lost \cup fileQueue) <= (GroupSize - 1) * Live + Allowed
    BY <1>18, <2>1 DEF RestCounted
  <2>3. IsFiniteSet(Lost \cup fileQueue) /\ Cardinality(Lost \cup fileQueue) \in Nat
    BY <1>16, CardUnion
  <2>4. (Lost \cup fileQueue)' \subseteq (Lost \cup fileQueue) \cup cut
    BY <1>2, <1>3, <1>12
  <2>5. /\ IsFiniteSet((Lost \cup fileQueue) \cup cut)
        /\ Cardinality((Lost \cup fileQueue) \cup cut) \in Nat
        /\ Cardinality((Lost \cup fileQueue) \cup cut)
             <= Cardinality(Lost \cup fileQueue) + Cardinality(cut)
    BY <1>10, <2>3, CardUnion
  <2>6. /\ Cardinality((Lost \cup fileQueue)') \in Nat
        /\ Cardinality((Lost \cup fileQueue)') <= Cardinality((Lost \cup fileQueue) \cup cut)
    BY <2>4, <2>5, CardPart
  <2>7. PICK most : most = (GroupSize - 1) * Live
    OBVIOUS
  <2>8. most \in Int /\ (GroupSize - 1) * Live' = most - (GroupSize - 1)
    BY <1>9, <1>14, <2>7
  <2>9. Cardinality((Lost \cup fileQueue)') <= most + Allowed + GroupSize
    <3>1. PICK before : before = Cardinality(Lost \cup fileQueue)
      OBVIOUS
    <3>2. before \in Nat /\ before <= most + Allowed
      BY <2>2, <2>3, <2>7, <3>1
    <3>3. PICK more : more = Cardinality((Lost \cup fileQueue) \cup cut)
      OBVIOUS
    <3>4. more \in Nat /\ more <= before + Cardinality(cut)
      BY <2>5, <3>1, <3>3
    <3>5. more <= most + Allowed + GroupSize
      BY <1>9, <1>10, <1>15, <2>8, <3>2, <3>4
    <3>6. /\ Cardinality((Lost \cup fileQueue)') \in Nat
          /\ Cardinality((Lost \cup fileQueue)') <= more
      BY <2>6, <3>3
    <3>7. most + Allowed + GroupSize \in Int
      BY <1>9, <1>15, <2>8
    <3>8. QED
      BY <3>4, <3>5, <3>6, <3>7
  <2>10. QED
    BY <1>9, <1>15, <2>6, <2>8, <2>9
<1>19. QED
  BY <1>1, <1>17, <1>18 DEF LossCounted, RestCounted

LEMMA CountedStep ==
  TypeOK /\ TypeOK' /\ Progress /\ OneTaker /\ LossCounted /\ RestCounted /\ [Next]_vars
    => LossCounted' /\ RestCounted'
<1> SUFFICES ASSUME TypeOK, TypeOK', Progress, OneTaker, LossCounted, RestCounted, [Next]_vars
             PROVE  LossCounted' /\ RestCounted'
  OBVIOUS
<1>1. CASE UNCHANGED vars \/ WriterEnds \/ Main \/ FinishFails
  BY <1>1, CountedMain
<1>2. CASE Producer \/ ReadFails
  BY <1>2, CountedProducer, CountedReadFails
<1>3. CASE \E w \in Workers : Worker(w)
  BY <1>3, CountedTake, CountedPut, CountedNext, CountedEnds, CountedDies DEF Worker
<1>4. CASE WriteBlock
  BY <1>4, CountedWrite
<1>5. CASE WriteFails
  BY <1>5 DEF WriteFails, LossCounted, RestCounted
<1>6. QED
  BY <1>1, <1>2, <1>3, <1>4, <1>5 DEF Next, Step, Terminating

LEMMA Counting == Spec => [](LossCounted /\ RestCounted)
<1>1. Spec => [](TypeOK /\ Progress)
  BY Invariance
<1>2. Spec => []OneTaker
  BY Invariance, LineInit, LineStep, PTL DEF Spec
<1>3. QED
  BY <1>1, <1>2, CountedInit, CountedStep, PTL DEF Spec

(* When parse has returned, nothing is under way.                          *)
LEMMA NothingUnderWay ==
  ASSUME TypeOK, Progress, main = "done", writer = "ended"
  PROVE  Missing \subseteq Lost \cup fileQueue /\ Live = 0
<1>1. \A w \in Workers : Terminated(w) /\ blockQueue[w] = <<>>
  BY DEF Progress, MainProgress, ThreadProgress
<1>2. \A w \in Workers : worker[w].todo = <<>>
  BY <1>1 DEF Progress, ThreadProgress, Terminated
<1>3. InSight = ToSet(written)
  BY <1>1, <1>2, EmptySet DEF InSight, Held
<1>4. Pending = {}
  BY DEF Progress, MainProgress, Pending
<1>5. Missing \subseteq Lost \cup fileQueue
  BY <1>3, <1>4 DEF Missing, Lost, Waiting
<1>6. {w \in Workers : ~ Terminated(w)} = {}
  BY <1>1
<1>7. Live = 0
  BY <1>6, FS_EmptySet DEF Live
<1>8. QED
  BY <1>5, <1>7

LEMMA LossAtTheEnd ==
  ASSUME TypeOK, Progress, LossCounted, RestCounted, main = "done", writer = "ended", SomeEnded
  PROVE  /\ IsFiniteSet(Missing) /\ Cardinality(Missing) \in Nat
         /\ Cardinality(Missing) <= Allowed
<1>1. Missing \subseteq Lost \cup fileQueue /\ Live = 0
  BY NothingUnderWay
<1>2. GroupSize \in Nat /\ Allowed \in Nat
  BY CountsFinite, Numbers
<1>3. IsFiniteSet(Lost \cup fileQueue) /\ Cardinality(Lost \cup fileQueue) \in Nat
  BY CountsFinite, CardUnion
<1>4. Cardinality(Lost \cup fileQueue) <= (GroupSize - 1) * Live + Allowed
  BY DEF RestCounted
<1>5. (GroupSize - 1) * Live + Allowed = Allowed
  BY <1>1, <1>2
<1>6. /\ IsFiniteSet(Missing) /\ Cardinality(Missing) \in Nat
      /\ Cardinality(Missing) <= Cardinality(Lost \cup fileQueue)
  BY <1>1, <1>3, CardPart
<1>7. QED
  BY <1>2, <1>3, <1>4, <1>5, <1>6

(* A thread that dies costs no more than the file that kills it with the
   rest of its group, and the group of blocks in its buffer; and a producer
   that fails costs no more than the group of files in its.                *)
THEOREM BoundsTheLoss == Spec => []LossBounded
<1>1. TypeOK /\ Progress /\ LossCounted /\ RestCounted => LossBounded
  BY LossAtTheEnd DEF LossBounded, SomeEnded, Allowed
<1>2. QED
  BY <1>1, Invariance, Counting, PTL

(* A run in which every thread came to its proper end has found all files
   and written all their blocks.                                           *)
THEOREM WritesEveryBlock == Spec => []Complete
<1>1. TypeOK /\ Progress /\ LossCounted /\ RestCounted => Complete
  <2>1. SUFFICES ASSUME TypeOK, Progress, LossCounted, RestCounted, Proper
                 PROVE  /\ ToSet(fileids) = {i \in DOMAIN listing : Accepted(listing[i])}
                        /\ \A id \in Ids : ~ Skipped(File(id)) => Outputs(id) \subseteq ToSet(written)
    BY DEF Complete
  <2>2. /\ main = "done" /\ producer = "ended" /\ writer = "ended"
        /\ \A w \in Workers : worker[w].pc = "ended"
    BY <2>1 DEF Proper
  <2>3. ToSet(fileids) = {i \in DOMAIN listing : Accepted(listing[i])}
    <3>1. visited = Len(listing) /\ ToSet(fileids) = {i \in 1 .. visited : Accepted(listing[i])}
      BY <2>1, <2>2 DEF Progress, ThreadProgress, Recorded
    <3>2. DOMAIN listing = 1 .. Len(listing)
      BY <2>1, ListingType
    <3>3. QED
      BY <3>1, <3>2
  <2>4. Allowed = 0
    <3>1. {w \in Workers : worker[w].pc = "dead"} = {}
      BY <2>2
    <3>2. Deaths = 0
      BY <3>1, FS_EmptySet DEF Deaths
    <3>3. GroupSize \in Nat
      BY <2>1, Numbers
    <3>4. 2 * GroupSize * 0 + 0 = 0
      BY <3>3
    <3>5. QED
      BY <2>2, <3>2, <3>4 DEF Allowed
  <2>5. SomeEnded
    BY <2>2, InputAssumption DEF SomeEnded
  <2>6. IsFiniteSet(Missing) /\ Cardinality(Missing) = 0
    <3>1. IsFiniteSet(Missing) /\ Cardinality(Missing) \in Nat /\ Cardinality(Missing) <= Allowed
      BY <2>1, <2>2, <2>5, LossAtTheEnd
    <3>2. QED
      BY <2>4, <3>1
  <2>7. Missing = {}
    BY <2>6, FS_EmptySet
  <2>8. QED
    BY <2>3, <2>7 DEF Missing
<1>2. QED
  BY <1>1, Invariance, Counting, PTL
=============================================================================
