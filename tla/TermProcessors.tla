--------------------------- MODULE TermProcessors ---------------------------
(***************************************************************************)
(* input.termprocessors: what the term processors make of the terms of a   *)
(* code fragment.  A processor is a record with its class and, for NGram,  *)
(* its n.                                                                  *)
(*                                                                         *)
(* A term is a sequence of lexemes, the empty sequence being the empty     *)
(* string.  One lexeme stands for all the characters of an operator, a     *)
(* name, a run of white space and so on, so that joining terms, splitting  *)
(* strings and looking at the first character are what they are in Java.   *)
(* A name is made of humps: fooBar has the humps "foo" and "bar", of which *)
(* the first begins with an upper case letter or not, and the others do.   *)
(***************************************************************************)
EXTENDS Naturals, Sequences, SequencesExt, FiniteSets, FiniteSetsExt

Symbol(s)  == [kind |-> "symbol", text |-> s]
Keyword(s) == [kind |-> "keyword", text |-> s]
Name(isUpper, humps, number) ==
  [kind |-> "name", upper |-> isUpper, humps |-> humps, number |-> number]
Quote == [kind |-> "quote"]
Space == [kind |-> "blank", text |-> " "]
Tab   == [kind |-> "blank", text |-> "\t"]
Digest(text) == [kind |-> "digest", of |-> text]

Is(term, lexeme) == term = <<lexeme>>
IsSymbolOf(term, symbols) == \E s \in symbols : Is(term, Symbol(s))

-----------------------------------------------------------------------------
(* The tables.                                                             *)

JavaOperators ==
  {"=", ">", "<", "!", "~", "?", ":", "->", "==", ">=", "<=", "!=", "&&", "||", "++", "--",
   "+", "-", "*", "/", "&", "|", "^", "%", "<<", ">>", ">>>", "+=", "-=", "*=", "/=", "&=",
   "|=", "^=", "%=", "<<=", ">>=", ">>>="}

COperators ==
  {"&", "*", "+", "-", "~", "!", "->", "++", "--", "<<", ">>", "<=", ">=", "==", "!=", "&&",
   "||", "*=", "/=", "%=", "+=", "-=", "<<=", ">>=", "&=", "^=", "|="}

Operators(language) ==
  CASE language = "java"   -> JavaOperators
    [] language = "c"      -> COperators
    [] language = "cpp"    ->
         COperators \cup {"=", "<", ">", "/", "%", "^", "|", "**", "-+", "->*", ".*", "::", ","}
    [] language = "cs"     ->
         COperators \cup {"=", "<", ">", "/", "%", "^", "|", "?", "??", "::", "=>"}
    [] language = "python" ->
         {"=", "+=", "-=", "*=", "/=", "//=", "%=", "&=", "|=", "^=", ">>=", "<<=", "**="}

JavaSeperators == {"(", ")", "{", "}", "[", "]", ";", ",", ".", "...", "@", "::"}

Seperators(language) ==
  CASE language = "java"         -> JavaSeperators
    [] language \in {"c", "cpp"} -> (JavaSeperators \ {"@", "::"}) \cup {".."}
    [] language = "cs"           -> (JavaSeperators \ {"@", "::", "..."}) \cup {":"}
    [] language = "python"       -> (JavaSeperators \ {"::", "..."}) \cup {":", "->"}

Primitives == {"boolean", "byte", "char", "short", "int", "long", "float", "double"}

-----------------------------------------------------------------------------
(* Names.                                                                  *)

(* isIdentifier, on a term that is not empty: no operator, seperator or
   keyword, and a letter at its beginning.  true, false and null are not in
   the table of keywords; a keyword with something after it is not either. *)
IsIdentifier(term) ==
  \/ Head(term).kind = "name"
  \/ Head(term).kind = "keyword" /\ Len(term) > 1

IsUpperCase(term) == Head(term).kind = "name" /\ Head(term).upper

BeforeBracket(terms, i) == i < Len(terms) /\ Is(terms[i + 1], Symbol("("))

IsVariable(terms, i) ==
  IsIdentifier(terms[i]) /\ ~BeforeBracket(terms, i) /\ ~IsUpperCase(terms[i])
IsMethod(terms, i) == IsIdentifier(terms[i]) /\ BeforeBracket(terms, i)
IsType(terms, i)   == IsIdentifier(terms[i]) /\ IsUpperCase(terms[i])

(* Which terms a renaming class renames.                                   *)
Renames(class, terms, i) ==
  CASE class = "JavaConsistentVariableRenaming" -> IsVariable(terms, i)
    [] class = "JavaConsistentMethodRenaming"   -> IsMethod(terms, i)
    [] class = "JavaConsistentRenameTypes"      -> IsType(terms, i)

NewName(class, number) ==
  CASE class = "JavaConsistentVariableRenaming" -> Name(FALSE, <<"varname">>, number)
    [] class = "JavaConsistentMethodRenaming"   -> Name(FALSE, <<"methodname">>, number)
    [] class = "JavaConsistentRenameTypes"      -> Name(TRUE, <<"type">>, number)

(* Mutant: equal names get different numbers.                              *)
RenameEach(class, terms) ==
  [i \in DOMAIN terms |->
     IF Renames(class, terms, i) THEN <<NewName(class, i)>> ELSE terms[i]]

(* Names are numbered in the order in which they first occur.              *)
Rename(class, terms) ==
  LET renamed == {i \in DOMAIN terms : Renames(class, terms, i)}
      First(i) == CHOOSE j \in renamed :
                    terms[j] = terms[i] /\ \A k \in renamed : terms[k] = terms[i] => j <= k
      Number(i) == Cardinality({terms[j] : j \in {k \in renamed : k <= First(i)}})
  IN  [i \in DOMAIN terms |-> IF i \in renamed THEN <<NewName(class, Number(i))>> ELSE terms[i]]

(* JavaNormalizeTypesToBase.normalizeToBase: from the last upper case
   letter on, so FooBar becomes Bar.                                       *)
NormalizeToBase(term) ==
  LET LaterUpper(i) == /\ term[i].kind = "name"
                       /\ Len(term[i].humps) > 1 \/ (term[i].upper /\ i > 1)
      uppers == {i \in DOMAIN term : LaterUpper(i)}
  IN  IF uppers = {} THEN term
      ELSE LET i == Max(uppers)
               base == IF Len(term[i].humps) > 1
                       THEN Name(TRUE, <<Last(term[i].humps)>>, term[i].number)
                       ELSE term[i]
           IN  <<base>> \o SubSeq(term, i + 1, Len(term))

(* FooBar becomes foobar, and Foo becomes foo.                             *)
LowerCase(lexeme) ==
  IF lexeme.kind # "name" THEN lexeme
  ELSE LET word == FoldLeft(LAMBDA before, hump : before \o hump, "", lexeme.humps)
       IN  Name(FALSE, <<word>>, lexeme.number)

-----------------------------------------------------------------------------
(* White space, quotes and braces.                                         *)

IsBlank(lexeme) == lexeme.kind = "blank"
Inked(term) == {i \in DOMAIN term : ~IsBlank(term[i])}

(* String.trim                                                             *)
Trim(term) == IF Inked(term) = {} THEN <<>> ELSE SubSeq(term, Min(Inked(term)), Max(Inked(term)))

IsQuoted(term) == term # <<>> /\ Head(term) = Quote /\ Last(term) = Quote

(* String.split("\\s+"): an empty word before leading white space, unless
   there is nothing but white space.                                       *)
Split(text) ==
  LET WordEnd(i) == CHOOSE j \in i .. Len(text) :
                      /\ i .. j \subseteq Inked(text)
                      /\ j + 1 \notin Inked(text)
      word == [i \in Inked(text) |->
                 IF i - 1 \in Inked(text) THEN <<>> ELSE << SubSeq(text, i, WordEnd(i)) >>]
      words == FlattenSeq([i \in DOMAIN text |-> IF i \in Inked(text) THEN word[i] ELSE <<>>])
  IN  IF words # <<>> /\ IsBlank(Head(text)) THEN << <<>> >> \o words ELSE words

SplitString(term) ==
  IF IsQuoted(term) /\ Len(term) > 2 THEN Split(SubSeq(term, 2, Len(term) - 1)) ELSE <<term>>

IsBraces(term) == \A i \in DOMAIN term : term[i] \in {Symbol("{"), Symbol("}"), Space, Tab}

(* Every term is followed by a space.                                      *)
Join(terms) == FlattenSeq([i \in DOMAIN terms |-> Append(terms[i], Space)])

(* n terms with tabs between them.                                         *)
Gram(terms) ==
  FlattenSeq([i \in DOMAIN terms |-> IF i = 1 THEN terms[i] ELSE <<Tab>> \o terms[i]])

NGrams(terms, n) ==
  [i \in 1 .. (IF Len(terms) < n THEN 0 ELSE Len(terms) - n + 1) |->
     Gram(SubSeq(terms, i, i + n - 1))]

-----------------------------------------------------------------------------
(* The processors.                                                         *)

Each(terms, Op(_)) == [i \in DOMAIN terms |-> Op(terms[i])]

Renamers == {"JavaConsistentVariableRenaming", "JavaConsistentMethodRenaming",
             "JavaConsistentRenameTypes"}
AsksForFirst == Renamers \cup {"JavaNormalizeTypesToBase"}

(* Mutant: a fragment that is too short for an n-gram is not thought of.   *)
ThrowsWhenShort(processor, terms) ==
  \/ processor.class \in AsksForFirst /\ <<>> \in ToSet(terms)
  \/ processor.class = "NGram" /\ (processor.n < 1 \/ Len(terms) < processor.n)

(* process() throws: token.charAt(0) on an empty term, or toks[i] past the
   end because n is not positive.                                          *)
Throws(processor, terms) ==
  \/ processor.class \in AsksForFirst /\ <<>> \in ToSet(terms)
  \/ processor.class = "NGram" /\ processor.n < 1

(* process() of a processor that does not throw.  The order of the terms
   that API keeps is that of a HashSet.  Digests are taken not to collide,
   and to begin with a digit.  Stemmer is not modelled.                    *)
Process(processor, terms, language) ==
  LET class == processor.class IN
  CASE class \in Renamers -> Rename(class, terms)
    [] class = "JavaNormalizeTypesToBase" ->
         Each(terms, LAMBDA t : IF IsIdentifier(t) /\ IsUpperCase(t) THEN NormalizeToBase(t) ELSE t)
    [] class = "JavaPrimitiveNormalization" ->
         Each(terms, LAMBDA t : IF \E p \in Primitives : Is(t, Keyword(p))
                                THEN <<Keyword("int")>> ELSE t)
    [] class = "FilterOperators" ->
         SelectSeq(terms, LAMBDA t : ~IsSymbolOf(t, Operators(language)))
    [] class = "FilterSeperators" ->
         SelectSeq(terms, LAMBDA t : ~IsSymbolOf(t, Seperators(language)))
    [] class = "RemoveEmpty" -> SelectSeq(terms, LAMBDA t : t # <<>>)
    [] class = "RemoveBraces" -> SelectSeq(terms, LAMBDA t : ~IsBraces(t))
    [] class = "TrimLeadingTrailingWhitespace" -> Each(terms, Trim)
    [] class = "ToLowerCase" -> Each(terms, LAMBDA t : Each(t, LowerCase))
    [] class = "NormalizeStrings" ->
         Each(terms, LAMBDA t : IF IsQuoted(t) THEN <<Quote, Quote>> ELSE t)
    [] class = "SplitStrings" -> FlattenSeq(Each(terms, SplitString))
    [] class = "NGram" -> NGrams(terms, processor.n)
    [] class = "Joiner" -> <<Join(terms)>>
    [] class = "CombineAndHash" -> << <<Digest(Join(terms))>> >>
    [] class = "Hasher" -> Each(terms, LAMBDA t : <<Digest(t)>>)
    [] class = "API" -> SetToSeq(ToSet(terms))
=============================================================================
