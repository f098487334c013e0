-------------------- MODULE MCInputBuilderConfiguration --------------------
(* InputBuilderConfiguration on short files and short fragments.           *)
EXTENDS InputBuilderConfiguration

None   == [given |-> "no", n |-> 0]
Bad    == [given |-> "bad", n |-> 0]
Num(n) == [given |-> "yes", n |-> n]

Given(languages, mil, mal, threads) ==
  [paths |-> "usable", languages |-> languages, granularity |-> "function",
   minlines |-> mil, maxlines |-> mal, mintokens |-> None, maxtokens |-> None,
   threads |-> threads]

SomeCommandLines ==
  LET usual == Given({"java"}, None, None, None) IN
  {usual, Given({"java", "c", "python"}, None, Num(0), Num(0)),
   Given({"cobol"}, None, None, None), Given({"java"}, Num(3), Num(2), None),
   Given({"java"}, Bad, Num(2), None), Given({"java"}, None, None, Bad),
   [usual EXCEPT !.paths = "not there"], [usual EXCEPT !.granularity = "word"]}

OnlyForJava(t, l) == t = "rename" \/ l = "java"

Entry(key, value) == [key |-> key, value |-> value]
Termproc(class) == Entry("termproc", [class |-> class, given |-> "no", n |-> 0])
Hashing(class, given) == Entry("termproc", [class |-> class, given |-> given, n |-> 0])
NGramOf(given, n) == Entry("termproc", [class |-> "NGram", given |-> given, n |-> n])
ByToken == Entry("termsplit", "token")
ByLine  == Entry("termsplit", "line")

Variables == Termproc("JavaConsistentVariableRenaming")
Methods   == Termproc("JavaConsistentMethodRenaming")
Types     == Termproc("JavaConsistentRenameTypes")
Strings   == Termproc("SplitStrings")
NoEmpty   == Termproc("RemoveEmpty")
Seps      == Termproc("FilterSeperators")
Opers     == Termproc("FilterOperators")
JoinAll   == Termproc("Joiner")

TermprocFiles ==
  {<<ByToken>> \o chain_ : chain_ \in
     {<<Variables>>, <<Types>>, <<Variables, Methods>>, <<Methods, Variables>>,
      <<Types, Variables>>, <<Methods, Types>>,
      <<Strings, Variables>>, <<Strings, NoEmpty, Variables>>, <<NoEmpty, Strings, Types>>,
      <<Opers, Seps, JoinAll>>, <<Opers, Seps>>, <<Seps, Hashing("CombineAndHash", "yes")>>,
      <<Termproc("RemoveBraces"), NGramOf("yes", 2)>>, <<NGramOf("yes", 0)>>, <<NGramOf("yes", 3), Variables>>,
      <<JoinAll, Termproc("TrimLeadingTrailingWhitespace"), Variables>>,
      <<JoinAll, Variables>>, <<JoinAll, NoEmpty, Types>>, <<Opers, JoinAll, Variables>>,
      <<Termproc("JavaNormalizeTypesToBase"), Hashing("Hasher", "yes")>>,
      <<Termproc("JavaPrimitiveNormalization"), Termproc("ToLowerCase"), Termproc("API")>>,
      <<Termproc("NormalizeStrings"), Strings, JoinAll>>}}

OtherFiles ==
  {<<>>, <<Variables>>, <<Entry("#", ""), ByLine>>, <<ByLine, ByToken, Entry("cfproc", "rename")>>,
   <<ByLine, Entry("cfproc", "filter"), Entry("cfproc", "rename")>>,
   <<ByToken, Entry("transform", "rename")>>, <<ByToken, Entry("no =", "")>>,
   <<Entry("termsplit", "word")>>, <<ByToken, Termproc("FastTokenizer")>>,
   <<ByToken, NGramOf("bad", 0)>>, <<ByToken, NGramOf("no", 0)>>,
   <<ByToken, Hashing("Hasher", "no")>>, <<ByToken, Hashing("CombineAndHash", "bad")>>}

SomeFiles == TermprocFiles \cup OtherFiles

Small(word)   == <<Name(FALSE, <<word>>, 0)>>
Foo           == <<Name(TRUE, <<"foo">>, 0)>>
FooBar        == <<Name(TRUE, <<"foo", "bar">>, 0)>>
QuotedWord    == <<Quote, Space, Name(FALSE, <<"x">>, 0), Quote>>
Terms == {Small("x"), Small("y"), Foo, FooBar, QuotedWord,
          <<Symbol("(")>>, <<Symbol("=")>>}

SomeFragments ==
  UNION {[1 .. n -> Terms] : n \in 0 .. 3} \cup {<< <<Keyword("byte")>>, <<Symbol("{")>> >>}
=============================================================================
