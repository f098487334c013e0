---------------------- MODULE InputBuilderConfiguration ----------------------
(***************************************************************************)
(* interfaces.InputBuilder and InputBuilderConfiguration: what cwbuild     *)
(* accepts on its command line and in the configuration file, and what the *)
(* configuration then does to the terms of a code fragment, in a worker    *)
(* (FileConsumer_BlockProducer.getBlocks).                                 *)
(*                                                                         *)
(* A line of the file is [key, value].  The value of a term processor is   *)
(* [class, given, n]: given says whether there is an argument behind its   *)
(* class, and if there is, whether it is a number for NGram and a digest   *)
(* algorithm for Hasher and CombineAndHash; n is the number.  The value of *)
(* a code-fragment processor is its name.                                  *)
(***************************************************************************)
EXTENDS TermProcessors, LanguageConstants

CONSTANTS
  CommandLines,    (* the options given, see OptionsOK                      *)
  Files,           (* configuration files: sequences of lines               *)
  Fragments,       (* the terms that code fragments consist of              *)
  Accepts(_, _),   (* Accepts(t, l): cfprocessors/t validates language l    *)
  Unlimited        (* Integer.MAX_VALUE                                     *)

ASSUME ConfigurationAssumption ==
  /\ Unlimited \in Nat
  /\ \A f \in Files : IsFiniteSet(DOMAIN f)

VARIABLES
  options, file,   (* the command line and the configuration file           *)
  main,            (* what cwbuild does next, or how it has ended           *)
  at,              (* how many lines of the file, or processors, are done   *)
  tokenType,       (* "unset", "token" or "line"                            *)
  transforms,      (* the code-fragment processors of the file              *)
  processors,      (* the term processors of the file                       *)
  chain,           (* chain[l]: the processes that a file in l goes through *)
  language,        (* the language of a code fragment                       *)
  fragment, terms  (* its terms, and what has been made of them             *)

inputs == <<options, file, fragment, language>>
vars == <<inputs, main, at, tokenType, transforms, processors, chain, terms>>

Ends == {"refused", "crashed", "block", "no block", "worker dead"}

Init ==
  /\ options \in CommandLines
  /\ file \in Files
  /\ fragment \in Fragments
  /\ language \in options.languages
  /\ main = "options"
  /\ at = 0
  /\ tokenType = "unset"
  /\ transforms = <<>>
  /\ processors = <<>>
  /\ chain = << >>
  /\ terms = fragment

-----------------------------------------------------------------------------
(* The command line.  A number that the user gives or not is [given, n],   *)
(* where given is "no", "yes" or, when it does not parse, "bad".           *)

MinOf(limit) == IF limit.given = "no" THEN 0 ELSE limit.n
MaxOf(limit) == IF limit.given = "no" THEN Unlimited ELSE limit.n

LimitsOK(min, max) == "bad" \notin {min.given, max.given} /\ MinOf(min) <= MaxOf(max)

(* Nothing is asked of the number of threads but that it is a number.      *)
OptionsOK ==
  /\ options.paths = "usable"
  /\ options.languages \subseteq AllLanguages
  /\ options.granularity \in {"function", "block", "file"}
  /\ LimitsOK(options.minlines, options.maxlines)
  /\ LimitsOK(options.mintokens, options.maxtokens)
  /\ options.threads.given # "bad"

ProcessOptions ==
  /\ main = "options"
  /\ main' = IF OptionsOK THEN "file" ELSE "refused"
  /\ UNCHANGED <<inputs, at, tokenType, transforms, processors, chain, terms>>

-----------------------------------------------------------------------------
(* The configuration file.                                                 *)

(* The class exists, and its constructor takes the string.  FastTokenizer
   has no such constructor.                                                *)
Constructs(value) ==
  /\ value.class \in AsksForFirst \cup
       {"JavaPrimitiveNormalization", "FilterOperators", "FilterSeperators", "RemoveEmpty",
        "RemoveBraces", "TrimLeadingTrailingWhitespace", "ToLowerCase", "Stemmer",
        "NormalizeStrings", "SplitStrings", "NGram", "Joiner", "CombineAndHash", "Hasher", "API"}
  /\ value.class \in {"NGram", "Hasher", "CombineAndHash"} => value.given = "yes"

Line == file[at + 1]
Reading == main = "file" /\ at < Len(file)

ReadComment ==
  /\ Reading
  /\ Line.key = "#"
  /\ at' = at + 1
  /\ UNCHANGED <<inputs, main, tokenType, transforms, processors, chain, terms>>

(* The last one counts.                                                    *)
ReadTermSplit ==
  /\ Reading
  /\ Line.key = "termsplit"
  /\ Line.value \in {"token", "line"}
  /\ at' = at + 1
  /\ tokenType' = Line.value
  /\ UNCHANGED <<inputs, main, transforms, processors, chain, terms>>

ReadTransform ==
  /\ Reading
  /\ Line.key = "cfproc"
  /\ at' = at + 1
  /\ transforms' = Append(transforms, Line.value)
  /\ UNCHANGED <<inputs, main, tokenType, processors, chain, terms>>

ReadTermProcessor ==
  /\ Reading
  /\ Line.key = "termproc"
  /\ Constructs(Line.value)
  /\ at' = at + 1
  /\ processors' = Append(processors, Line.value)
  /\ UNCHANGED <<inputs, main, tokenType, transforms, chain, terms>>

Refuse ==
  /\ Reading
  /\ \/ Line.key \notin {"#", "termsplit", "cfproc", "termproc", "no ="}
     \/ Line.key = "termsplit" /\ Line.value \notin {"token", "line"}
     \/ Line.key = "termproc" /\ ~Constructs(Line.value)
  /\ main' = "refused"
  /\ UNCHANGED <<inputs, at, tokenType, transforms, processors, chain, terms>>

(* parts[1] of a line without "=" is not a ConfigurationException.         *)
CrashOnLine ==
  /\ Reading
  /\ Line.key = "no ="
  /\ main' = "crashed"
  /\ UNCHANGED <<inputs, at, tokenType, transforms, processors, chain, terms>>

-----------------------------------------------------------------------------
(* The chains.                                                             *)

(* Mutant: it is enough that a language accepts a transform.               *)
SomeAccepted == \A i \in DOMAIN transforms : \E l \in options.languages : Accepts(transforms[i], l)

AllAccepted == \A i \in DOMAIN transforms : \A l \in options.languages : Accepts(transforms[i], l)

ChainFor(l) ==
  (IF l = "python" THEN <<"txl pyindent">> ELSE <<>>)
  \o (IF l \in {"c", "cpp", "cs"} THEN <<"txl ifdef">> ELSE <<>>)
  \o <<"txl extract">>
  \o transforms
  \o (IF tokenType = "token" THEN <<"txl tokenize">> ELSE <<>>)

BuildChains ==
  /\ main = "file" /\ at = Len(file)
  /\ main' = IF AllAccepted THEN "echo" ELSE "refused"
  /\ chain' = IF AllAccepted THEN [l \in options.languages |-> ChainFor(l)] ELSE chain
  /\ UNCHANGED <<inputs, at, tokenType, transforms, processors, terms>>

(* TokenGranularityConstants.getString has no name for a type that is not
   set.                                                                    *)
Echo ==
  /\ main = "echo"
  /\ main' = IF tokenType = "unset" THEN "crashed" ELSE "parse"
  /\ at' = 0
  /\ UNCHANGED <<inputs, tokenType, transforms, processors, chain, terms>>

-----------------------------------------------------------------------------
(* A worker and a code fragment.                                           *)

(* Mutant: a fragment without terms is handed on to the next processor.    *)
AllApplied == at = Len(processors)

(* break when a processor has left nothing.                                *)
Processed == at = Len(processors) \/ (at > 0 /\ terms = <<>>)

Apply ==
  /\ main = "parse"
  /\ ~Processed
  /\ ~Throws(processors[at + 1], terms)
  /\ terms' = Process(processors[at + 1], terms, language)
  /\ at' = at + 1
  /\ UNCHANGED <<inputs, main, tokenType, transforms, processors, chain>>

(* The exception is not caught, and the thread ends.                       *)
ApplyThrows ==
  /\ main = "parse"
  /\ ~Processed
  /\ Throws(processors[at + 1], terms)
  /\ main' = "worker dead"
  /\ UNCHANGED <<inputs, at, tokenType, transforms, processors, chain, terms>>

(* "Skip 0-size blocks."                                                   *)
Finish ==
  /\ main = "parse"
  /\ Processed
  /\ main' = IF terms = <<>> THEN "no block" ELSE "block"
  /\ UNCHANGED <<inputs, at, tokenType, transforms, processors, chain, terms>>

Next ==
  \/ ProcessOptions
  \/ ReadComment \/ ReadTermSplit \/ ReadTransform \/ ReadTermProcessor
  \/ Refuse \/ CrashOnLine
  \/ BuildChains \/ Echo
  \/ Apply \/ ApplyThrows \/ Finish

Spec == Init /\ [][Next]_vars

-----------------------------------------------------------------------------
(* Properties.                                                             *)

LinesOf(key) == SelectSeq(file, LAMBDA line : line.key = key)
ValuesOf(key) == [i \in DOMAIN LinesOf(key) |-> LinesOf(key)[i].value]
Running == main \in {"parse", "block", "no block", "worker dead"}

(* A configuration that cwbuild starts to work with has a term split and
   limits that some fragment can meet; every language's processors accept
   it; and the chain of a language has the processors of the file in their
   order, behind a TXL program, which reads everything before it writes
   (see Returns in TransformUtil).                                         *)
ReadyToRun ==
  Running =>
    /\ tokenType \in {"token", "line"}
    /\ MinOf(options.minlines) <= MaxOf(options.maxlines)
    /\ MinOf(options.mintokens) <= MaxOf(options.maxtokens)
    /\ \A l \in options.languages :
         /\ Head(chain[l]) \in {"txl pyindent", "txl ifdef", "txl extract"}
         /\ SelectSeq(chain[l], LAMBDA p : p \in ToSet(ValuesOf("cfproc"))) = ValuesOf("cfproc")
         /\ \A p \in ToSet(ValuesOf("cfproc")) : Accepts(p, l)

(* A term processor kills a worker for three reasons only: an n-gram of no
   terms; a processor that looks at the first letter of a term after one
   that may leave empty terms, with no RemoveEmpty between them; and such a
   processor in a file that begins with Joiner, which makes an empty term of
   a fragment that has no terms to begin with.                             *)
DiesOnlyUnguarded ==
  main = "worker dead" =>
    LET all == ValuesOf("termproc") IN
    \/ \E i \in DOMAIN all : all[i].class = "NGram" /\ all[i].n < 1
    \/ \E i, j \in DOMAIN all :
         /\ i < j
         /\ \/ all[i].class \in {"SplitStrings", "TrimLeadingTrailingWhitespace"}
            \/ i = 1 /\ all[i].class = "Joiner" /\ fragment = <<>>
         /\ all[j].class \in AsksForFirst
         /\ \A k \in i .. j : all[k].class # "RemoveEmpty"

AfterFirst(k, ts) ==
  FoldLeft(LAMBDA before, p : Process(p, before, language), ts, SubSeq(processors, 1, k))

(* A fragment that a processor has left without terms does not become a
   block, not even with Joiner and CombineAndHash behind it, which make a
   term out of nothing.                                                    *)
NoBlockFromNothing ==
  main = "block" => \A k \in 1 .. Len(processors) : AfterFirst(k, fragment) # <<>>

(* b is a with its names exchanged one for one, those of variables, methods
   and types each for themselves.                                          *)
RenamedTo(classes, a, b) ==
  /\ Len(a) = Len(b)
  /\ \A c \in classes : \A i \in DOMAIN a :
       /\ Renames(c, a, i) <=> Renames(c, b, i)
       /\ \A j \in DOMAIN a :
            Renames(c, a, i) /\ Renames(c, a, j) => (a[i] = a[j] <=> b[i] = b[j])
  /\ \A i \in DOMAIN a : (\A c \in classes : ~Renames(c, a, i)) => a[i] = b[i]

(* The renaming classes are consistent: fragments have the same terms after
   the renaming if, and only if, one is the other with its names exchanged.
   So renaming hides no other difference.  Methods and types together are
   left out: the name of a class is renamed as a method in front of "(", so
   that what is hidden depends on which of the two comes first.            *)
SameIffRenamed ==
  LET classes == {processors[i].class : i \in DOMAIN processors}
      names == "JavaConsistentVariableRenaming"
  IN  (main = "block" /\ classes # {} /\
       (classes \subseteq {names, "JavaConsistentMethodRenaming"} \/
        classes \subseteq {names, "JavaConsistentRenameTypes"})) =>
        \A other \in Fragments :
          other # <<>> =>
            (AfterFirst(Len(processors), other) = terms <=> RenamedTo(classes, fragment, other))
=============================================================================
