------------------------- MODULE LanguageConstants -------------------------
(***************************************************************************)
(* constants.LanguageConstants: which files cwbuild picks up for a         *)
(* language, and which language it then takes a file for.  The two tables  *)
(* are not the same: the filter looks at neither case nor headers the way  *)
(* getLanguage does.                                                       *)
(***************************************************************************)

AllLanguages == {"java", "c", "cs", "cpp", "python"}

(* The ends of file names that the two tables tell apart, each in one
   spelling that is not lower case.                                        *)
NameEnds == {".java", ".JAVA", ".c", ".C", ".h", ".H", ".cs", ".CS",
             ".cpp", ".CPP", ".cc", ".CC", ".c++", ".C++", ".cxx", ".CXX",
             ".hxx", ".HXX", ".py", ".PY", ".txt"}

(* getFileFilter(l), an error for any other language.                      *)
FileFilter(l) ==
  CASE l = "java"   -> {".java", ".JAVA"}
    [] l = "c"      -> {".c", ".C", ".h", ".H"}
    [] l = "cs"     -> {".cs", ".CS"}
    [] l = "cpp"    -> {".C", ".cpp", ".CPP", ".cc", ".CC", ".c++", ".C++",
                        ".cxx", ".CXX", ".hxx", ".HXX"}
    [] l = "python" -> {".py", ".PY"}

(* getLanguage(file)                                                       *)
LanguageOf(suffix) ==
  CASE suffix = ".java" -> "java"
    [] suffix = ".py"   -> "python"
    [] suffix \in {".C", ".cpp", ".cc", ".c++", ".cxx"} -> "cpp"
    [] suffix = ".cs"   -> "cs"
    [] suffix = ".c"    -> "c"
    [] OTHER            -> "unknown"
=============================================================================
