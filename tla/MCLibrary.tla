------------------------------- MODULE MCLibrary -------------------------------
(***************************************************************************)
(* Small instances of LessonLibrary: lesson L in two versions and lesson M *)
(* that all share a word.                                                  *)
(***************************************************************************)
EXTENDS LessonLibrary

MCDocs    == {"L", "Lnew", "M"}
MCIds     == {"l", "m"}
MCWords   == {"u", "v"}
MCKeys    == {"k1", "k2"}
MCIdOf    == [d \in MCDocs |-> IF d = "M" THEN "m" ELSE "l"]
MCWordsOf == [d \in MCDocs |-> CASE d = "L"    -> <<"u", "v">>
                                 [] d = "Lnew" -> <<"v">>
                                 [] d = "M"    -> <<"v">>]

\* L is imported and imported again under its key; the same key is used for M; a new
\* version of L is imported under no key; and L is deleted.
MCImports   == {"importL", "retryL", "importM", "plainLnew"}
MCDocOf     == [r \in MCImports |-> CASE r \in {"importL", "retryL"} -> "L"
                                      [] r = "importM" -> "M"
                                      [] r = "plainLnew" -> "Lnew"]
MCKeyOf     == [r \in MCImports |-> IF r = "plainLnew" THEN NoKey ELSE "k1"]
MCDeletes   == {"deleteL"}
MCLessonOf  == [r \in MCDeletes |-> "l"]

\* Reuse: a key first used for a lesson that was there, then for another document.
ReuseImports  == {"importL", "repeatL", "importM"}
ReuseDocOf    == [r \in ReuseImports |-> IF r = "importM" THEN "M" ELSE "L"]
ReuseKeyOf    == [r \in ReuseImports |-> IF r = "importL" THEN "k1" ELSE "k2"]
ReuseDeletes  == {}
ReuseLessonOf == [r \in {} |-> "l"]
=============================================================================
