------------------------------ MODULE Formatter ------------------------------
(***************************************************************************)
(* The two output formatters: the strings that the calls of a task pass to *)
(* displayFct, and a reading of the whole text.                            *)
(*                                                                         *)
(* A string is a sequence of tokens (brackets, commas, ends of line, YES,  *)
(* NO, names), a text the sequence of the strings of the calls.  An        *)
(* extension is the sequence of its names; fmt is the formatter.           *)
(***************************************************************************)
EXTENDS SequencesExt

EndLine == "\n"
YES_STR == "YES"
NO_STR  == "NO"

----------------------------------------------------------------------------
(* SolverOutputFormatter *)

acceptance_status_str(status) == IF status THEN <<YES_STR>> ELSE <<NO_STR>>

argArray(ext) ==
  <<"[">> \o FlattenSeq([k \in DOMAIN ext |-> IF k = 1 THEN <<ext[k]>> ELSE <<",", ext[k]>>])
          \o <<"]">>

----------------------------------------------------------------------------
(* ICCMA17SolverOutputFormatter and ICCMA19SolverOutputFormatter: the older *)
(* one separates by commas and ends the line of an answer, the newer one    *)
(* puts each extension of a list on a line of its own.                      *)

\* getInstance: any name but ICCMA2017 gives the newer one.
getInstance(name) == IF name = "ICCMA2017" THEN "ICCMA17" ELSE "ICCMA19"

OnALine(fmt, string) == IF fmt = "ICCMA17" THEN string \o <<EndLine>> ELSE string

writeArgAcceptance(fmt, status) == <<OnALine(fmt, acceptance_status_str(status))>>
writeNoExt(fmt)                 == <<OnALine(fmt, <<NO_STR>>)>>
writeSingleExtension(fmt, ext)  == <<OnALine(fmt, argArray(ext))>>

writeExtensionListBegin(fmt) == << <<"[">> >>

\* Mutant: the comma goes before the first element.
CommaBeforeFirst(fmt, ext, isFirst) ==
  IF fmt = "ICCMA19" THEN << <<EndLine>> \o argArray(ext) >>
  ELSE (IF isFirst THEN << <<",">> >> ELSE << >>) \o <<argArray(ext)>>

writeExtensionListElmt(fmt, ext, isFirst) ==
  IF fmt = "ICCMA19" THEN << <<EndLine>> \o argArray(ext) >>
  ELSE (IF isFirst THEN << >> ELSE << <<",">> >>) \o <<argArray(ext)>>

writeExtensionListEnd(fmt) ==
  << IF fmt = "ICCMA17" THEN <<"]", EndLine>> ELSE <<EndLine, "]">> >>

\* The calls of computeAllExtensions, with isFirst for the first extension.
ExtensionList(fmt, exts) ==
  writeExtensionListBegin(fmt)
    \o FlattenSeq([k \in DOMAIN exts |-> writeExtensionListElmt(fmt, exts[k], k = 1)])
    \o writeExtensionListEnd(fmt)

D3Separator(fmt) == << IF fmt = "ICCMA17" THEN <<",">> ELSE <<EndLine>> >>

writeD3GrExts(fmt, ext)  == ExtensionList(fmt, <<ext>>) \o D3Separator(fmt)
writeD3StExts(fmt, exts) == ExtensionList(fmt, exts) \o D3Separator(fmt)
writeD3PrExts(fmt, exts) == ExtensionList(fmt, exts)

\* Only the tasks that write extensions have lines in their dynamic lists.
OwnLines(fmt, task) == fmt = "ICCMA19" /\ task \in {"SE", "EE"}

writeDynListBegin(fmt, task) ==
  IF OwnLines(fmt, task) THEN << <<"[">>, <<EndLine>> >> ELSE << <<"[">> >>

writeDynListElmtSep(fmt, task) ==
  IF OwnLines(fmt, task) THEN << <<EndLine>> >> ELSE << <<",">> >>

writeDynListEnd(fmt, task) ==
  IF fmt = "ICCMA19"
    THEN (IF OwnLines(fmt, task) THEN << <<EndLine>> >> ELSE << >>) \o << <<"]">> >>
    ELSE << <<"]", EndLine>> >>

----------------------------------------------------------------------------
(* The calls of a task *)

NoExt == <<"no extension">>

\* What a solver writes for one framework.
Written(fmt, task, answer) ==
  CASE task \in {"DC", "DS"} -> writeArgAcceptance(fmt, answer)
    [] task = "SE" -> IF answer = NoExt THEN writeNoExt(fmt)
                                        ELSE writeSingleExtension(fmt, answer)
    [] task = "EE" -> ExtensionList(fmt, answer)
    [] task = "D3" -> writeD3GrExts(fmt, answer.grounded)
                        \o writeD3StExts(fmt, answer.stable)
                        \o writeD3PrExts(fmt, answer.preferred)

\* DynamicSemanticsSolverDecorator::iterate, one answer for each step
Iterate(fmt, task, answers) ==
  writeDynListBegin(fmt, task)
    \o FlattenSeq([k \in DOMAIN answers |->
         (IF k > 1 THEN writeDynListElmtSep(fmt, task) ELSE << >>)
           \o Written(fmt, task, answers[k])])
    \o writeDynListEnd(fmt, task)

----------------------------------------------------------------------------
(* A reading of a text: items separated by one comma or by ends of lines,   *)
(* each of them a word or, between brackets, the list of its own items.     *)

Word(tokens) == [word |-> tokens]
List(items)  == [list |-> items]

Depth(t, k) == Cardinality({j \in 1..k : t[j] = "["}) - Cardinality({j \in 1..k : t[j] = "]"})

Outside(t, token) == {k \in DOMAIN t : t[k] = token /\ Depth(t, k) = 0}

\* The pieces of t between the tokens that no bracket encloses.
Split(t, token) ==
  LET ends     == SetToSortSeq(Outside(t, token) \cup {Len(t) + 1}, <)
      start(k) == IF k = 1 THEN 1 ELSE ends[k - 1] + 1
  IN [k \in DOMAIN ends |-> SubSeq(t, start(k), ends[k] - 1)]

LinesOf(t) == SelectSeq(Split(t, EndLine), LAMBDA s : s # << >>)

\* Between two commas there is one item, whatever the ends of line around it.
ItemsOf(t) ==
  IF Outside(t, ",") = {}
    THEN LinesOf(t)
    ELSE [k \in DOMAIN Split(t, ",") |->
            LET lines == LinesOf(Split(t, ",")[k])
            IN IF Len(lines) = 1 THEN lines[1] ELSE << >>]

Bracketed(s) ==
  /\ Len(s) > 1 /\ s[1] = "["
  /\ {k \in DOMAIN s : Depth(s, k) = 0} = {Len(s)}

RECURSIVE Read(_)
Read(t) ==
  LET items == ItemsOf(t)
  IN [k \in DOMAIN items |->
        IF Bracketed(items[k])
          THEN List(Read(SubSeq(items[k], 2, Len(items[k]) - 1)))
          ELSE Word(items[k])]
=============================================================================
