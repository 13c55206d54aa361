----------------------------- MODULE Extraction -----------------------------
(***************************************************************************)
(* Structured answers for a list of texts: edge_extract_batch with         *)
(* edge_extract (api.R 2610-2676, 3036-3092) and edge_classify for several *)
(* texts (2707-2764), over grammar-constrained generation (bindings.cpp    *)
(* 643-738).                                                               *)
(*                                                                         *)
(* A grammar is the set of texts it derives; generation appends what some  *)
(* text of the grammar allows, may end only at such a text, and may be cut *)
(* off anywhere: by n_predict, by a full context, by a decode that fails.  *)
(* Of an object the characters that matter to its extraction are kept:     *)
(* braces, quotes, commas, control characters, numbers with leading zeros, *)
(* and "x" for any other run of them.                                      *)
(***************************************************************************)
EXTENDS Integers, Sequences, FiniteSets, SequencesExt

CONSTANTS Texts,        \* number of texts
          Schema,       \* types of the fields: "string", "number" (or integer),
                        \* or "other" for booleans and enums
          MaxString,    \* bound: length of a generated string
          Pieces,       \* what the tokens of categories may be
          Categories    \* of a classification, as sequences of pieces

ASSUME TextsAssumption == Texts \in Nat \ {0}
ASSUME GrammarAssumption ==
  /\ Schema \in Seq({"string", "number", "other"}) /\ MaxString \in Nat
  /\ Categories \subseteq Seq(Pieces) /\ Categories # {}

VARIABLES
  job,     \* "extract" or "classify"
  parser,  \* jsonlite is installed
  phase,
  text,    \* number of the text under way
  out,     \* what was generated for it
  rows,    \* results_list, or the categories answered
  made     \* what was generated for each text (history)

vars == <<job, parser, phase, text, out, rows, made>>

NA == <<"NA">>
Opening == "{"
Closing == "}"
Comma == ","
Quote == "q"
Control == "control"  \* a line break, a tab, any raw control character
Zero == "zero"        \* a number whose first digit, a zero, is followed by another
Strings == UNION {[1..n -> {Opening, Closing, Control, "x"}] : n \in 0..MaxString}

------------------------------------------------------------------------------
(* edge_json_grammar: a string is anything between two quotes but quotes and
   backslashes, so braces and control characters too; a number is any digits. *)
Value(type) ==
  IF type = "string" THEN {<<Quote>> \o s \o <<Quote>> : s \in Strings}
  ELSE IF type = "number" THEN {<<"x">>, <<Zero>>}
  ELSE {<<"x">>}

\* One more field: its value, after its name ("x"), or the comma and the name (",").
Named(body) == IF body = <<>> THEN <<"x">> ELSE body \o <<Comma>>
Longer(bodies, type) == {Named(body) \o value : body \in bodies, value \in Value(type)}

Fields ==
  LET bodies[n \in 0..Len(Schema)] ==
        IF n = 0 THEN {<<>>} ELSE Longer(bodies[n - 1], Schema[n])
  IN bodies[Len(Schema)]

Objects == {<<Opening>> \o body \o <<Closing>> : body \in Fields}

Language == IF job = "extract" THEN Objects ELSE Categories

Init ==
  /\ job \in {"extract", "classify"}
  /\ parser \in BOOLEAN
  /\ phase = "generate"
  /\ text = 1
  /\ out = <<>>
  /\ rows = <<>>
  /\ made = <<>>

------------------------------------------------------------------------------
(* One token: the sampler leaves those the grammar can continue with. *)
Generate ==
  /\ phase = "generate"
  /\ \E word \in Language :
       /\ IsStrictPrefix(out, word)
       /\ out' = Append(out, word[Len(out) + 1])
  /\ UNCHANGED <<job, parser, phase, text, rows, made>>

(* An end of generation is allowed only where the grammar is complete. *)
EndOfGeneration ==
  /\ phase = "generate"
  /\ out \in Language
  /\ phase' = "answer"
  /\ UNCHANGED <<job, parser, text, out, rows, made>>

(* n_predict is used up, or llama_decode fails: what is there is returned. *)
CutOff ==
  /\ phase = "generate"
  /\ phase' = "answer"
  /\ UNCHANGED <<job, parser, text, out, rows, made>>

(* The next text, or the end of the list. *)
Answered(row, generated) ==
  /\ rows' = Append(rows, row)
  /\ made' = Append(made, generated)
  /\ out' = <<>>
  /\ text' = text + 1
  /\ phase' = IF text = Texts THEN "done" ELSE "generate"
  /\ UNCHANGED <<job, parser>>

------------------------------------------------------------------------------
Count(s, k, char) == Cardinality({i \in 1..k : s[i] = char})
Depth(s, k) == Count(s, k, Opening) - Count(s, k, Closing)

(* Mutant: the loop stops at the first closing brace. *)
ClosesAnyway(s, k) == s[k] = Closing

(* The loop over the characters counts braces wherever they are, in strings too. *)
Closes(s, k) == s[k] = Closing /\ Depth(s, k) = 0

(* json_str: up to where the depth is first zero, else all of it. *)
Matched(s) ==
  LET ends == {k \in 1..Len(s) : Closes(s, k)}
  IN IF ends = {} THEN s
     ELSE SubSeq(s, 1, CHOOSE k \in ends : \A j \in ends : k <= j)

(* JSON has no raw control characters in strings and no leading zeros. *)
Readable(s) == \A k \in 1..Len(s) : s[k] \notin {Control, Zero}

(* Whether a parser accepts it as one object: its strings and numbers are those of
   JSON, outside of strings the braces close at the very end, and no string is
   left open.  (Commas and values are in order in everything the grammar allows.) *)
InString(s, k) == Count(s, k - 1, Quote) % 2 = 1
Braces(s, k, char) == Cardinality({i \in 1..k : s[i] = char /\ ~InString(s, i)})
IsObject(s) ==
  /\ s # <<>>
  /\ Readable(s)
  /\ Braces(s, Len(s), Opening) = Braces(s, Len(s), Closing)
  /\ \A k \in 1..(Len(s) - 1) : Braces(s, k, Opening) > Braces(s, k, Closing)
  /\ ~InString(s, Len(s) + 1)

(* Mutant: the parser's answer is not asked for. *)
RowUnparsed(s) == IF parser /\ s # <<>> THEN Matched(s) ELSE NA

(* The row of an output: the fields of the object found in it, or NA when nothing
   is found, the parsing fails, or there is no jsonlite, when edge_extract
   returns a string. *)
Row(s) == IF parser /\ s # <<>> /\ IsObject(Matched(s)) THEN Matched(s) ELSE NA

Parse ==
  /\ job = "extract"
  /\ phase = "answer"
  /\ Answered(Row(out), out)

(* The completion of one text fails; the batch goes on with a row of NA. *)
ExtractionFails ==
  /\ job = "extract"
  /\ phase = "generate"
  /\ Answered(NA, <<>>)

------------------------------------------------------------------------------
(* The answer to a classification is whatever was generated. *)
Classify ==
  /\ job = "classify"
  /\ phase = "answer"
  /\ Answered(out, out)

(* Mutant: without a match the first word is the answer. *)
FallBackToWord ==
  /\ job = "classify"
  /\ phase = "generate"
  /\ \E answer \in Categories \cup {<<"x">>} : Answered(answer, answer)

(* The grammar's completion fails: free text is generated instead, and the category
   it mentions, or that its first word begins, or else the first one is the answer. *)
FallBack ==
  /\ job = "classify"
  /\ phase = "generate"
  /\ \E category \in Categories : Answered(category, category)

(* That completion fails as well: edge_classify has no answer for any text. *)
ClassificationFails ==
  /\ job = "classify"
  /\ phase = "generate"
  /\ phase' = "failed"
  /\ UNCHANGED <<job, parser, text, out, rows, made>>

Next == Generate \/ EndOfGeneration \/ CutOff \/ Parse \/ ExtractionFails
          \/ Classify \/ FallBack \/ ClassificationFails

Spec == Init /\ [][Next]_vars

------------------------------------------------------------------------------
(* A row that is filled in is the object generated for that very text, complete and
   untouched: an output that was cut off is never taken for an object, though a
   brace inside a string may seem to close it (api.R 2650-2660). *)
FilledRowIsWhole ==
  job = "extract" => \A i \in DOMAIN rows : rows[i] # NA => rows[i] = made[i] /\ made[i] \in Objects

(* What the counting of braces must not lose: a complete object that JSON allows is
   found unless one of its strings closes more braces than were opened so far.
   (One that does is a row of NA although the output was valid: `{"a":"}"}`.) *)
BalancedIsFound ==
  job = "extract" /\ parser => \A i \in DOMAIN rows :
    /\ made[i] \in Objects
    /\ Readable(made[i])
    /\ \A k \in 1..(Len(made[i]) - 1) : Depth(made[i], k) > 0
    => rows[i] = made[i]

(* The documentation of edge_json_grammar: the grammar constrains the output to
   valid JSON (api.R 2472-2473).  Its rules for strings and numbers are wider. *)
GeneratesValidJson ==
  job = "extract" => \A i \in DOMAIN made : made[i] \in Objects => IsObject(made[i])

(* An answer that is none of the categories is the beginning of one, from a
   generation that was cut off: no fallback and no other failure gives one.  (NEWS.md
   171-172 promises that it is one of the categories, which such a beginning is not.) *)
AnswerIsCategoryOrCutOff ==
  job = "classify" => \A i \in DOMAIN rows : \E category \in Categories : IsPrefix(rows[i], category)
=============================================================================
