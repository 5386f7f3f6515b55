------------------------------ MODULE FrontEnd ------------------------------
(***************************************************************************)
(* What happens to the text of a program before it is parsed: inclusion of *)
(* files, definition and repeated expansion of macros, and the naming of   *)
(* local labels (ACLM/compiler.py, resolve_includes, expand_macros,        *)
(* expand_local_labels, in the order of compile_source), and at the end    *)
(* the one thing of ACLM/lexer.py that matters here: there is no $.        *)
(*                                                                         *)
(* A line is a sequence of words, and a word a sequence of atoms: a        *)
(* parameter is referred to inside a word, and may be the beginning of     *)
(* another.  Comments, blank space and punctuation are left out.           *)
(***************************************************************************)
EXTENDS Naturals, Sequences, SequencesExt, FiniteSets, TLC

CONSTANTS
  Programs,   \* each one a function from names of files to their lines
  MainFile,
  MaxPasses   \* 64

VARIABLES
  files,
  stage,     \* the pass over the text that is under way, or how it ended
  stack,     \* the files being included, innermost last, with the lines read
  seen,      \* the files met so far
  macros,    \* name to parameters and body
  lines,     \* the text of this pass
  at,        \* the line it has reached
  out,       \* what it has made of the lines before
  calls, pass, expanded,   \* call_counter, passes before this one, expanded_any
  source     \* history: the text when macros were defined

vars == <<files, stage, stack, seen, macros, lines, at, out, calls, pass, expanded, source>>

-----------------------------------------------------------------------------
(* Lines.                                                                  *)

Word(atom) == <<atom>>
Starts(line, atom) == line # <<>> /\ line[1] = Word(atom)
IsInclude(line) == Starts(line, "include:") /\ Len(line) = 2
IsLocal(word) == word # <<>> /\ word[1] = "~@"
Has(line, atom) == \E w \in Range(line) : atom \in Range(w)

\* str.replace: from left to right, what has been put in is not looked at again.
RECURSIVE Replaced(_, _, _)
Replaced(word, old, new) ==
  IF Len(word) < Len(old) THEN word
  ELSE IF IsPrefix(old, word)
       THEN new \o Replaced(SubSeq(word, Len(old) + 1, Len(word)), old, new)
       ELSE <<Head(word)>> \o Replaced(Tail(word), old, new)

\* The parameters are replaced one after the other.
Substituted(word, params, values) ==
  FoldLeft(LAMBDA w, k : Replaced(w, <<"$">> \o params[k], values[k]),
           word, [k \in DOMAIN params |-> k])

\* The suffix that tells apart the labels of different calls.
Suffixed(word, n) == IF IsLocal(word) THEN word \o <<"__m", ToString(n)>> ELSE word

\* Fault variant: labels stay what they are.
OfCallPlain(line, params, values, n) ==
  [j \in DOMAIN line |-> Substituted(line[j], params, values)]

OfCall(line, params, values, n) ==
  [j \in DOMAIN line |-> Suffixed(Substituted(line[j], params, values), n)]

-----------------------------------------------------------------------------
(* resolve_includes: its recursion is the stack.                           *)

Init ==
  /\ files \in Programs
  /\ stage = "include"
  /\ stack = <<[file |-> MainFile, at |-> 1]>> /\ seen = {MainFile}
  /\ macros = <<>> /\ lines = <<>> /\ at = 1 /\ out = <<>>
  /\ calls = 0 /\ pass = 0 /\ expanded = FALSE /\ source = <<>>

Inner == Last(stack)
InnerLine == files[Inner.file][Inner.at]
Reading == stage = "include" /\ stack # <<>> /\ Inner.at <= Len(files[Inner.file])
ReadOn == [stack EXCEPT ![Len(stack)].at = @ + 1]
Fail(reason) == stage' = reason

CopyLine ==
  /\ Reading /\ ~IsInclude(InnerLine)
  /\ out' = Append(out, InnerLine)
  /\ stack' = ReadOn
  /\ UNCHANGED <<files, stage, seen, macros, lines, at, calls, pass, expanded, source>>

\* Fault variant: only a file that is still being read is in the way.
IncludeAgain ==
  /\ Reading /\ IsInclude(InnerLine)
  /\ LET f == InnerLine[2] IN
       /\ f \in DOMAIN files /\ \A i \in DOMAIN stack : stack[i].file # f
       /\ stack' = Append(ReadOn, [file |-> f, at |-> 1])
       /\ seen' = seen \cup {f}
  /\ UNCHANGED <<files, stage, macros, lines, at, out, calls, pass, expanded, source>>

Include ==
  /\ Reading /\ IsInclude(InnerLine)
  /\ LET f == InnerLine[2] IN
       /\ f \in DOMAIN files \ seen
       /\ stack' = Append(ReadOn, [file |-> f, at |-> 1])
       /\ seen' = seen \cup {f}
  /\ UNCHANGED <<files, stage, macros, lines, at, out, calls, pass, expanded, source>>

\* seen is never made smaller, so that this is also a file included twice.
IncludeRejected ==
  /\ Reading /\ IsInclude(InnerLine)
  /\ \/ InnerLine[2] \notin DOMAIN files /\ Fail("not found")
     \/ InnerLine[2] \in seen /\ Fail("circular")
  /\ UNCHANGED <<files, stack, seen, macros, lines, at, out, calls, pass, expanded, source>>

EndOfFile ==
  /\ stage = "include" /\ stack # <<>> /\ ~Reading
  /\ stack' = Front(stack)
  /\ UNCHANGED <<files, stage, seen, macros, lines, at, out, calls, pass, expanded, source>>

\* A pass begins with the text that the one before has made.
Begin(next) == stage' = next /\ lines' = out /\ at' = 1 /\ out' = <<>>

EndOfIncludes ==
  /\ stage = "include" /\ stack = <<>>
  /\ Begin("define")
  /\ UNCHANGED <<files, stack, seen, macros, calls, pass, expanded, source>>

-----------------------------------------------------------------------------
(* parse_defs.                                                             *)

Line == lines[at]
More(which) == stage = which /\ at <= Len(lines)
Keep(line) == out' = Append(out, line) /\ at' = at + 1

KeepLine ==
  /\ More("define") /\ ~Starts(Line, "macro:")
  /\ Keep(Line)
  /\ UNCHANGED <<files, stage, stack, seen, macros, lines, calls, pass, expanded, source>>

Closings == {i \in DOMAIN lines : i > at /\ lines[i] = <<Word("end:macro")>>}

\* A later definition of a name replaces an earlier one.
DefineMacro ==
  /\ More("define") /\ Starts(Line, "macro:") /\ Closings # {}
  /\ LET end == CHOOSE i \in Closings : \A j \in Closings : i <= j IN
       /\ macros' = Line[2] :> [params |-> SubSeq(Line, 3, Len(Line)),
                                body |-> SubSeq(lines, at + 1, end - 1)] @@ macros
       /\ at' = end + 1
  /\ UNCHANGED <<files, stage, stack, seen, lines, out, calls, pass, expanded, source>>

Unclosed ==
  /\ More("define") /\ Starts(Line, "macro:") /\ Closings = {}
  /\ Fail("unclosed")
  /\ UNCHANGED <<files, stack, seen, macros, lines, at, out, calls, pass, expanded, source>>

EndOfDefinitions ==
  /\ stage = "define" /\ at > Len(lines)
  /\ source' = out
  /\ Begin("expand")
  /\ UNCHANGED <<files, stack, seen, macros, calls, pass, expanded>>

-----------------------------------------------------------------------------
(* expand_one_pass and the loop around it.                                 *)

IsCall(line) == line # <<>> /\ line[1] \in DOMAIN macros
Macro == macros[Line[1]]
Given == Tail(Line)
\* A call without any argument is not held against the parameters.
Enough == Given = <<>> \/ Len(Given) >= Len(Macro.params)
Named == IF Given = <<>> THEN <<>> ELSE Macro.params

CopyText ==
  /\ More("expand") /\ ~IsCall(Line)
  /\ Keep(Line)
  /\ UNCHANGED <<files, stage, stack, seen, macros, lines, calls, pass, expanded, source>>

ExpandCall ==
  /\ More("expand") /\ IsCall(Line) /\ Enough
  /\ calls' = calls + 1
  /\ out' = out \o [i \in DOMAIN Macro.body |-> OfCall(Macro.body[i], Named, Given, calls')]
  /\ at' = at + 1 /\ expanded' = TRUE
  /\ UNCHANGED <<files, stage, stack, seen, macros, lines, pass, source>>

MissingArguments ==
  /\ More("expand") /\ IsCall(Line) /\ ~Enough
  /\ Fail("arguments")
  /\ UNCHANGED <<files, stack, seen, macros, lines, at, out, calls, pass, expanded, source>>

PassEnds == stage = "expand" /\ at > Len(lines)

NextPass ==
  /\ PassEnds /\ expanded /\ pass + 1 < MaxPasses
  /\ Begin("expand")
  /\ pass' = pass + 1 /\ expanded' = FALSE
  /\ UNCHANGED <<files, stack, seen, macros, calls, source>>

\* Fault variant: one pass too late.
TooManyPassesLate ==
  /\ PassEnds /\ expanded /\ pass = MaxPasses
  /\ Fail("endless")
  /\ UNCHANGED <<files, stack, seen, macros, lines, at, out, calls, pass, expanded, source>>

TooManyPasses ==
  /\ PassEnds /\ expanded /\ pass + 1 = MaxPasses
  /\ Fail("endless")
  /\ UNCHANGED <<files, stack, seen, macros, lines, at, out, calls, pass, expanded, source>>

\* Fault variant: the single pass of earlier versions.
AllExpandedOnce ==
  /\ PassEnds
  /\ Begin("labels")
  /\ UNCHANGED <<files, stack, seen, macros, calls, pass, expanded, source>>

AllExpanded ==
  /\ PassEnds /\ ~expanded
  /\ Begin("labels")
  /\ UNCHANGED <<files, stack, seen, macros, calls, pass, expanded, source>>

-----------------------------------------------------------------------------
(* expand_local_labels, and the lexer's look at the result.                *)

Locals == SelectSeq(FlattenSeq(lines), IsLocal)
\* Names are numbered as they are met first.
Number(word) ==
  LET first == CHOOSE i \in DOMAIN Locals : Locals[i] = word /\ \A j \in 1..(i - 1) : Locals[j] # word
  IN Cardinality({Locals[i] : i \in 1..first})
Renamed(word) ==
  IF IsLocal(word) THEN <<"~", "__loc", ToString(Number(word)), "_">> \o Tail(word) ELSE word

ExpandLocalLabels ==
  /\ stage = "labels"
  /\ lines' = [i \in DOMAIN lines |-> [j \in DOMAIN lines[i] |-> Renamed(lines[i][j])]]
  /\ stage' = "lex"
  /\ UNCHANGED <<files, stack, seen, macros, at, out, calls, pass, expanded, source>>

Tokenize ==
  /\ stage = "lex"
  /\ stage' = IF \E i \in DOMAIN lines : Has(lines[i], "$") THEN "character" ELSE "parse"
  /\ UNCHANGED <<files, stack, seen, macros, lines, at, out, calls, pass, expanded, source>>

ResolveIncludes == CopyLine \/ Include \/ IncludeRejected \/ EndOfFile \/ EndOfIncludes
ParseDefs == KeepLine \/ DefineMacro \/ Unclosed \/ EndOfDefinitions
ExpandMacros ==
  \/ CopyText \/ ExpandCall \/ MissingArguments
  \/ NextPass \/ TooManyPasses \/ AllExpanded

Next == ResolveIncludes \/ ParseDefs \/ ExpandMacros \/ ExpandLocalLabels \/ Tokenize

Spec == Init /\ [][Next]_vars /\ WF_vars(Next)

-----------------------------------------------------------------------------
(* What a text means: all inclusions and all calls carried out at once, in *)
(* the order of the text, and every label belongs to the call it is in.    *)

\* The files in the order in which they are included, to the given depth.
RECURSIVE Visits(_, _)
Visits(f, depth) ==
  IF f \notin DOMAIN files \/ depth = 0 THEN <<f>>
  ELSE <<f>> \o FlattenSeq([i \in DOMAIN files[f] |->
                 IF IsInclude(files[f][i]) THEN Visits(files[f][i][2], depth - 1) ELSE <<>>])
Visited == Visits(MainFile, Cardinality(DOMAIN files))
Repeated(i) == \E j \in 1..(i - 1) : Visited[j] = Visited[i]
Unknown(i) == Visited[i] \notin DOMAIN files

RECURSIVE Flat(_)
Flat(f) ==
  FlattenSeq([i \in DOMAIN files[f] |->
    IF IsInclude(files[f][i]) THEN Flat(files[f][i][2]) ELSE <<files[f][i]>>])

\* All parameters at once: each $ takes the longest name that follows.
RECURSIVE Together(_, _, _)
Together(word, params, values) ==
  LET named == {k \in DOMAIN params : IsPrefix(<<"$">> \o params[k], word)} IN
  IF word = <<>> THEN <<>>
  ELSE IF named = {} THEN <<Head(word)>> \o Together(Tail(word), params, values)
  ELSE LET k == CHOOSE k \in named : \A l \in named : Len(params[l]) <= Len(params[k]) IN
       values[k] \o Together(SubSeq(word, Len(params[k]) + 2, Len(word)), params, values)

Bad(why) == <<<<Word(why)>>>>
Calls(line) == line # <<>> /\ line[1] \in DOMAIN macros

\* The place of the call makes its labels different from all others.
RECURSIVE Meaning(_, _, _)
Meaning(text, place, depth) ==
  FlattenSeq([i \in DOMAIN text |->
    IF ~Calls(text[i]) THEN <<text[i]>>
    ELSE IF depth = 0 THEN Bad("too deep")
    ELSE LET m == macros[text[i][1]]
             here == Append(place, ToString(i))
             values == Tail(text[i])
         IN IF Len(values) < Len(m.params) THEN Bad("too few")
            ELSE Meaning([l \in DOMAIN m.body |-> [j \in DOMAIN m.body[l] |->
                     IF IsLocal(m.body[l][j]) THEN m.body[l][j] \o here
                     ELSE Together(m.body[l][j], m.params, values)]],
                   here, depth - 1)])
Meant == Meaning(source, <<>>, MaxPasses - 1)
Says(text, why) == \E i \in DOMAIN text : text[i] = Bad(why)[1]

\* Texts that differ in the names of labels, but not in which are the same.
Label(word) == word # <<>> /\ word[1] \in {"~", "~@"}
Alike(a, b) ==
  LET v == FlattenSeq(a)  w == FlattenSeq(b) IN
  /\ Len(a) = Len(b) /\ \A i \in DOMAIN a : Len(a[i]) = Len(b[i])
  /\ \A i \in DOMAIN v :
       IF Label(v[i])
       THEN Label(w[i]) /\ \A j \in 1..(i - 1) : v[i] = v[j] <=> w[i] = w[j]
       ELSE v[i] = w[i]

\* What the replacement one after the other takes for granted: no parameter begins with
\* another, a body refers to its own parameters, no label is handed over, none is
\* written the way the suffixes are, and no call leaves all its arguments out.
Bodies == {macros[m].body : m \in DOMAIN macros}
Refers(word, params) == \E p \in Range(params) : word = <<"$">> \o p
Regular ==
  /\ \A m \in DOMAIN macros :
       /\ \A p, q \in Range(macros[m].params) : p # q => ~IsPrefix(p, q)
       /\ \A l \in Range(macros[m].body) : \A w \in Range(l) :
            "$" \in Range(w) => Refers(w, macros[m].params)
  /\ \A text \in Bodies \cup {source} : \A l \in Range(text) :
       /\ ~Has(l, "__m")
       /\ Calls(l) \/ (l # <<>> /\ "$" \in Range(l[1])) => ~Has(l, "~@")
       /\ Calls(l) => Len(l) > 1 \/ macros[l[1]].params = <<>>
  /\ \A l \in Range(source) : ~Has(l, "$")

-----------------------------------------------------------------------------
(* Properties.                                                             *)

Failures == {"not found", "circular", "unclosed", "arguments", "endless", "character"}

\* Inclusion puts every file where it is asked for, and fails exactly if on the way
\* there is a file that does not exist or that has been included before.
IncludedOnce ==
  /\ stage = "define" /\ at = 1 => lines = Flat(MainFile)
  /\ stage = "circular" => \E i \in DOMAIN Visited : Repeated(i) /\ \A j \in 1..i : ~Unknown(j)
  /\ stage = "not found" => \E i \in DOMAIN Visited : Unknown(i) /\ \A j \in 1..i : ~Repeated(j)
  /\ stage \notin {"include", "circular", "not found"} =>
       \A i \in DOMAIN Visited : ~Repeated(i) /\ ~Unknown(i)

\* The text that is parsed is what the program means: each call has been replaced,
\* calls inside macros too, parameters have their values, and a label and the jumps to
\* it have one name, which differs from that of every other label, also when the
\* macro is used again.
ExpandedAsMeant == stage = "parse" /\ Regular => Alike(lines, Meant)

\* Expansion fails exactly if a call that is reached has too few arguments, or calls
\* are nested as deep as there are passes, as endless ones are.  (A chain of calls that
\* is just as deep is refused with them; so the code has the limit.)
RejectedRightly ==
  Regular =>
    /\ stage = "arguments" => Says(Meant, "too few")
    /\ stage = "endless" => Says(Meant, "too deep")
    /\ stage = "parse" => ~Says(Meant, "too few") /\ ~Says(Meant, "too deep")
    /\ stage # "character"

\* Every text is parsed or rejected, also one whose macros call each other for ever:
\* there are no more passes than MaxPasses.  How long a text becomes in them is not
\* said here; a macro that calls itself twice doubles it in each.
Terminates == <>(stage \in Failures \cup {"parse"})
=============================================================================
