----------------------------- MODULE MCFrontEnd -----------------------------
(* Two sorts of programs: files that include each other in every way, and    *)
(* a main file that calls the macros of a library, whose bodies are any      *)
(* two lines of a sample that has labels, calls in both directions, the      *)
(* parameters, and a parameter in the place of a macro's name.               *)
EXTENDS FrontEnd

W(atom) == <<atom>>
Ref(name) == <<"$">> \o name
A == <<"a">>
AB == <<"a", "b">>
B == <<"b">>
L == <<"~@", "l">>

Main == W("main")
IncludeOf(f) == <<W("include:"), W(f)>>
Text == <<W("use"), W("x")>>

Trees ==
  LET Body(fs) == UNION {[1..n -> {IncludeOf(f) : f \in fs} \cup {Text}] : n \in 0..2} IN
  {Main :> m @@ W("f") :> f @@ W("g") :> g :
     m \in Body({"f", "g", "none"}), f \in Body({"g", "main"}), g \in Body({"f"})}

Bodies2(choices) == UNION {[1..n -> choices] : n \in 1..2}
PLines == {<<W("label"), L>>, <<W("goto"), L>>, <<W("use"), Ref(A)>>,
           <<W("q"), Ref(A), W("2")>>, <<Ref(A), W("3"), W("4")>>, <<W("q"), L, W("1")>>}
QLines == {<<W("label"), L>>, <<W("goto"), L>>, <<W("use"), Ref(AB), Ref(A)>>,
           <<W("use"), Ref(B)>>, <<W("p"), Ref(A)>>}
Params == {<<A, AB>>, <<A, B>>}
Mains == {<<<<W("p"), W("1")>>, <<W("p"), W("q")>>, <<W("goto"), L>>, <<W("label"), L>>>>,
          <<<<W("q"), W("1"), W("p")>>, <<W("q"), W("1")>>>>,
          <<<<W("p"), Ref(B)>>, <<W("p")>>>>}
Define(name, params, body) ==
  <<<<W("macro:"), W(name)>> \o params>> \o body \o <<<<W("end:macro")>>>>

Library(ms, ps, qs) ==
  {Main :> (<<IncludeOf("lib")>> \o m) @@ W("lib") :> (Define("p", <<A>>, p) \o q) :
     m \in ms, p \in ps, q \in qs}
Libraries ==
  Library(Mains, Bodies2(PLines), {Define("q", params, q) : params \in Params, q \in Bodies2(QLines)})
    \cup Library({<<>>}, Bodies2({Text}), {Front(Define("q", <<A>>, <<Text>>))})

MCPrograms == Trees \cup Libraries
=============================================================================
