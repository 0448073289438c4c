----------------------------- MODULE MCCompiler -----------------------------
(* Instances of Compiler: one construct, or two in every order of the      *)
(* emission, in an otherwise plain program.                                *)
EXTENDS Compiler

Plain ==
  [package |-> "parser", parserParams |-> 2, headers |-> {"plain"},
   types |-> <<"plain", "plain">>, locals |-> <<"plain">>,
   statements |-> <<"plain", "plain">>, absent |-> {}]

WrongPackages ==
  {[Plain EXCEPT !.package = k] : k \in Packages} \cup
  {[Plain EXCEPT !.parserParams = n] : n \in {1, 3}}

WrongTypes == {[Plain EXCEPT !.types = <<"plain", k>>] : k \in TypeKinds}
\* A member of headers whose type is not known makes headers such a struct;
\* one of its header types may be.
WrongHeaders ==
  {[Plain EXCEPT !.headers = {"plain", p[1]}, !.types = <<p[2], p[3]>>] :
     p \in {<<"unsupported", "plain", "field_unsupported">>,
           <<"alias_unsupported", "alias_unsupported", "plain">>,
           <<"field_unsupported", "field_unsupported", "plain">>}}
WrongLocals == {[Plain EXCEPT !.locals = <<k>>] : k \in LocalKinds}
WrongStatements ==
  {[Plain EXCEPT !.statements = <<k, l>>] : k \in StatementKinds, l \in StatementKinds}
WrongTwice ==
  {[Plain EXCEPT !.types = <<"alias_unsupported">>, !.locals = <<k>>,
                 !.statements = <<l>>] : k \in LocalKinds, l \in StatementKinds}

\* An input is not there, alone or where something else is wrong, before or
\* behind the place that needs it.
Unspoken ==
  {[Plain EXCEPT !.absent = a, !.package = k, !.headers = h] :
     a \in SUBSET Inputs, k \in {"missing", "parser"},
     h \in {{"plain"}, {"unsupported"}}}

SomePrograms ==
  Unspoken \cup WrongPackages \cup WrongTypes \cup WrongHeaders \cup WrongLocals \cup
  WrongStatements \cup WrongTwice
=============================================================================
