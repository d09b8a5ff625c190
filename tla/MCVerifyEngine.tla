--------------------------- MODULE MCVerifyEngine ---------------------------
(***************************************************************************)
(* Programs for the verify engine: an operation with a call, a branch and  *)
(* a loop around it, which is itself repeated, with its conditions         *)
(* compiled in the forms that the example binary, a.out.strip, contains.   *)
(***************************************************************************)
EXTENDS VerifyEngine
LOCAL INSTANCE SequencesExt

Form(cset, op, arg, onTrue) == [cset |-> cset, op |-> op, arg |-> arg, onTrue |-> onTrue]

EqForms == { Form("eq", "b.", "eq", TRUE), Form("eq", "b.", "ne", FALSE) }
LtForms == { Form("lt", "b.", "gt", FALSE) }
OtherForms ==
  { Form("eq", "cbz", "-", TRUE),   Form("eq", "cbnz", "-", FALSE),
    Form("ne", "cbz", "-", FALSE),  Form("ne", "cbnz", "-", TRUE),
    Form("ne", "b.", "eq", FALSE),  Form("gt", "b.", "lt", FALSE),
    Form("hi", "b.", "cc", FALSE) }

\* Outer is compiled before the operation and in its branch, inner in the
\* function it calls, loop at the end of its loop.
Compiled(outer, inner, loop) ==
     IndirectSite("blr", 25)              \*  1 before the operation
  \o CondSite(outer, 7)                   \*  3
  \o << Op("plt") >>                      \*  6
  \o IndirectSite("br", 9)                \*  7
  \o << Op("init") >>                     \*  9
  \o CondSite(outer, 15)                  \* 10
  \o << OpTo("bl", 25),                   \* 13
        OpTo("b", 16),                    \* 14
        Op("plt") >>                      \* 15
  \o CondSite(loop, 10)                   \* 16
  \o << Op("quote") >>                    \* 19
  \o CondSite(loop, 9)                    \* 20
  \o IndirectSite("ret", 0)               \* 23
  \o CondSite(inner, 29)                  \* 25 the function called
  \o << Op("plt") >>                      \* 28
  \o IndirectSite("ret", 0)               \* 29

\* An operation with an indirect call or jump between two conditions, which its
\* loop and the branch around it may leave out.
Indirect(op, form, inner) ==
     << Op("init") >>                     \*  1
  \o CondSite(form, 7)                    \*  2
  \o IndirectSite(op, IF op = "blr" THEN 17 ELSE 8) \* 5
  \o << Op("plt") >>                      \*  7
  \o CondSite(inner, 2)                   \*  8
  \o << OpTo("bl", 17),                   \* 11
        Op("plt"),
        Op("quote") >>                    \* 13
  \o IndirectSite("ret", 0)               \* 14
  \o << Op("plt") >>                      \* 16
  \o CondSite(form, 20)                   \* 17 the function called
  \o IndirectSite("ret", 0)               \* 20

\* A while loop: left by its condition, closed by a b, with an indirect call or
\* jump in its body.
While(op, form) ==
     << Op("init") >>                     \*  1
  \o CondSite(form, 8)                    \*  2
  \o IndirectSite(op, IF op = "blr" THEN 12 ELSE 7) \* 5
  \o << OpTo("b", 2),                     \*  7
        Op("plt"),                        \*  8
        Op("quote") >>                    \*  9
  \o IndirectSite("ret", 0)               \* 10
  \o << Op("plt") >>                      \* 12 the function called
  \o IndirectSite("ret", 0)               \* 13

\* A tbnz goes the right way after an inequality only.
NeForms == { f \in OtherForms : f.cset = "ne" }
TbForms == { Form("lt", "tbnz", "-", TRUE) }

TbPrograms == { Compiled(o, l, l) : o \in NeForms, l \in TbForms }
IndirectPrograms == { Indirect(op, f, f) : op \in {"blr", "br"}, f \in EqForms \cup OtherForms }

WhilePrograms == { While(op, f) : op \in {"blr", "br"}, f \in EqForms }

\* Every form comes after every other, and after itself.
Mix(forms) == { Compiled(o, l, l) : o \in forms, l \in forms }

\* A signed less-than and an equality decided by b.cond are not mixed.
SafePrograms  == Mix(EqForms \cup OtherForms) \cup Mix(LtForms \cup OtherForms)
                   \cup TbPrograms \cup IndirectPrograms \cup WhilePrograms
MixedPrograms == Mix(EqForms \cup LtForms)

-----------------------------------------------------------------------------
(* The plan of a program: the least sets that contain what is reached.     *)

Least(Step(_), S) ==
  LET RECURSIVE Grown(_)
      Grown(T) == IF Step(T) = T THEN T ELSE Grown(Step(T))
  IN  Grown(S)

Within(p, a) == {b \in {a + 1} : p[a].op \in Straight \cup Noted \cup {"bl"}}
                  \cup {b \in {p[a].to} : p[a].op \in CondOps \cup {"b", "br"}}
Called(p, a) == {b \in {p[a].to} : p[a].op \in {"bl", "blr"}}

FlowOf(p, start, operation) ==
  LET Leads(a, b) == b \in Within(p, a) \cup Called(p, a)
                       \/ (p[a].op = "ret" /\ b - 1 \in operation /\ p[b - 1].op = "bl")
      Left(a, fs) == IF p[a].op = "cset" THEN {AfterCset(p[a].arg, f) : f \in fs} ELSE fs
      Step(flow)  == [b \in operation |-> flow[b] \cup
                        UNION {Left(a, flow[a]) : a \in {x \in operation : Leads(x, b)}}]
  IN  Least(Step, [a \in operation |-> {f \in {<<"eq", FALSE, FALSE>>} : a = start + 1}])

PlanOf(p) ==
  LET start   == CHOOSE a \in DOMAIN p : p[a].op = "init"
      Own(S)  == S \cup UNION {Within(p, a) : a \in S}
      body    == Least(Own, {start + 1})
      All(S)  == Own(S) \cup UNION {Called(p, a) : a \in S}
      helpers == Least(All, UNION {Called(p, a) : a \in body})
  IN  [start |-> start, body |-> body, helpers |-> helpers,
       flow |-> FlowOf(p, start, body \cup helpers)]

ASSUME SafeProgramsAreLegible == \A p \in SafePrograms : Legible(p, PlanOf(p))

=============================================================================
