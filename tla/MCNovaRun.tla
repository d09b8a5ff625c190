----------------------------- MODULE MCNovaRun -----------------------------
(***************************************************************************)
(* Programs for the pass: every sequence of three statements over an int   *)
(* x, which is annotated, an int y, an int *p and an int **q; longer ones; *)
(* and programs with calls, branches, loops, recursion, structs, arrays,   *)
(* globals and functions of libraries.                                     *)
(***************************************************************************)
EXTENDS NovaRun, TLC
LOCAL INSTANCE SequencesExt

IntPtr == Pointer(Scalar)

\* Statements, as the front end translates them without optimisation; n keeps
\* the names of one apart from those of the others.
T == <<"t1", "t2", "t3", "t4", "t5", "t6", "t7", "t8">>
U == <<"u1", "u2", "u3", "u4", "u5", "u6", "u7", "u8">>
S == <<"s1", "s2", "s3", "s4", "s5", "s6", "s7", "s8">>

Set(n, v)             == << Store(S[n], Null, v) >>                         \* v = 1
Point(n, p, v)        == << Store(S[n], v, p) >>                            \* p = &v
Get(n, v)             == << Load(T[n], v) >>                                \* v
GetThrough(n, p)      == << Load(T[n], p), Load(U[n], T[n]) >>              \* *p
SetThrough(n, p)      == << Load(T[n], p), Store(S[n], Null, T[n]) >>       \* *p = 1
PointThrough(n, q, v) == << Load(T[n], q), Store(S[n], v, T[n]) >>          \* *q = &v
Copy(n, v, w)         == << Load(T[n], w), Store(S[n], T[n], v) >>          \* v = w

Statements(n) == { Set(n, "x"), Set(n, "y"), Point(n, "p", "x"), Point(n, "p", "y"),
                   Point(n, "q", "p"), SetThrough(n, "p"), GetThrough(n, "p"),
                   PointThrough(n, "q", "x"), PointThrough(n, "q", "y"),
                   Copy(n, "x", "y") }

Mark(v) == << BitCast("b", v), Annotate("a", "b") >>   \* annotate("sensitive")
End     == << Ret("end", Null) >>

Locals == << Alloca("q", Pointer(IntPtr)), Alloca("p", IntPtr),
             Alloca("x", Scalar), Alloca("y", Scalar) >>

\* A program without globals, and one with.
Main(code) == [globals |-> <<>>, annotated |-> {}, gops |-> <<>>,
               code |-> [main |-> code], params |-> [main |-> <<>>]]
With(p, fn, params, code) ==
  [p EXCEPT !.code = @ @@ (fn :> code), !.params = @ @@ (fn :> params)]
Globals(p, types, marked, gops) ==
  [p EXCEPT !.globals = types, !.annotated = marked, !.gops = gops]

ThirdStatements == { Set(3, "x"), Point(3, "p", "y"), SetThrough(3, "p"), GetThrough(3, "p"),
                     PointThrough(3, "q", "y"), PointThrough(3, "q", "x") }
Straight == { Main(Locals \o Mark("x") \o s1 \o s2 \o s3 \o Get(4, "x") \o End) :
                s1 \in Statements(1), s2 \in Statements(2), s3 \in ThirdStatements }

Chain(marked) == Main(Locals \o Mark(marked) \o
  Point(1, "p", "x") \o Point(2, "q", "p") \o Set(3, "y") \o SetThrough(4, "p")
  \o GetThrough(5, "p") \o PointThrough(6, "q", "y") \o GetThrough(7, "p") \o End)

\* int *id(int *i) { return i; }, void put(int *i) { *i = 1; }
IdCode  == << Alloca("i.addr", IntPtr), Store("si", "i", "i.addr"),
              Load("li", "i.addr"), Ret("ri", "li") >>
PutCode == << Alloca("o.addr", IntPtr), Store("so", "o", "o.addr"),
              Load("lo", "o.addr"), Store("wo", Null, "lo"), Ret("ro", Null) >>

OneGlobal == [g |-> Scalar]
Caller(code) ==
  Globals(With(With(Main(Locals \o code \o End), "id", <<"i">>, IdCode),
               "put", <<"o">>, PutCode),
          [g |-> Scalar, h |-> Scalar], {"g"}, <<>>)

Calls ==
  { Caller(<< Call("c1", "put", <<"g">>) >> \o Get(1, "g")),
    Caller(<< Call("c1", "put", <<"g">>), Call("c2", "put", <<"h">>) >> \o Get(1, "g")),
    Caller(<< Call("c1", "put", <<"x">>) >> \o Get(1, "x")),
    Caller(<< Call("c1", "id", <<"g">>), Store("s2", "c1", "p") >> \o SetThrough(3, "p") \o Get(4, "g")),
    Caller(<< ICall("c1", "put", <<"g">>) >> \o Get(1, "g")),
    Caller(Set(1, "g") \o << Call("c1", "read", <<"g", Null>>) >> \o Get(2, "g")),
    Caller(Get(1, "g") \o Set(2, "g") \o Get(3, "g")) }

\* int *wrap(int *w) { return id(w); }
Wrapped == With(Caller(<< Call("c1", "wrap", <<"g">>), Store("s2", "c1", "p") >>
                       \o SetThrough(3, "p") \o Get(4, "g")),
                "wrap", <<"w">>,
                << Alloca("w.addr", IntPtr), Store("sw", "w", "w.addr"),
                   Load("lw", "w.addr"), Call("cw", "id", <<"lw">>), Ret("rw", "cw") >>)

\* void rec(int *r) { if (...) rec(r); *r = 1; }
Recursive == Globals(With(Main(<< Call("c1", "rec", <<"g">>) >> \o Get(1, "g") \o End),
  "rec", <<"r">>,
  << Alloca("r.addr", IntPtr), Store("sr", "r", "r.addr"), Br("b1", {4, 6}),
     Load("lr", "r.addr"), Call("cr", "rec", <<"lr">>),
     Load("mr", "r.addr"), Store("wr", Null, "mr"), Ret("rr", Null) >>), OneGlobal, {"g"}, <<>>)

\* if (...) p = &x; else p = &y; *p = 1; x
Branching == Main(<< Alloca("p", IntPtr), Alloca("x", Scalar), Alloca("y", Scalar) >> \o Mark("x") \o
  << Br("b1", {7, 9}), Store("s1", "x", "p"), Br("b2", {10}), Store("s2", "y", "p") >>
  \o SetThrough(3, "p") \o Get(4, "x") \o End)

\* p = &y; while (...) { *p = 1; p = &x; } x
Looping == Main(<< Alloca("p", IntPtr), Alloca("x", Scalar), Alloca("y", Scalar) >> \o Mark("x") \o
  << Store("s1", "y", "p"), Br("b1", {8, 12}),
     Load("t2", "p"), Store("s2", Null, "t2"), Store("s3", "x", "p"), Br("b2", {7}) >>
  \o Get(4, "x") \o End)

\* struct { int *f; int *e; } r; r.f = &x or r.e = &x; *r.f or *r.e = 1; x
Struct(off) == Main(<< Alloca("r", Record), Alloca("x", Scalar) >> \o Mark("x") \o
  << Field("f1", "r", off), Store("s1", "x", "f1"), Field("f2", "r", off), Load("l2", "f2"),
     Store("s2", Null, "l2") >> \o Get(3, "x") \o End)

\* q = &r.e; then *q = &x; *r.e = 1; x or r.e = &x; **q = 1; x
FieldPointer(written, read) == Main(<< Alloca("r", Record), Alloca("q", Pointer(IntPtr)), Alloca("x", Scalar) >>
  \o Mark("x") \o
  << Field("f1", "r", 1), Store("s1", "f1", "q"), Load("t1", "q"), Field("f2", "r", 1),
     Store("s2", "x", written), Load("l2", read), Store("s3", Null, "l2") >> \o Get(3, "x") \o End)

\* A global struct, annotated: r.e = 1; r.e; r.f, and pointers into it.
GlobalStruct(pointers) == Globals(
  Main(<< Alloca("p", Pointer(Record)), Store("s1", Null, "&r.e"), Load("t1", "&r.e"),
          Load("t2", "&r.f"), Store("s2", "r", "p"), Load("t3", "p"), Field("f3", "t3", 1),
          Store("s3", Null, "f3"), Load("t4", "&r.e") >> \o pointers \o End),
  [r |-> Record], {"r"},
  [v \in {"&r.e", "&r.f"} |->
     [ptr |-> "r", off |-> IF v = "&r.e" THEN 1 ELSE 0, struct |-> TRUE]])

\* char a[2], annotated, and a pointer into it; a float.
Array == Main(<< Alloca("arr", Scalar), Alloca("p", IntPtr) >> \o Mark("arr") \o
  << Gep("e1", "arr"), Store("s1", Null, "e1"), Gep("e2", "arr"), Store("s2", "e2", "p"),
     Load("t3", "p"), Gep("e3", "t3"), Store("s3", Null, "e3"), Load("t4", "p"), Load("u4", "t4"),
     BinOp("v4", "u4", Null), Store("s5", "v4", "e1"), Load("t6", "e1") >> \o End)
\* A global char arr[2], annotated: arr[1] = 1; arr[1]; p = arr; *p = 1; *p
GlobalArray == Globals(
  Main(<< Alloca("p", IntPtr), Store("s1", Null, "&arr.1"), Load("t1", "&arr.1"),
          Store("s2", "arr", "p") >> \o SetThrough(3, "p") \o GetThrough(4, "p") \o End),
  [arr |-> Scalar], {"arr"}, [v \in {"&arr.1"} |-> [ptr |-> "arr", off |-> 1, struct |-> FALSE]])
FloatVar == Main(<< Alloca("x", Scalar) >> \o Mark("x") \o
  << Float(Store("s1", Null, "x")), Float(Load("t1", "x")), Store("s2", Null, "x"), Load("t2", "x") >> \o End)

MCFunction == {"main", "id", "put", "wrap", "rec", "read"}

MCPrograms == Straight \cup {Chain("x"), Chain("p")} \cup Calls
                \cup {Wrapped, Recursive, Branching, Looping, Struct(0), Struct(1),
                      FieldPointer("t1", "f2"), FieldPointer("f2", "t1"),
                      GlobalStruct(<< >>),
                      GlobalStruct(<< Alloca("q", IntPtr), Store("s5", "&r.f", "q"), Load("t5", "q"),
                                      Load("t6", "t5") >>), Array, GlobalArray, FloatVar}

MCValue ==
  Range(T) \cup Range(U) \cup Range(S) \cup
  {"x", "y", "p", "q", "b", "a", "g", "h", "r", "&r.e", "&r.f", "arr", "&arr.1",
   "i", "i.addr", "si", "li", "ri", "o", "o.addr", "so", "lo", "wo", "ro",
   "w", "w.addr", "sw", "lw", "cw", "rw", "r.addr", "sr", "lr", "cr", "mr", "wr", "rr",
   "b1", "b2", "c1", "c2", "e1", "e2", "e3", "f1", "f2", "f3", "l2", "v4", "end"}

=============================================================================
