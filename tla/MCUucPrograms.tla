--------------------------- MODULE MCUucPrograms ----------------------------
(***************************************************************************)
(* Compiled programs for the runs of the virtual machine.  Each is what    *)
(* compile_code makes of the source text in the comment above it, byte for *)
(* byte (opcodes are the numerals of UucOpcodes).                          *)
(***************************************************************************)
EXTENDS Sequences, UucValueOps

Function(arity, code, constants, names) ==
  [arity |-> arity, code |-> code, constants |-> constants, names |-> names]

\* uuc_hash_string of every name below, modulo 64.
NameHash ==
  [a |-> 36, b |-> 31, c |-> 54, d |-> 41, e |-> 0, f |-> 59, g |-> 18, h |-> 21,
   i |-> 44, j |-> 39, k |-> 62, l |-> 49, m |-> 8, multi |-> 54, n |-> 3, o |-> 26,
   odd |-> 26, one |-> 29, outer |-> 60, q |-> 52, s |-> 6, t |-> 57, x |-> 37]

-----------------------------------------------------------------------------
\* var a = 1 + (2 + 3) * 4 - -10 / 3; var b = !(a >= 23) == true; var s = "u"
\* + "c"; var d = a / 2.0;
Arith ==
  [main |-> Function(0, <<0, 0, 0, 1, 0, 2, 12, 0, 3, 14, 12, 0, 4, 10, 0, 5, 15, 13, 2,
        0, 3, 2, 0, 6, 19, 11, 7, 16, 2, 1, 0, 7, 0, 8, 12, 2, 3, 3, 5, 0, 9, 15, 2, 4>>,
      <<IntVal(1), IntVal(2), IntVal(3), IntVal(4), IntVal(10), IntVal(3), IntVal(23),
        StringVal, StringVal, DoubleVal>>, <<"a", "b", "a", "s", "d", "a">>)]

\* var a; if(0) a = 1; else if(2 > 1) a = 2; else a = 4;
Choice ==
  [main |-> Function(0, <<0, 0, 2, 0, 0, 1, 24, 0, 7, 0, 2, 4, 1, 22, 0, 19, 0, 3, 0, 4,
        18, 24, 0, 7, 0, 5, 4, 2, 22, 0, 4, 0, 6, 4, 3>>,
      <<NullVal, IntVal(0), IntVal(1), IntVal(2), IntVal(1), IntVal(2), IntVal(4)>>,
      <<"a", "a", "a", "a">>)]

\* var a = 0; while(true){ var i = 1; while(true){ var i = 2; if(a>0)break; a
\* = i; } if(a>1)break; a=i; }
Breaks ==
  [main |-> Function(0, <<0, 0, 2, 0, 7, 24, 0, 48, 0, 1, 7, 24, 0, 22, 0, 2, 3, 1, 0, 3,
        18, 24, 0, 4, 27, 22, 0, 8, 5, 1, 4, 2, 27, 23, 0, 26, 3, 3, 0, 4, 18, 24, 0, 4,
        27, 22, 0, 8, 5, 0, 4, 4, 27, 23, 0, 52>>,
      <<IntVal(0), IntVal(1), IntVal(2), IntVal(0), IntVal(1)>>,
      <<"a", "a", "a", "a", "a">>)]

\* var a = 0; while(true){ a=a+1; {var i = a;if(i<2)continue;} break; }
Continue ==
  [main |-> Function(0, <<0, 0, 2, 0, 7, 24, 0, 28, 3, 2, 0, 1, 12, 4, 1, 3, 3, 5, 0, 0,
        2, 20, 24, 0, 4, 27, 23, 0, 25, 27, 22, 0, 3, 23, 0, 32>>,
      <<IntVal(0), IntVal(1), IntVal(2)>>, <<"a", "a", "a", "a">>)]

\* var a=0;var b=1; for(var i=0;i<3;i=i+1){var tmp=a+b;a=b;b=tmp;}
Fibonacci ==
  [main |-> Function(0, <<0, 0, 2, 0, 0, 1, 2, 1, 0, 2, 5, 0, 0, 3, 20, 24, 0, 30, 22, 0,
        10, 5, 0, 0, 4, 12, 6, 0, 23, 0, 21, 3, 2, 3, 3, 12, 3, 5, 4, 4, 5, 1, 4, 6, 27,
        23, 0, 27, 27>>,
      <<IntVal(0), IntVal(1), IntVal(0), IntVal(3), IntVal(1)>>,
      <<"a", "b", "a", "b", "a", "b", "b">>)]

\* var a = 0; for(;;) {a=a+1;if(a<2)continue;else break;}
Forever ==
  [main |-> Function(0, <<0, 0, 2, 0, 3, 2, 0, 1, 12, 4, 1, 3, 3, 0, 2, 20, 24, 0, 6, 23,
        0, 18, 22, 0, 3, 22, 0, 3, 23, 0, 27>>,
      <<IntVal(0), IntVal(1), IntVal(2)>>, <<"a", "a", "a", "a">>)]

\* var a = 0; { var a = 10; { a = 11; var b = a; b = b + a; } } { var c; a =
\* 14; }
Shadow ==
  [main |-> Function(0, <<0, 0, 2, 0, 0, 1, 0, 2, 6, 0, 5, 0, 5, 1, 5, 0, 12, 6, 1, 27,
        27, 0, 3, 0, 4, 4, 1, 27>>,
      <<IntVal(0), IntVal(10), IntVal(11), NullVal, IntVal(14)>>, <<"a", "a">>)]

\* var b = 9; fn multi(x,y) { var z = x*y; { var w = z; z = w + 0; } return
\* z; } var a = multi(multi(2,b),10) + b;
Multi ==
  [main |-> Function(0, <<0, 0, 2, 0, 0, 1, 2, 1, 0, 2, 3, 5, 3, 4, 25, 2, 0, 3, 3, 3, 25,
        2, 3, 6, 12, 2, 2>>,
      <<IntVal(9), FunVal("multi"), IntVal(2), IntVal(10)>>,
      <<"b", "multi", "a", "multi", "multi", "b", "b">>),
   multi |-> Function(2, <<5, 0, 5, 1, 14, 5, 2, 5, 3, 0, 0, 12, 6, 2, 27, 5, 2, 26, 27,
        9, 26>>,
      <<IntVal(0)>>, <<>>)]

\* fn t(b){return b+1;} var a = 2+t(1)*2*(t(1)+t(1));
Twice ==
  [main |-> Function(0, <<0, 0, 2, 0, 0, 1, 0, 2, 3, 2, 25, 1, 0, 3, 14, 0, 4, 3, 3, 25,
        1, 0, 5, 3, 4, 25, 1, 12, 14, 12, 2, 1>>,
      <<FunVal("t"), IntVal(2), IntVal(1), IntVal(2), IntVal(1), IntVal(1)>>,
      <<"t", "a", "t", "t", "t">>),
   t |-> Function(1, <<5, 0, 0, 0, 12, 26, 9, 26>>,
      <<IntVal(1)>>, <<>>)]

\* fn outer(){fn inner(){return 69;}return inner;} var f=outer();var a=f();
Outer ==
  [main |-> Function(0, <<0, 0, 2, 0, 3, 2, 25, 0, 2, 1, 3, 4, 25, 0, 2, 3>>,
      <<FunVal("outer")>>, <<"outer", "f", "outer", "a", "f">>),
   outer |-> Function(0, <<0, 0, 5, 0, 26, 27, 9, 26>>,
      <<FunVal("inner")>>, <<>>),
   inner |-> Function(0, <<0, 0, 26, 9, 26>>,
      <<IntVal(69)>>, <<>>)]

\* fn f(n){ if(n<1) return 1; return n*f(n-1); } var a = f(3);
Fact ==
  [main |-> Function(0, <<0, 0, 2, 0, 0, 1, 3, 2, 25, 1, 2, 1>>,
      <<FunVal("f"), IntVal(3)>>, <<"f", "a", "f">>),
   f |-> Function(1, <<5, 0, 0, 0, 20, 24, 0, 3, 0, 1, 26, 5, 0, 5, 0, 0, 2, 13, 3, 0, 25,
        1, 14, 26, 9, 26>>,
      <<IntVal(1), IntVal(1), IntVal(1)>>, <<"f">>)]

\* fn f(n){ return f(n+1); } var a = f(0);
Deep ==
  [main |-> Function(0, <<0, 0, 2, 0, 0, 1, 3, 2, 25, 1, 2, 1>>,
      <<FunVal("f"), IntVal(0)>>, <<"f", "a", "f">>),
   f |-> Function(1, <<5, 0, 0, 0, 12, 3, 0, 25, 1, 26, 9, 26>>,
      <<IntVal(1)>>, <<"f">>)]

\* fn odd(n){ while(n>1) n = n - 2; if(n==1) return true; else return false;
\* } var a = odd(3); var b = odd(2);
Odd ==
  [main |-> Function(0, <<0, 0, 2, 0, 0, 1, 3, 2, 25, 1, 2, 1, 0, 2, 3, 4, 25, 1, 2, 3>>,
      <<FunVal("odd"), IntVal(3), IntVal(2)>>, <<"odd", "a", "odd", "b", "odd">>),
   odd |-> Function(1, <<5, 0, 0, 0, 18, 24, 0, 10, 5, 0, 0, 1, 13, 6, 0, 23, 0, 18, 5, 0,
        0, 2, 16, 24, 0, 5, 7, 26, 22, 0, 2, 8, 26, 9, 26>>,
      <<IntVal(1), IntVal(2), IntVal(1)>>, <<>>)]

\* fn one(){ return 1; } var a = 0; for(var i=0;i<2;i=i+one()) if(a < one())
\* a = a + i;
Loop ==
  [main |-> Function(0, <<0, 0, 2, 0, 0, 1, 2, 1, 0, 2, 5, 0, 0, 3, 20, 24, 0, 35, 22, 0,
        12, 5, 0, 3, 2, 25, 0, 12, 6, 0, 23, 0, 23, 3, 3, 3, 4, 25, 0, 20, 24, 0, 7, 3, 6,
        5, 0, 12, 4, 5, 23, 0, 32, 27>>,
      <<FunVal("one"), IntVal(0), IntVal(0), IntVal(2)>>,
      <<"one", "a", "one", "a", "one", "a", "a">>),
   one |-> Function(0, <<0, 0, 26, 9, 26>>,
      <<IntVal(1)>>, <<>>)]

\* fn f(x){ return 1.5 > x; } var a = 0; if(1.5) a = 2; if(f(2)) a = 1; else
\* a = 3/0.0;
Half ==
  [main |-> Function(0, <<0, 0, 2, 0, 0, 1, 2, 1, 0, 2, 24, 0, 4, 0, 3, 4, 2, 0, 4, 3, 3,
        25, 1, 24, 0, 7, 0, 5, 4, 4, 22, 0, 7, 0, 6, 0, 7, 15, 4, 5>>,
      <<FunVal("f"), IntVal(0), DoubleVal, IntVal(2), IntVal(2), IntVal(1), IntVal(3), DoubleVal>>,
      <<"f", "a", "a", "f", "a", "a">>),
   f |-> Function(1, <<0, 0, 5, 0, 18, 26, 9, 26>>,
      <<DoubleVal>>, <<>>)]

\* 1; var a = 2; a + 1;
Left ==
  [main |-> Function(0, <<0, 0, 0, 1, 2, 0, 3, 1, 0, 2, 12>>,
      <<IntVal(1), IntVal(2), IntVal(1)>>, <<"a", "a">>)]

\* var f = 1; var a = f();
NoCall ==
  [main |-> Function(0, <<0, 0, 2, 0, 3, 2, 25, 0, 2, 1>>,
      <<IntVal(1)>>, <<"f", "a", "f">>)]

\* var a = 1; if("string") { a = 4; }
Typed ==
  [main |-> Function(0, <<0, 0, 2, 0, 0, 1, 24, 0, 4, 0, 2, 4, 1>>,
      <<IntVal(1), StringVal, IntVal(4)>>, <<"a", "a">>)]

\* fn f(){ return 10 + q; } var a = 10+f();
Undef ==
  [main |-> Function(0, <<0, 0, 2, 0, 0, 1, 3, 2, 25, 0, 12, 2, 1>>,
      <<FunVal("f"), IntVal(10)>>, <<"f", "a", "f">>),
   f |-> Function(0, <<0, 0, 3, 0, 12, 26, 9, 26>>,
      <<IntVal(10)>>, <<"q">>)]

\* fn f(x){ return 10*x; } var a = f(null);
Nulls ==
  [main |-> Function(0, <<0, 0, 2, 0, 9, 3, 2, 25, 1, 2, 1>>,
      <<FunVal("f")>>, <<"f", "a", "f">>),
   f |-> Function(1, <<0, 0, 5, 0, 14, 26, 9, 26>>,
      <<IntVal(10)>>, <<>>)]

\* var x; fn f(y){ return x + y; } var a = f(3);
Null2 ==
  [main |-> Function(0, <<0, 0, 2, 0, 0, 1, 2, 1, 0, 2, 3, 3, 25, 1, 2, 2>>,
      <<NullVal, FunVal("f"), IntVal(3)>>, <<"x", "f", "a", "f">>),
   f |-> Function(1, <<3, 0, 5, 0, 12, 26, 9, 26>>,
      <<>>, <<"x">>)]

\* fn f(y){ return "str" > y; } var a = f(23);
Cmp ==
  [main |-> Function(0, <<0, 0, 2, 0, 0, 1, 3, 2, 25, 1, 2, 1>>,
      <<FunVal("f"), IntVal(23)>>, <<"f", "a", "f">>),
   f |-> Function(1, <<0, 0, 5, 0, 18, 26, 9, 26>>,
      <<StringVal>>, <<>>)]

\* fn f(y){ return -y; } var a = f(true);
Neg ==
  [main |-> Function(0, <<0, 0, 2, 0, 7, 3, 2, 25, 1, 2, 1>>,
      <<FunVal("f")>>, <<"f", "a", "f">>),
   f |-> Function(1, <<5, 0, 10, 26, 9, 26>>,
      <<>>, <<>>)]

\* fn f(y){ return !y; } var a = f(10);
Not ==
  [main |-> Function(0, <<0, 0, 2, 0, 0, 1, 3, 2, 25, 1, 2, 1>>,
      <<FunVal("f"), IntVal(10)>>, <<"f", "a", "f">>),
   f |-> Function(1, <<5, 0, 11, 26, 9, 26>>,
      <<>>, <<>>)]

\* var a=0; var b=1; var c=2; var d=3; var e=4; var f=5; var g=6; var h=7;
\* var i=8; var j=9; var k=10; var l=11; var m=12; var n = a; a = m; b = n;
Many ==
  [main |-> Function(0, <<0, 0, 2, 0, 0, 1, 2, 1, 0, 2, 2, 2, 0, 3, 2, 3, 0, 4, 2, 4, 0,
        5, 2, 5, 0, 6, 2, 6, 0, 7, 2, 7, 0, 8, 2, 8, 0, 9, 2, 9, 0, 10, 2, 10, 0, 11, 2,
        11, 0, 12, 2, 12, 3, 14, 2, 13, 3, 16, 4, 15, 3, 18, 4, 17>>,
      <<IntVal(0), IntVal(1), IntVal(2), IntVal(3), IntVal(4), IntVal(5), IntVal(6), IntVal(7),
        IntVal(8), IntVal(9), IntVal(10), IntVal(11), IntVal(12)>>,
      <<"a", "b", "c", "d", "e", "f", "g", "h", "i", "j", "k", "l", "m", "n", "a", "a", "m",
        "b", "n">>)]

\* fn f(x){ x = x + 1; return x; } var a = 1 + f(3); var b = a;
Kept ==
  [main |-> Function(0, <<0, 0, 2, 0, 0, 1, 0, 2, 3, 2, 25, 1, 12, 2, 1, 3, 4, 2, 3>>,
      <<FunVal("f"), IntVal(1), IntVal(3)>>, <<"f", "a", "f", "b", "a">>),
   f |-> Function(1, <<5, 0, 0, 0, 12, 6, 0, 5, 0, 26, 9, 26>>,
      <<IntVal(1)>>, <<>>)]

\* var c = 1; var multi = 2; c = 3; multi = c + multi;  (One node for both.)
Shared ==
  [main |-> Function(0, <<0, 0, 2, 0, 0, 1, 2, 1, 0, 2, 4, 2, 3, 4, 3, 5, 12, 4, 3>>,
      <<IntVal(1), IntVal(2), IntVal(3)>>, <<"c", "multi", "c", "multi", "c", "multi">>)]

\* Every path to an instruction leaves the same number of values on the stack.
WellStacked ==
  [Arith |-> Arith, Choice |-> Choice, Breaks |-> Breaks, Continue |-> Continue,
   Fibonacci |-> Fibonacci, Forever |-> Forever, Shadow |-> Shadow, Multi |-> Multi,
   Twice |-> Twice, Outer |-> Outer, Fact |-> Fact, Deep |-> Deep, Odd |-> Odd,
   Loop |-> Loop, Half |-> Half, Left |-> Left, NoCall |-> NoCall, Typed |-> Typed,
   Undef |-> Undef, Nulls |-> Nulls, Null2 |-> Null2, Cmp |-> Cmp, Neg |-> Neg,
   Not |-> Not, Many |-> Many, Kept |-> Kept, Shared |-> Shared]

-----------------------------------------------------------------------------
\* fn f(){1;} f(); var a = 1;
Falls ==
  [main |-> Function(0, <<0, 0, 2, 0, 3, 1, 25, 0, 0, 1, 2, 2>>,
      <<FunVal("f"), IntVal(1)>>, <<"f", "f", "a">>),
   f |-> Function(0, <<0, 0, 9, 26>>,
      <<IntVal(1)>>, <<>>)]

\* fn f(){return 1;} f();
CallLast ==
  [main |-> Function(0, <<0, 0, 2, 0, 3, 1, 25, 0>>,
      <<FunVal("f")>>, <<"f", "f">>),
   f |-> Function(0, <<0, 0, 26, 9, 26>>,
      <<IntVal(1)>>, <<>>)]

\* var a = 1; return a; a = 2;
TopReturn ==
  [main |-> Function(0, <<0, 0, 2, 0, 3, 1, 26, 0, 1, 4, 2>>,
      <<IntVal(1), IntVal(2)>>, <<"a", "a", "a">>)]

\* fn f(x,y){return x;} var a = f(1);
Few ==
  [main |-> Function(0, <<0, 0, 2, 0, 0, 1, 3, 2, 25, 1, 2, 1>>,
      <<FunVal("f"), IntVal(1)>>, <<"f", "a", "f">>),
   f |-> Function(2, <<5, 0, 26, 9, 26>>,
      <<>>, <<>>)]

\* fn f(x,y){x = y; return x;} var a = f(1);
Few2 ==
  [main |-> Function(0, <<0, 0, 2, 0, 0, 1, 3, 2, 25, 1, 2, 1>>,
      <<FunVal("f"), IntVal(1)>>, <<"f", "a", "f">>),
   f |-> Function(2, <<5, 1, 6, 0, 5, 0, 26, 9, 26>>,
      <<>>, <<>>)]

\* fn f(x){return x;} var a = f(1,2); var b = a;
Extra ==
  [main |-> Function(0, <<0, 0, 2, 0, 0, 1, 0, 2, 3, 2, 25, 2, 2, 1, 3, 4, 2, 3>>,
      <<FunVal("f"), IntVal(1), IntVal(2)>>, <<"f", "a", "f", "b", "a">>),
   f |-> Function(1, <<5, 0, 26, 9, 26>>,
      <<>>, <<>>)]

\* { var x = x; var y = x; } var a = 1;
OwnInit ==
  [main |-> Function(0, <<5, 0, 5, 0, 27, 27, 0, 0, 2, 0>>,
      <<IntVal(1)>>, <<"a">>)]

\* { var x = x; x(); }
OwnCall ==
  [main |-> Function(0, <<5, 0, 5, 0, 25, 0, 27>>,
      <<>>, <<>>)]

\* { var x = x; var y = 1 + x; y = y < x; y = -x; y = !x; if(x) y = x; }
OwnUse ==
  [main |-> Function(0, <<5, 0, 0, 0, 5, 0, 12, 5, 1, 5, 0, 20, 6, 1, 5, 0, 10, 6, 1, 5, 0,
        11, 6, 1, 5, 0, 24, 0, 4, 5, 0, 6, 1, 27, 27>>,
      <<IntVal(1)>>, <<>>)]

\* var a = 1; { var x = x; a = x; } a();
OwnGlobal ==
  [main |-> Function(0, <<0, 0, 2, 0, 5, 0, 4, 1, 27, 3, 2, 25, 0>>,
      <<IntVal(1)>>, <<"a", "a", "a">>)]

\* { var x = 1; var y = 2; var z = z; }  (A stack of two slots ends before z's.)
OwnThird ==
  [main |-> Function(0, <<0, 0, 0, 1, 5, 2, 27, 27, 27>>,
      <<IntVal(1), IntVal(2)>>, <<>>)]

\* { 1; var x = 2; x = 3; } var a = 1;
Stale ==
  [main |-> Function(0, <<0, 0, 0, 1, 0, 2, 6, 0, 27, 0, 3, 2, 0>>,
      <<IntVal(1), IntVal(2), IntVal(3), IntVal(1)>>, <<"a">>)]

\* fn f(a){return a;} fn g(b){return b;} var a = g(5);
Leak ==
  [main |-> Function(0, <<0, 0, 2, 0, 0, 1, 2, 1, 0, 2, 3, 3, 25, 1, 2, 2>>,
      <<FunVal("f"), FunVal("g"), IntVal(5)>>, <<"f", "g", "a", "g">>),
   f |-> Function(1, <<5, 0, 26, 9, 26>>,
      <<>>, <<>>),
   g |-> Function(1, <<5, 1, 26, 9, 26>>,
      <<>>, <<>>)]

\* fn o(p){ fn q(r){ return r; } var s = q(p); return s; } var a = o(4);
Nested ==
  [main |-> Function(0, <<0, 0, 2, 0, 0, 1, 3, 2, 25, 1, 2, 1>>,
      <<FunVal("o"), IntVal(4)>>, <<"o", "a", "o">>),
   o |-> Function(1, <<0, 0, 5, 0, 5, 1, 25, 1, 5, 3, 26, 27, 27, 27, 9, 26>>,
      <<FunVal("q")>>, <<>>),
   q |-> Function(1, <<5, 2, 26, 9, 26>>,
      <<>>, <<>>)]

\* var a = 0; while(true) break; a = 1;
NoBlock ==
  [main |-> Function(0, <<0, 0, 2, 0, 7, 24, 0, 6, 22, 0, 0, 23, 0, 10, 0, 1, 4, 1>>,
      <<IntVal(0), IntVal(1)>>, <<"a", "a">>)]

\* var a = 0; for(var i = 0; i < 3; i = i + 1) { if(i == 1) break; a = i; }
ForBreak ==
  [main |-> Function(0, <<0, 0, 2, 0, 0, 1, 5, 0, 0, 2, 20, 24, 0, 32, 22, 0, 10, 5, 0, 0,
        3, 12, 6, 0, 23, 0, 21, 5, 0, 0, 4, 16, 24, 0, 4, 27, 22, 0, 7, 5, 0, 4, 1, 23, 0,
        29, 27>>,
      <<IntVal(0), IntVal(0), IntVal(3), IntVal(1), IntVal(1)>>, <<"a", "a">>)]

\* var a = 0; while(a < 2) { fn f(){ break; return 1; } a = a + 1; } a = 5;
FnBreak ==
  [main |-> Function(0, <<0, 0, 0, 21, 3, 1, 0, 1, 20, 24, 0, 13, 0, 2, 3, 3, 0, 3, 12, 4,
        2, 27, 23, 0, 21, 0, 4, 4, 4>>,
      <<IntVal(0), IntVal(2), FunVal("f"), IntVal(1), IntVal(5)>>,
      <<"a", "a", "a", "a", "a">>),
   f |-> Function(0, <<27, 22, 0, 0, 0, 0, 26, 9, 26>>,
      <<IntVal(1)>>, <<>>)]

\* fn odd(n){ while(n>1) n = n - 2; if(n==1) return true; else return false;
\* } var a = 0; for(var i=0;i<3;i=i+1) if(odd(i)) a = a + i;
Params ==
  [main |-> Function(0, <<0, 0, 2, 0, 0, 1, 2, 1, 0, 2, 5, 1, 0, 3, 20, 24, 0, 32, 22, 0,
        10, 5, 1, 0, 4, 12, 6, 1, 23, 0, 21, 5, 1, 3, 2, 25, 1, 24, 0, 7, 3, 4, 5, 1, 12,
        4, 3, 23, 0, 29, 27, 27>>,
      <<FunVal("odd"), IntVal(0), IntVal(0), IntVal(3), IntVal(1)>>,
      <<"odd", "a", "odd", "a", "a">>),
   odd |-> Function(1, <<5, 0, 0, 0, 18, 24, 0, 10, 5, 0, 0, 1, 13, 6, 0, 23, 0, 18, 5, 0,
        0, 2, 16, 24, 0, 5, 7, 26, 22, 0, 2, 8, 26, 9, 26>>,
      <<IntVal(1), IntVal(2), IntVal(1)>>, <<>>)]

\* var a = 0; while(a < 2) { fn f(){ var x = 1; break; return 1; } a = a + 1;
\* a = a + 1 - 1; } a = 5;
FnBreakX ==
  [main |-> Function(0, <<0, 0, 2, 0, 3, 0, 28, 1, 20, 24, 0, 23, 0, 2, 3, 3, 0, 3, 12, 4,
        2, 3, 5, 0, 4, 12, 0, 5, 13, 4, 4, 27, 23, 0, 31, 0, 6, 4, 6>>,
      <<IntVal(0), IntVal(2), FunVal("f"), IntVal(1), IntVal(1), IntVal(1), IntVal(5)>>,
      <<"a", "a", "a", "a", "a", "a", "a">>),
   f |-> Function(0, <<0, 0, 27, 27, 22, 0, 0, 0, 1, 26, 27, 9, 26>>,
      <<IntVal(1), IntVal(1)>>, <<>>)]

\* fn outer(){fn inner(){return 69;}return inner;} var a = outer()(); var b =
\* a;
Chain ==
  [main |-> Function(0, <<0, 0, 2, 0, 3, 2, 25, 0, 3, 2, 25, 0, 2, 1, 3, 4, 2, 3>>,
      <<FunVal("outer")>>, <<"outer", "a", "outer", "b", "a">>),
   outer |-> Function(0, <<0, 0, 5, 0, 26, 27, 9, 26>>,
      <<FunVal("inner")>>, <<>>),
   inner |-> Function(0, <<0, 0, 26, 9, 26>>,
      <<IntVal(69)>>, <<>>)]

\* fn f(){ return f(); } var a = f();
Inf ==
  [main |-> Function(0, <<0, 0, 2, 0, 3, 2, 25, 0, 2, 1>>,
      <<FunVal("f")>>, <<"f", "a", "f">>),
   f |-> Function(0, <<3, 0, 25, 0, 26, 9, 26>>,
      <<>>, <<"f">>)]

\* (the empty program)
Empty ==
  [main |-> Function(0, <<>>,
      <<>>, <<>>)]

\* 1; 2; ... 260;  Constants 256 to 259 do not fit OP_CONSTANT, and their index
\* bytes are executed, in the end as an OP_DEFINE_GLOBAL of a name there is not.
Wide ==
  [main |-> Function(0,
      [i \in 1 .. 512 |-> IF i % 2 = 1 THEN 0 ELSE (i \div 2) - 1]
         \o <<1, 1, 0, 1, 1, 1, 1, 1, 2, 1, 1, 3>>,
      [i \in 1 .. 260 |-> IntVal(i)], <<>>)]

\* Programs of which that is not so, or that the end of main cannot be told from.
IllStacked ==
  [Falls |-> Falls, CallLast |-> CallLast, TopReturn |-> TopReturn, Few |-> Few,
   Few2 |-> Few2, Extra |-> Extra, OwnInit |-> OwnInit, OwnCall |-> OwnCall,
   OwnUse |-> OwnUse, OwnGlobal |-> OwnGlobal, OwnThird |-> OwnThird, Stale |-> Stale, Leak |-> Leak,
   Nested |-> Nested, NoBlock |-> NoBlock, ForBreak |-> ForBreak, FnBreak |-> FnBreak,
   Params |-> Params, FnBreakX |-> FnBreakX, Chain |-> Chain, Inf |-> Inf,
   Empty |-> Empty, Wide |-> Wide]
=============================================================================
