------------------------------- MODULE Interp -------------------------------
(***************************************************************************)
(* Control flow of the tree-walking interpreter: interpreter.go (calls,    *)
(* blocks, loops, try, runAs), triggers.go (a trigger body) and            *)
(* testrunner.go (one test after another).                                 *)
(*                                                                         *)
(* The interpreter keeps its context in a handful of fields, the registers *)
(* below.  Each construct saves some of them in Go locals, changes them,   *)
(* walks its body and puts them back; none of them does so in a deferred   *)
(* function.  return, break, continue and throw travel as values that each *)
(* construct looks at; failures travel as Go panics, which skip what a     *)
(* construct has still to do, until a try, a trigger or a test recovers.   *)
(*                                                                         *)
(* A program is any nesting of constructs, statement by statement: a frame *)
(* of the stack is one construct in progress together with the block it    *)
(* runs, so that the scope of a method and the one of its block count as   *)
(* one.  currentFile moves with the class and is left out.                 *)
(***************************************************************************)
EXTENDS Naturals, SequencesExt

CONSTANTS
  Classes,    \* the user's classes
  TestClasses, \* those with test methods
  Sharing,    \* their sharing modifier: with, without, inherited or none
  Users,      \* values a runAs statement may be given
  Phases,     \* contexts a trigger runs in
  None,       \* a nil pointer
  MaxDepth,   \* bound: constructs in progress
  MaxScopes   \* bound: length of the chain of scopes, leaked ones included

ASSUME InterpAssumption ==
  /\ Sharing \in [Classes -> {"with", "without", "inherited", "none"}]
  /\ TestClasses \subseteq Classes
  /\ None \notin Classes \cup Users \cup Phases
  /\ MaxDepth \in Nat \ {0}
  /\ MaxScopes \in Nat \ {0}

VARIABLES
  reg,        \* env (as the length of its chain), thisObj (as its class),
              \* currentClass, callerSharingMode, execCtx, triggerCtx
  stack,      \* the constructs in progress, innermost last
  signal,     \* "run", or what the innermost construct's body came to
  verdict     \* of the last test

(* History: the registers that a construct cut off by a panic still had to *)
(* put back.                                                               *)
VARIABLE leaked

vars == <<reg, stack, signal, verdict, leaked>>

Registers == {"env", "this", "class", "caller", "user", "trig"}
Values    == {"done", "return", "break", "continue", "throw"}
Panics    == {"exception", "fault"}   \* the four Apex errors, any other panic

Handlers  == {"catch", "finally", "catch and finally"}

HasCatch(f)   == f.arg \in {"catch", "catch and finally"}
HasFinally(f) == f.arg \in {"finally", "catch and finally"}

Initial == [env |-> 0, this |-> None, class |-> None, caller |-> "",
            user |-> None, trig |-> None]

Init ==
  /\ reg = Initial
  /\ stack = <<>>
  /\ signal = "run"
  /\ verdict = "none"
  /\ leaked = {}

----------------------------------------------------------------------------
(* effectiveSharingMode, of a current class and its caller's mode. *)
Mode(c, caller) ==
  LET own == IF c = None THEN "none" ELSE Sharing[c]
  IN  IF own \in {"with", "without"} THEN own
      ELSE IF caller # "" THEN caller
      ELSE IF own = "inherited" THEN "with" ELSE "without"

(* What each construct does to the registers as it begins.  A constructor  *)
(* and a trigger run in whatever class is current.                         *)
Called_Modifier(c, g) ==
  [g EXCEPT !.env = @ + 1, !.class = c, !.caller = Sharing[g.class]]

Called_SwitchFirst(c, g) ==
  [g EXCEPT !.env = @ + 1, !.class = c, !.caller = Mode(c, g.caller)]

Called(c, g) ==
  [g EXCEPT !.env = @ + 1, !.class = c, !.caller = Mode(g.class, g.caller)]

Begun(kind, x, g) ==
  CASE kind = "static"   -> Called(x, g)
    [] kind = "instance" -> [Called(x, g) EXCEPT !.this = x]
    [] kind = "ctor"     -> [g EXCEPT !.env = @ + 1, !.this = x]
    [] kind = "runAs"    -> [g EXCEPT !.env = @ + 1, !.user = x]
    [] kind = "trigger"  -> [g EXCEPT !.env = @ + 1, !.trig = x]
    [] OTHER             -> [g EXCEPT !.env = @ + 1]

(* And what it puts back at its end. *)
Restores_RunAsForgets(kind) ==
  CASE kind = "static"   -> {"env", "class", "caller"}
    [] kind = "instance" -> {"env", "class", "caller", "this"}
    [] kind \in {"own", "ctor"} -> {"env", "this"}
    [] kind = "trigger"  -> {"env", "trig"}
    [] kind \in {"fixture", "test"} -> {"env", "this", "class"}
    [] OTHER             -> {"env"}

Restores(kind) ==
  CASE kind = "static"   -> {"env", "class", "caller"}
    [] kind = "instance" -> {"env", "class", "caller", "this"}
    [] kind \in {"own", "ctor"} -> {"env", "this"}
    [] kind = "runAs"    -> {"env", "user"}
    [] kind = "trigger"  -> {"env", "trig"}
    [] kind \in {"fixture", "test"} -> {"env", "this", "class"}
    [] OTHER             -> {"env"}

Kinds == {"static", "instance", "local", "own", "ctor", "block", "loop",
          "runAs", "trigger", "try", "catch", "finally", "fixture", "test"}

Calls == {"static", "instance", "local", "own", "ctor"}

Top == Last(stack)

(* A frame: what it saved, the registers it should run with had no one     *)
(* leaked, and the class whose code it runs.                               *)
Enter(kind, x, code) ==
  /\ signal = "run"
  /\ stack # <<>> /\ Len(stack) < MaxDepth /\ reg.env < MaxScopes
  /\ reg' = Begun(kind, x, reg)
  /\ stack' = Append(stack, [kind |-> kind, arg |-> x, saved |-> reg,
                             should |-> Begun(kind, x, Top.should),
                             code |-> code])
  /\ UNCHANGED <<signal, verdict, leaked>>

(* Expressions: also in the field initialisers of a test class.  New is    *)
(* the constructor; the initialisers of the new object run before it, in   *)
(* the registers of the code around.  ThisCall is this(...).               *)
StaticCall(c)   == Enter("static", c, c)
InstanceCall(c) == Enter("instance", c, c)
New(c)          == Enter("ctor", c, c)
ThisCall        == None \notin {reg.this, reg.class}
                   /\ Enter("ctor", reg.this, reg.class)
LocalCall       == Enter("local", None, reg.class)
OwnCall         == reg.this # None /\ Enter("own", None, reg.class)
Trigger(ph)     == Enter("trigger", ph, reg.class)

(* Statements; a block stands for the branches of if and switch as well. *)
InBlock == stack # <<>> /\ Top.kind # "fixture"

Block    == InBlock /\ Enter("block", None, Top.code)
Loop     == InBlock /\ Enter("loop", None, Top.code)
RunAs(u) == InBlock /\ Enter("runAs", u, Top.code)
Try(h)   == InBlock /\ Enter("try", h, Top.code)

(* The grammar of a valid program: a loop around it, in the same body. *)
InLoop ==
  \E i \in 1..Len(stack) :
    /\ stack[i].kind = "loop"
    /\ \A j \in i..Len(stack) :
         stack[j].kind \notin Calls \cup {"trigger", "test"}

(* A statement that ends its body, or the end of the body itself. *)
Signal(s) ==
  /\ stack # <<>> /\ signal = "run"
  /\ InBlock \/ s = "done"
  /\ s \in {"break", "continue"} => InLoop
  /\ signal' = s
  /\ UNCHANGED <<reg, stack, verdict, leaked>>

Raise(p) ==
  /\ stack # <<>> /\ signal = "run"
  /\ signal' = p
  /\ UNCHANGED <<reg, stack, verdict, leaked>>

----------------------------------------------------------------------------
(* How each construct ends when its body comes to a value. *)

Restored(f) ==
  [r \in Registers |-> IF r \in Restores(f.kind) THEN f.saved[r] ELSE reg[r]]

Leave(s) ==
  /\ reg' = Restored(Top)
  /\ stack' = Front(stack)
  /\ signal' = s
  /\ UNCHANGED <<verdict, leaked>>

(* As the result of a statement, and as the result of a body. *)
Result(s) == IF s = "done" THEN "run" ELSE s

EndScope ==
  /\ stack # <<>> /\ Top.kind \in {"block", "runAs"} /\ signal \in Values
  /\ Leave(Result(signal))

(* A method's value is all its caller sees: of a throw, null. *)
EndCall ==
  /\ stack # <<>> /\ Top.kind \in Calls /\ signal \in Values
  /\ Leave("run")

(* A loop looks for break, continue and return.  A thrown exception ends   *)
(* the turn only.                                                          *)
NextTurn(f) == [reg EXCEPT !.env = f.saved.env + 1]

LoopAgain ==
  /\ stack # <<>> /\ Top.kind = "loop"
  /\ signal \in {"done", "continue", "throw"}
  /\ reg' = NextTurn(Top)
  /\ signal' = "run"
  /\ UNCHANGED <<stack, verdict, leaked>>

EndLoop ==
  /\ stack # <<>> /\ Top.kind = "loop" /\ signal \in Values
  /\ Leave(IF signal = "return" THEN "return" ELSE "run")

(* A trigger runs its statements one by one whatever each comes to. *)
NextTriggerStatement ==
  /\ stack # <<>> /\ Top.kind = "trigger" /\ signal \in Values \ {"done"}
  /\ signal' = "run"
  /\ UNCHANGED <<reg, stack, verdict, leaked>>

EndTrigger ==
  /\ stack # <<>> /\ Top.kind = "trigger" /\ signal \in {"done", "fault"}
  /\ Leave("run")

----------------------------------------------------------------------------
(* try: a throw that reaches the end of its block becomes a panic there.   *)
TryThrow ==
  /\ stack # <<>> /\ Top.kind = "try" /\ signal = "throw"
  /\ reg' = Restored(Top)
  /\ signal' = "exception"
  /\ UNCHANGED <<stack, verdict, leaked>>

(* The first catch clause takes any panic, in the scope that was current   *)
(* when it was raised.                                                     *)
Catch ==
  /\ stack # <<>> /\ Top.kind = "try" /\ HasCatch(Top)
  /\ signal \in Panics /\ reg.env < MaxScopes
  /\ stack' = Append(Front(stack),
                [Top EXCEPT !.kind = "catch", !.saved = reg])
  /\ reg' = [reg EXCEPT !.env = @ + 1]
  /\ signal' = "run"
  /\ leaked' = leaked \cup {"env"}
  /\ UNCHANGED verdict

(* After the block or the catch block, the finally block if there is one;  *)
(* what that comes to is dropped.                                          *)
EndTry ==
  /\ stack # <<>> /\ Top.kind \in {"try", "catch"}
  /\ signal \in Values /\ ~(Top.kind = "try" /\ signal = "throw")
  /\ ~HasFinally(Top)
  /\ Leave(Result(signal))

Finally ==
  /\ stack # <<>> /\ Top.kind \in {"try", "catch"}
  /\ signal \in Values /\ ~(Top.kind = "try" /\ signal = "throw")
  /\ HasFinally(Top)
  /\ stack' = Append(Front(stack),
                [Top EXCEPT !.kind = "finally", !.arg = signal,
                            !.saved = Restored(Top)])
  /\ reg' = [Restored(Top) EXCEPT !.env = @ + 1]
  /\ signal' = "run"
  /\ UNCHANGED <<verdict, leaked>>

EndFinally ==
  /\ stack # <<>> /\ Top.kind = "finally" /\ signal \in Values
  /\ Leave(Result(Top.arg))

(* A panic passes through every other construct and restores nothing. *)
Recovers(f) ==
  \/ f.kind \in {"fixture", "test"}
  \/ f.kind = "try" /\ HasCatch(f)
  \/ f.kind = "trigger" /\ signal = "fault"

Unwind ==
  /\ stack # <<>> /\ signal \in Panics /\ ~Recovers(Top)
  /\ stack' = Front(stack)
  /\ leaked' = leaked \cup Restores(Top.kind)
  /\ UNCHANGED <<reg, signal, verdict>>

----------------------------------------------------------------------------
(* runSingleTest: an instance of the test class is made first, outside the *)
(* function that recovers; then the method runs, then three registers are  *)
(* put back.                                                               *)
BeginTest(c) ==
  /\ stack = <<>> /\ verdict # "crashed"
  /\ reg' = [reg EXCEPT !.env = 1, !.class = c]
  /\ stack' = << [kind |-> "fixture", arg |-> c, saved |-> reg,
                  should |-> [Initial EXCEPT !.env = 1, !.class = c],
                  code |-> c] >>
  /\ verdict' = "none"
  /\ UNCHANGED <<signal, leaked>>

OnInstance(c, g) == [g EXCEPT !.env = @ + 1, !.this = c]

RunTest ==
  /\ stack # <<>> /\ Top.kind = "fixture" /\ signal = "done"
  /\ reg' = OnInstance(Top.arg, reg)
  /\ stack' = << [Top EXCEPT !.kind = "test",
                             !.should = OnInstance(Top.arg, @)] >>
  /\ signal' = "run"
  /\ UNCHANGED <<verdict, leaked>>

Crash ==
  /\ stack # <<>> /\ Top.kind = "fixture" /\ signal \in Panics
  /\ verdict' = "crashed"
  /\ stack' = <<>>
  /\ signal' = "run"
  /\ UNCHANGED <<reg, leaked>>

AfterTest_PassOnly(f) == IF signal \in Panics THEN reg ELSE Restored(f)

AfterTest(f) == Restored(f)

EndTest ==
  /\ stack # <<>> /\ Top.kind = "test" /\ signal # "run"
  /\ verdict' = IF signal \in Panics THEN "failed" ELSE "passed"
  /\ reg' = AfterTest(Top)
  /\ stack' = <<>>
  /\ signal' = "run"
  /\ leaked' = leaked \ Restores("test")

Next ==
  \/ \E c \in TestClasses : BeginTest(c)
  \/ \E c \in Classes : StaticCall(c) \/ InstanceCall(c) \/ New(c)
  \/ ThisCall \/ LocalCall \/ OwnCall \/ Block \/ Loop
  \/ \E ph \in Phases : Trigger(ph)
  \/ \E u \in Users : RunAs(u)
  \/ \E h \in Handlers : Try(h)
  \/ \E s \in Values : Signal(s)
  \/ \E p \in Panics : Raise(p)
  \/ EndScope \/ EndCall \/ LoopAgain \/ EndLoop
  \/ NextTriggerStatement \/ EndTrigger
  \/ TryThrow \/ Catch \/ EndTry \/ Finally \/ EndFinally \/ Unwind
  \/ RunTest \/ Crash \/ EndTest

Spec == Init /\ [][Next]_vars

----------------------------------------------------------------------------
RegisterSet ==
  [env : Nat, this : Classes \cup {None}, class : Classes \cup {None},
   caller : {"", "with", "without"}, user : Users \cup {None},
   trig : Phases \cup {None}]

Frame ==
  [kind : Kinds,
   arg : Classes \cup Users \cup Phases \cup {None} \cup Handlers \cup Values,
   saved : RegisterSet, should : RegisterSet, code : Classes \cup {None}]

TypeOK ==
  /\ reg \in RegisterSet
  /\ stack \in Seq(Frame)
  /\ signal \in {"run"} \cup Values \cup Panics
  /\ verdict \in {"none", "passed", "failed", "crashed"}
  /\ leaked \subseteq Registers

(* Nothing but a panic that cut a construct off leaves a register other    *)
(* than the code in progress should see it: calls, constructors, runAs     *)
(* blocks, loops and triggers that end by any value, in any nesting, put   *)
(* everything back (interpreter.go:161-177, 305-328, 1259-1289, 1850-1860, *)
(* triggers.go:90-154).                                                    *)
OnlyPanicsLeak ==
  stack # <<>> /\ signal = "run" =>
    \A r \in Registers \ leaked : reg[r] = Top.should[r]

(* Between two tests the scope, the instance and the class are what they   *)
(* were before the first, however each test ended (testrunner.go:106-110). *)
TestsPutBack ==
  stack = <<>> /\ verdict # "crashed" =>
    \A r \in Restores("test") : reg[r] = Initial[r]

(* The sharing mode of the code in progress is the one its chain of calls  *)
(* gives: that of the last class called that says with or without sharing; *)
(* of no such class, that of the entry point, with sharing if it inherits, *)
(* without if it says nothing (context.go:44-77).                          *)
CallFrames(s) == {i \in 1..Len(s) :
                   s[i].kind \in {"fixture", "test", "static", "instance"}}

Deciding(s) == {i \in CallFrames(s) : Sharing[s[i].arg] \in {"with", "without"}}

ChainMode(s) ==
  IF Deciding(s) # {} THEN Sharing[s[Max(Deciding(s))].arg]
  ELSE IF Sharing[s[1].arg] = "inherited" THEN "with" ELSE "without"

SharingFollowsCalls ==
  stack # <<>> /\ signal = "run" /\ leaked \cap {"class", "caller"} = {} =>
    Mode(reg.class, reg.caller) = ChainMode(stack)

(* STUBS.md:141: context is restored after each runAs block; STUBS.md:7:   *)
(* outside runAs the defaults hold.                                        *)
RunAsIsRestored ==
  stack # <<>> /\ signal = "run" => reg.user = Top.should.user

(* GUIDE.md:167: throw works.  A method that ends by a throw hands it on   *)
(* to the code that called it.                                             *)
ThrowLeavesItsMethod ==
  [][stack # <<>> /\ Top.kind \in Calls /\ signal = "throw" =>
       signal' # "run"]_vars

(* STUBS.md:147: code of a class with sharing runs with sharing.           *)
WithSharingEnforces ==
  stack # <<>> /\ signal = "run" /\ leaked = {} /\ Sharing[Top.code] = "with" =>
    Mode(reg.class, reg.caller) = "with"
=============================================================================
