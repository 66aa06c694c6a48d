---------------------------- MODULE InterpProofs ----------------------------
(***************************************************************************)
(* Proofs about the interpreter's registers, for any classes, users and    *)
(* depth of nesting.                                                       *)
(***************************************************************************)
EXTENDS Interp, ListFacts

(* The constructs that begin with Enter, and what each is given. *)
Entered(kind, x) ==
  \/ kind \in {"static", "instance", "ctor"} /\ x \in Classes
  \/ kind \in {"local", "own", "block", "loop"} /\ x = None
  \/ kind = "runAs" /\ x \in Users
  \/ kind = "trigger" /\ x \in Phases
  \/ kind = "try" /\ x \in Handlers

LEMMA ModeType ==
  ASSUME NEW c \in Classes \cup {None}, NEW m \in {"", "with", "without"}
  PROVE  Mode(c, m) \in {"with", "without"}
BY InterpAssumption DEF Mode

LEMMA RegistersOf ==
  ASSUME NEW g \in RegisterSet PROVE DOMAIN g = Registers
BY DEF RegisterSet, Registers

LEMMA NextScope == ASSUME NEW g \in RegisterSet PROVE g.env + 1 \in Nat
<1>1. g.env \in Nat
  BY DEF RegisterSet
<1>2. QED
  BY <1>1

LEMMA CalledType ==
  ASSUME NEW g \in RegisterSet, NEW c \in Classes
  PROVE  Called(c, g) \in RegisterSet
<1>1. Mode(g.class, g.caller) \in {"with", "without"}
  BY ModeType DEF RegisterSet
<1>2. g.env + 1 \in Nat
  BY NextScope
<1> DEFINE h == [g EXCEPT !.env = g.env + 1, !.class = c]
           m == Mode(g.class, g.caller)
<1>3. h \in RegisterSet
  BY <1>2 DEF RegisterSet
<1>4. Called(c, g) = [h EXCEPT !.caller = m]
  BY DEF Called
<1> HIDE DEF h, m
<1>5. [h EXCEPT !.caller = m] \in RegisterSet
  BY <1>1, <1>3 DEF RegisterSet, m
<1>6. QED
  BY <1>4, <1>5

LEMMA BegunType ==
  ASSUME NEW g \in RegisterSet, NEW kind, NEW x, Entered(kind, x)
  PROVE  Begun(kind, x, g) \in RegisterSet
<1>0. g.env + 1 \in Nat
  BY NextScope
<1>1. CASE kind = "static" /\ x \in Classes
  BY <1>1, CalledType DEF Begun
<1>2. CASE kind = "instance" /\ x \in Classes
  <2>1. Called(x, g) \in RegisterSet
    BY <1>2, CalledType
  <2>2. Begun(kind, x, g) = [Called(x, g) EXCEPT !.this = x]
    BY <1>2 DEF Begun
  <2>3. QED
    BY <1>2, <2>1, <2>2 DEF RegisterSet
<1>3. CASE kind = "ctor" /\ x \in Classes
  BY <1>0, <1>3 DEF Begun, RegisterSet
<1>4. CASE kind = "runAs" /\ x \in Users
  BY <1>0, <1>4 DEF Begun, RegisterSet
<1>5. CASE kind = "trigger" /\ x \in Phases
  BY <1>0, <1>5 DEF Begun, RegisterSet
<1>6. CASE kind \in {"local", "own", "block", "loop", "try"}
  BY <1>0, <1>6 DEF Begun, RegisterSet
<1>7. QED
  BY <1>1, <1>2, <1>3, <1>4, <1>5, <1>6 DEF Entered

(* Registers a construct does not put back are those it does not touch. *)
LEMMA BegunKeeps ==
  ASSUME NEW g \in RegisterSet, NEW kind, NEW x, Entered(kind, x),
         NEW r \in Registers \ Restores(kind)
  PROVE  Begun(kind, x, g)[r] = g[r]
<1>1. DOMAIN g = Registers
  BY RegistersOf
<1>2. CASE kind = "static"
  BY <1>1, <1>2 DEF Begun, Called, Restores, Registers
<1>3. CASE kind = "instance"
  BY <1>1, <1>3 DEF Begun, Called, Restores, Registers
<1>4. CASE kind \in {"ctor", "runAs", "trigger"}
  BY <1>1, <1>4 DEF Begun, Restores, Registers
<1>5. CASE kind \in {"local", "own", "block", "loop", "try"}
  BY <1>1, <1>5 DEF Begun, Restores, Registers
<1>6. QED
  BY <1>2, <1>3, <1>4, <1>5 DEF Entered

(* A construct begins alike in two contexts that agree outside L. *)
LEMMA BegunSame ==
  ASSUME NEW g \in RegisterSet, NEW h \in RegisterSet, NEW L,
         \A r \in Registers \ L : g[r] = h[r],
         "class" \in L => "caller" \in L,
         NEW kind, NEW x, Entered(kind, x), NEW r \in Registers \ L
  PROVE  Begun(kind, x, g)[r] = Begun(kind, x, h)[r]
<1>1. DOMAIN g = Registers /\ DOMAIN h = Registers /\ g[r] = h[r]
  BY RegistersOf
<1>2. r = "env" => g.env = h.env
  BY <1>1 DEF Registers
<1>3. r = "caller" => Mode(g.class, g.caller) = Mode(h.class, h.caller)
  BY DEF Registers
<1>4. CASE kind = "static"
  BY <1>1, <1>2, <1>3, <1>4 DEF Begun, Called, Registers
<1>5. CASE kind = "instance"
  BY <1>1, <1>2, <1>3, <1>5 DEF Begun, Called, Registers
<1>6. CASE kind \in {"ctor", "runAs", "trigger"}
  BY <1>1, <1>2, <1>6 DEF Begun, Registers
<1>7. CASE kind \in {"local", "own", "block", "loop", "try"}
  BY <1>1, <1>2, <1>7 DEF Begun, Registers
<1>8. QED
  BY <1>4, <1>5, <1>6, <1>7 DEF Entered

----------------------------------------------------------------------------
(* The inductive invariant.  A frame saves, of the registers it puts back, *)
(* what the frame below should run with, and leaves the others alone; what *)
(* has leaked is excepted.  A test is the first frame and no other.        *)
Chain ==
  /\ \A i \in 1..Len(stack) :
       /\ (i = 1) <=> (stack[i].kind \in {"fixture", "test"})
       /\ stack[i].kind = "finally" => stack[i].arg \in Values
  /\ \A i \in 2..Len(stack) :
       /\ stack[i].should.env = stack[i - 1].should.env + 1
       /\ \A r \in Registers \ leaked :
            stack[i - 1].should[r] =
              IF r \in Restores(stack[i].kind) THEN stack[i].saved[r]
                                               ELSE stack[i].should[r]

Bottom ==
  stack # <<>> =>
    /\ stack[1].arg \in Classes
    /\ \A r \in Restores("test") : stack[1].saved[r] = Initial[r]
    /\ \A r \in Registers \ Restores("test") : stack[1].should[r] = Initial[r]

(* A panic on its way may have left the scope of the block it cut off. *)
Match ==
  IF stack = <<>>
  THEN verdict # "crashed" => \A r \in Registers \ leaked : reg[r] = Initial[r]
  ELSE \A r \in Registers \ leaked :
         reg[r] = Last(stack).should[r] \/ (r = "env" /\ signal \in Panics)

IInv ==
  /\ TypeOK /\ Chain /\ Bottom /\ Match /\ TestsPutBack
  /\ "class" \in leaked => "caller" \in leaked

LEMMA TopFacts ==
  ASSUME TypeOK, stack # <<>>
  PROVE  /\ Len(stack) \in Nat \ {0}
         /\ Top = stack[Len(stack)] /\ Top = Last(stack) /\ Top \in Frame
         /\ Top.saved \in RegisterSet /\ Top.should \in RegisterSet
         /\ Front(stack) \in Seq(Frame)
         /\ Len(Front(stack)) = Len(stack) - 1
         /\ \A i \in 1..(Len(stack) - 1) : Front(stack)[i] = stack[i]
<1>1. stack \in Seq(Frame)
  BY DEF TypeOK
<1>2. Top \in Frame
  BY <1>1, FrontFacts DEF Top
<1>3. QED
  BY <1>1, <1>2, FrontFacts DEF Top, Frame

LEMMA EnterType ==
  ASSUME TypeOK, NEW kind, NEW x, Entered(kind, x),
         NEW code \in Classes \cup {None}, Enter(kind, x, code)
  PROVE  TypeOK'
<1>1. reg' \in RegisterSet
  BY BegunType DEF Enter, TypeOK
<1> DEFINE f == [kind |-> kind, arg |-> x, saved |-> reg,
                 should |-> Begun(kind, x, Top.should), code |-> code]
<1>2. f \in Frame
  <2>1. Begun(kind, x, Top.should) \in RegisterSet
    BY BegunType, TopFacts DEF Enter
  <2>2. kind \in Kinds
    BY DEF Entered, Kinds
  <2>3. reg \in RegisterSet
    BY DEF TypeOK
  <2>4. QED
    BY <2>1, <2>2, <2>3 DEF Frame, Entered
<1>3. stack' = Append(stack, f)
  BY DEF Enter
<1> HIDE DEF f
<1>4. stack' \in Seq(Frame)
  BY <1>2, <1>3, AppendProperties DEF TypeOK
<1>5. QED
  BY <1>1, <1>4 DEF TypeOK, Enter

LEMMA EnterStep ==
  ASSUME IInv, NEW kind, NEW x, Entered(kind, x),
         NEW code \in Classes \cup {None}, Enter(kind, x, code)
  PROVE  IInv'
<1> DEFINE n == Len(stack)
           f == [kind |-> kind, arg |-> x, saved |-> reg,
                 should |-> Begun(kind, x, Top.should), code |-> code]
<1>1. TypeOK /\ TypeOK' /\ signal = "run" /\ stack # <<>>
  BY EnterType DEF IInv, Enter
<1>2. stack' = Append(stack, f) /\ reg' = Begun(kind, x, reg)
      /\ UNCHANGED <<signal, verdict, leaked>>
  BY DEF Enter
<1>3. f \in Frame
  <2>1. Begun(kind, x, Top.should) \in RegisterSet
    BY <1>1, BegunType, TopFacts
  <2>2. QED
    BY <1>1, <2>1 DEF Frame, Entered, Kinds, TypeOK
<1>4. f.kind = kind /\ f.saved = reg /\ f.should = Begun(kind, x, Top.should)
  OBVIOUS
<1> HIDE DEF f
<1>5. /\ Len(stack') = n + 1
      /\ \A i \in 1..n : stack'[i] = stack[i]
      /\ stack'[n + 1] = f
      /\ stack' # <<>> /\ Last(stack') = f
  BY <1>1, <1>2, <1>3, AppendProperties DEF TypeOK, Last
<1>6. n \in Nat \ {0} /\ Top = stack[n] /\ Top.should \in RegisterSet
  BY <1>1, TopFacts
<1>7. \A r \in Registers \ leaked : reg[r] = Top.should[r]
  BY <1>1, TopFacts DEF IInv, Match, Panics
<1>8. \A r \in Registers \ leaked : reg'[r] = f.should[r]
  BY <1>1, <1>2, <1>4, <1>6, <1>7, BegunSame DEF IInv, TypeOK
<1>9. Chain'
  <2>1. kind \notin {"fixture", "test", "finally"}
    BY DEF Entered
  <2>2. f.should.env = Top.should.env + 1
    <3>1. DOMAIN Top.should = Registers
      BY <1>6, RegistersOf
    <3>2. QED
      BY <1>4, <1>6, <3>1 DEF Begun, Called, Entered, Registers, RegisterSet
  <2>3. \A r \in Registers \ leaked :
          Top.should[r] = IF r \in Restores(kind) THEN reg[r] ELSE f.should[r]
    BY <1>4, <1>6, <1>7, BegunKeeps
  <2>4. ASSUME NEW i \in 1..(n + 1)
        PROVE  /\ (i = 1) <=> (stack'[i].kind \in {"fixture", "test"})
               /\ stack'[i].kind = "finally" => stack'[i].arg \in Values
    <3>1. CASE i \in 1..n
      BY <1>5, <3>1 DEF IInv, Chain
    <3>2. CASE i = n + 1
      BY <1>4, <1>5, <1>6, <2>1, <3>2
    <3>3. QED
      BY <1>6, <3>1, <3>2
  <2>5. ASSUME NEW i \in 2..(n + 1)
        PROVE  /\ stack'[i].should.env = stack'[i - 1].should.env + 1
               /\ \A r \in Registers \ leaked :
                    stack'[i - 1].should[r] =
                      IF r \in Restores(stack'[i].kind) THEN stack'[i].saved[r]
                                                        ELSE stack'[i].should[r]
    <3>1. CASE i \in 2..n
      <4>1. stack'[i] = stack[i] /\ stack'[i - 1] = stack[i - 1]
        BY <1>5, <1>6, <3>1
      <4>2. QED
        BY <3>1, <4>1 DEF IInv, Chain
    <3>2. CASE i = n + 1
      <4>1. stack'[i] = f /\ stack'[i - 1] = Top
        BY <1>5, <1>6, <3>2
      <4>2. QED
        BY <1>4, <2>2, <2>3, <4>1
    <3>3. QED
      BY <1>6, <3>1, <3>2
  <2>6. QED
    BY <1>2, <1>5, <2>4, <2>5 DEF Chain
<1>10. Bottom'
  BY <1>1, <1>5, <1>6 DEF IInv, Bottom
<1>11. Match' /\ TestsPutBack'
  BY <1>2, <1>5, <1>8 DEF Match, TestsPutBack
<1>12. QED
  BY <1>1, <1>2, <1>9, <1>10, <1>11 DEF IInv

----------------------------------------------------------------------------
(* A construct ends by a value, or is cut off.                             *)
LEMMA RestoredType ==
  ASSUME TypeOK, NEW f, f.saved \in RegisterSet
  PROVE  Restored(f) \in RegisterSet
<1>1. reg \in RegisterSet
  BY DEF TypeOK
<1>2. Restored(f) = [env |-> Restored(f).env, this |-> Restored(f).this,
                     class |-> Restored(f).class, caller |-> Restored(f).caller,
                     user |-> Restored(f).user, trig |-> Restored(f).trig]
  BY DEF Restored, Registers
<1>3. /\ Restored(f).env \in Nat
      /\ Restored(f).this \in Classes \cup {None}
      /\ Restored(f).class \in Classes \cup {None}
      /\ Restored(f).caller \in {"", "with", "without"}
      /\ Restored(f).user \in Users \cup {None}
      /\ Restored(f).trig \in Phases \cup {None}
  BY <1>1 DEF Restored, Registers, RegisterSet
<1>4. QED
  BY <1>2, <1>3 DEF RegisterSet

LEMMA AboveTest ==
  ASSUME TypeOK, Chain, stack # <<>>, Top.kind \notin {"fixture", "test"}
  PROVE  /\ Len(stack) \in 2..Len(stack) /\ Len(stack) - 1 \in 1..Len(stack)
         /\ Front(stack) # <<>>
         /\ Last(Front(stack)) = stack[Len(stack) - 1]
         /\ Front(stack)[1] = stack[1]
<1>1. Len(stack) # 1
  BY TopFacts DEF Chain
<1>2. Len(stack) \in 2..Len(stack) /\ Len(stack) - 1 \in 1..(Len(stack) - 1)
  BY <1>1, TopFacts
<1>3. Front(stack) # <<>> /\ Last(Front(stack)) = Front(stack)[Len(stack) - 1]
  BY <1>2, TopFacts, EmptySeq DEF Last
<1>4. QED
  BY <1>2, <1>3, TopFacts

(* What is left of the chain when the last frame goes. *)
LEMMA FrontChain ==
  ASSUME TypeOK, Chain, stack # <<>>, stack' = Front(stack),
         leaked \subseteq leaked'
  PROVE  Chain'
<1> DEFINE n == Len(stack)
<1>1. n \in Nat \ {0} /\ Len(stack') = n - 1
      /\ \A i \in 1..(n - 1) : stack'[i] = stack[i]
  BY TopFacts
<1>2. \A i \in 1..(n - 1) :
        /\ (i = 1) <=> (stack'[i].kind \in {"fixture", "test"})
        /\ stack'[i].kind = "finally" => stack'[i].arg \in Values
  BY <1>1 DEF Chain
<1>3. ASSUME NEW i \in 2..(n - 1)
      PROVE  /\ stack'[i].should.env = stack'[i - 1].should.env + 1
             /\ \A r \in Registers \ leaked' :
                  stack'[i - 1].should[r] =
                    IF r \in Restores(stack'[i].kind) THEN stack'[i].saved[r]
                                                      ELSE stack'[i].should[r]
  <2>1. stack'[i] = stack[i] /\ stack'[i - 1] = stack[i - 1] /\ i \in 2..n
    BY <1>1, <1>3
  <2>2. QED
    BY <2>1 DEF Chain
<1>4. QED
  BY <1>1, <1>2, <1>3 DEF Chain

LEMMA LeaveStep ==
  ASSUME IInv, stack # <<>>, Top.kind \notin {"fixture", "test"},
         signal \in Values \/ (signal \in Panics /\ Top.kind = "trigger"),
         NEW s \in {"run"} \cup Values, Leave(s)
  PROVE  IInv'
<1>1. TypeOK /\ Chain
  BY DEF IInv
<1>2. stack' = Front(stack) /\ reg' = Restored(Top) /\ signal' = s
      /\ UNCHANGED <<verdict, leaked>>
  BY DEF Leave
<1>3. TypeOK'
  BY <1>1, <1>2, TopFacts, RestoredType DEF TypeOK
<1>4. Chain'
  BY <1>1, <1>2, FrontChain
<1>5. stack' # <<>> /\ Last(stack') = stack[Len(stack) - 1]
      /\ stack'[1] = stack[1] /\ Len(stack) \in 2..Len(stack)
  BY <1>1, <1>2, AboveTest
<1>6. Bottom'
  BY <1>5 DEF IInv, Bottom
<1>7. ASSUME NEW r \in Registers \ leaked
      PROVE  reg'[r] = stack[Len(stack) - 1].should[r]
  <2>1. stack[Len(stack) - 1].should[r] =
          IF r \in Restores(Top.kind) THEN Top.saved[r] ELSE Top.should[r]
    BY <1>1, <1>5, <1>7, TopFacts DEF Chain
  <2>2. CASE r \in Restores(Top.kind)
    BY <1>2, <2>1, <2>2 DEF Restored
  <2>3. CASE r \notin Restores(Top.kind)
    <3>1. r # "env"
      BY <2>3 DEF Restores
    <3>2. reg[r] = Top.should[r]
      BY <1>7, <3>1 DEF IInv, Match, Top
    <3>3. QED
      BY <1>2, <2>1, <2>3, <3>2 DEF Restored
  <2>4. QED
    BY <2>2, <2>3
<1>8. Match' /\ TestsPutBack'
  BY <1>2, <1>5, <1>7 DEF Match, TestsPutBack
<1>9. QED
  BY <1>2, <1>3, <1>4, <1>6, <1>8 DEF IInv

LEMMA UnwindStep ==
  ASSUME IInv, Unwind PROVE IInv'
<1>1. TypeOK /\ Chain /\ stack # <<>> /\ signal \in Panics
      /\ Top.kind \notin {"fixture", "test"}
  BY DEF IInv, Unwind, Recovers
<1>2. stack' = Front(stack) /\ leaked' = leaked \cup Restores(Top.kind)
      /\ UNCHANGED <<reg, signal, verdict>>
  BY DEF Unwind
<1>3. Restores(Top.kind) \subseteq Registers /\ "env" \in Restores(Top.kind)
      /\ ("class" \in Restores(Top.kind) => "caller" \in Restores(Top.kind))
  BY <1>1 DEF Restores, Registers
<1>4. TypeOK'
  BY <1>1, <1>2, <1>3, TopFacts DEF TypeOK
<1>5. Chain'
  BY <1>1, <1>2, FrontChain
<1>6. stack' # <<>> /\ Last(stack') = stack[Len(stack) - 1]
      /\ stack'[1] = stack[1] /\ Len(stack) \in 2..Len(stack)
  BY <1>1, <1>2, AboveTest
<1>7. Bottom'
  BY <1>6 DEF IInv, Bottom
<1>8. ASSUME NEW r \in Registers \ leaked'
      PROVE  reg'[r] = stack[Len(stack) - 1].should[r]
  <2>1. r \notin Restores(Top.kind) /\ r # "env" /\ r \in Registers \ leaked
    BY <1>2, <1>3, <1>8
  <2>2. stack[Len(stack) - 1].should[r] = Top.should[r]
    BY <1>1, <1>6, <2>1, TopFacts DEF Chain
  <2>3. reg[r] = Top.should[r]
    BY <1>1, <2>1 DEF IInv, Match, Top
  <2>4. QED
    BY <1>2, <2>2, <2>3
<1>9. Match' /\ TestsPutBack'
  BY <1>2, <1>6, <1>8 DEF Match, TestsPutBack
<1>10. "class" \in leaked' => "caller" \in leaked'
  BY <1>2, <1>3 DEF IInv
<1>11. QED
  BY <1>4, <1>5, <1>7, <1>9, <1>10 DEF IInv

----------------------------------------------------------------------------
(* Steps that change neither the constructs in progress nor what leaked.   *)
LEMMA SameStack ==
  ASSUME IInv, UNCHANGED <<stack, verdict, leaked>>, stack # <<>>,
         TypeOK', Match'
  PROVE  IInv'
<1>1. Chain' /\ Bottom' /\ TestsPutBack'
  BY DEF IInv, Chain, Bottom, TestsPutBack
<1>2. QED
  BY <1>1 DEF IInv

LEMMA SignalStep ==
  ASSUME IInv, NEW s \in Values \cup Panics, Signal(s) \/ Raise(s)
  PROVE  IInv'
<1>1. stack # <<>> /\ signal = "run" /\ signal' = s
      /\ UNCHANGED <<reg, stack, verdict, leaked>>
  BY DEF Signal, Raise
<1>2. TypeOK'
  BY <1>1 DEF IInv, TypeOK
<1>3. Match'
  BY <1>1 DEF IInv, Match, Panics
<1>4. QED
  BY <1>1, <1>2, <1>3, SameStack

LEMMA NextTriggerStatementStep ==
  ASSUME IInv, NextTriggerStatement PROVE IInv'
<1>1. stack # <<>> /\ signal \in Values /\ signal' = "run"
      /\ UNCHANGED <<reg, stack, verdict, leaked>>
  BY DEF NextTriggerStatement
<1>2. TypeOK'
  BY <1>1 DEF IInv, TypeOK
<1>3. Match'
  BY <1>1 DEF IInv, Match, Panics, Values
<1>4. QED
  BY <1>1, <1>2, <1>3, SameStack

(* The scope under a construct that puts nothing but the scope back.       *)
LEMMA ScopeBelow ==
  ASSUME IInv, stack # <<>>, Top.kind \in {"loop", "try", "catch"}
  PROVE  /\ "env" \notin leaked => Top.should.env = Top.saved.env + 1
         /\ Len(stack) \in 2..Len(stack)
<1>1. TypeOK /\ Chain /\ Len(stack) \in 2..Len(stack)
  BY AboveTest DEF IInv
<1>2. Top = stack[Len(stack)]
  BY <1>1, TopFacts
<1>3. Top.should.env = stack[Len(stack) - 1].should.env + 1
  BY <1>1, <1>2 DEF Chain
<1>4. "env" \in Registers /\ "env" \in Restores(Top.kind)
  BY DEF Registers, Restores
<1>5. "env" \notin leaked => stack[Len(stack) - 1].should.env = Top.saved.env
  BY <1>1, <1>2, <1>4 DEF Chain
<1>6. QED
  BY <1>1, <1>3, <1>5

LEMMA LoopAgainStep ==
  ASSUME IInv, LoopAgain PROVE IInv'
<1>1. stack # <<>> /\ Top.kind = "loop" /\ signal \in Values
      /\ reg' = [reg EXCEPT !.env = Top.saved.env + 1] /\ signal' = "run"
      /\ UNCHANGED <<stack, verdict, leaked>>
  BY DEF LoopAgain, NextTurn, Values
<1>2. Top.saved.env + 1 \in Nat
  BY <1>1, TopFacts, NextScope DEF IInv
<1>3. TypeOK'
  <2>1. reg' \in RegisterSet
    BY <1>1, <1>2 DEF IInv, TypeOK, RegisterSet
  <2>2. QED
    BY <1>1, <2>1 DEF IInv, TypeOK
<1>4. Match'
  <2>1. DOMAIN reg = Registers
    BY RegistersOf DEF IInv, TypeOK
  <2>2. \A r \in Registers \ leaked : r # "env" => reg[r] = Top.should[r]
    BY <1>1 DEF IInv, Match, Top
  <2>3. "env" \notin leaked => Top.should.env = Top.saved.env + 1
    BY <1>1, ScopeBelow
  <2>4. \A r \in Registers \ leaked : reg'[r] = Top.should[r]
    BY <1>1, <2>1, <2>2, <2>3
  <2>5. QED
    BY <1>1, <2>4 DEF Match, Top
<1>5. QED
  BY <1>1, <1>3, <1>4, SameStack

LEMMA TryThrowStep ==
  ASSUME IInv, TryThrow PROVE IInv'
<1>1. stack # <<>> /\ Top.kind = "try" /\ reg' = Restored(Top)
      /\ signal' = "exception" /\ UNCHANGED <<stack, verdict, leaked>>
  BY DEF TryThrow
<1>2. TypeOK'
  <2>1. reg' \in RegisterSet
    BY <1>1, TopFacts, RestoredType DEF IInv
  <2>2. QED
    BY <1>1, <2>1 DEF IInv, TypeOK, Panics
<1>3. Match'
  <2>1. \A r \in Registers \ leaked : r # "env" => reg[r] = Top.should[r]
    BY <1>1 DEF IInv, Match, Top
  <2>2. \A r \in Registers : r # "env" => reg'[r] = reg[r]
    BY <1>1 DEF Restored, Restores
  <2>3. QED
    BY <1>1, <2>1, <2>2 DEF Match, Top, Panics
<1>4. QED
  BY <1>1, <1>2, <1>3, SameStack

(* A try goes on as its catch or its finally block: the last frame e is    *)
(* the old one but for what it saved and the block it runs.                *)
LEMMA ReplaceStep ==
  ASSUME IInv, stack # <<>>, Top.kind \in {"try", "catch"},
         NEW e \in Frame, stack' = Append(Front(stack), e),
         e.kind \in {"catch", "finally"}, e.should = Top.should,
         e.kind = "finally" => e.arg \in Values,
         "env" \in leaked' \/ e.saved.env = Top.saved.env,
         leaked' = leaked \/ leaked' = leaked \cup {"env"},
         signal' = "run", verdict' = verdict, reg' \in RegisterSet,
         \A r \in Registers \ leaked' : reg'[r] = e.should[r]
  PROVE  IInv'
<1> DEFINE n == Len(stack)
<1>1. TypeOK /\ Chain /\ n \in 2..n /\ n \in Nat
  BY ScopeBelow, TopFacts DEF IInv
<1>2. /\ stack' \in Seq(Frame) /\ Len(stack') = n
      /\ \A i \in 1..(n - 1) : stack'[i] = stack[i]
      /\ stack'[n] = e
  BY <1>1, ReplaceFacts DEF TypeOK
<1>3. stack' # <<>> /\ Last(stack') = e /\ stack'[1] = stack[1]
  BY <1>1, <1>2, EmptySeq DEF Last
<1>4. Top = stack[n]
  BY <1>1, TopFacts
<1>5. TypeOK'
  BY <1>1, <1>2 DEF TypeOK, Registers
<1>6. ASSUME NEW i \in 1..n
      PROVE  /\ (i = 1) <=> (stack'[i].kind \in {"fixture", "test"})
             /\ stack'[i].kind = "finally" => stack'[i].arg \in Values
  <2>1. CASE i = n
    BY <1>1, <1>2, <2>1
  <2>2. CASE i # n
    <3>1. i \in 1..(n - 1)
      BY <1>1, <2>2
    <3>2. QED
      BY <1>1, <1>2, <3>1 DEF Chain
  <2>3. QED
    BY <2>1, <2>2
<1>7. ASSUME NEW i \in 2..n
      PROVE  /\ stack'[i].should.env = stack'[i - 1].should.env + 1
             /\ \A r \in Registers \ leaked' :
                  stack'[i - 1].should[r] =
                    IF r \in Restores(stack'[i].kind) THEN stack'[i].saved[r]
                                                      ELSE stack'[i].should[r]
  <2>0. i - 1 \in 1..(n - 1) /\ stack'[i - 1] = stack[i - 1]
        /\ stack[i].should.env = stack[i - 1].should.env + 1
        /\ \A r \in Registers \ leaked' :
             stack[i - 1].should[r] =
               IF r \in Restores(stack[i].kind) THEN stack[i].saved[r]
                                                ELSE stack[i].should[r]
    BY <1>1, <1>2 DEF Chain
  <2>1. CASE i = n
    <3>1. Restores(Top.kind) = {"env"} /\ Restores(e.kind) = {"env"}
      BY DEF Restores
    <3>2. QED
      BY <1>2, <1>4, <2>0, <2>1, <3>1
  <2>2. CASE i # n
    <3>1. stack'[i] = stack[i]
      BY <1>1, <1>2, <2>2
    <3>2. QED
      BY <2>0, <3>1
  <2>3. QED
    BY <2>1, <2>2
<1>8. Chain'
  BY <1>2, <1>6, <1>7 DEF Chain
<1>9. Bottom' /\ Match' /\ TestsPutBack'
  BY <1>3 DEF IInv, Bottom, Match, TestsPutBack
<1>10. "class" \in leaked' => "caller" \in leaked'
  BY DEF IInv
<1>11. QED
  BY <1>5, <1>8, <1>9, <1>10 DEF IInv

LEMMA CatchStep ==
  ASSUME IInv, Catch PROVE IInv'
<1> DEFINE e == [Top EXCEPT !.kind = "catch", !.saved = reg]
<1>1. stack # <<>> /\ Top.kind = "try" /\ signal' = "run"
      /\ stack' = Append(Front(stack), e)
      /\ leaked' = leaked \cup {"env"} /\ verdict' = verdict
  BY DEF Catch
<1>2. reg' = [reg EXCEPT !.env = reg.env + 1]
  BY DEF Catch
<1>3. reg \in RegisterSet /\ Top \in Frame
  BY <1>1, TopFacts DEF IInv, TypeOK
<1>4. reg' \in RegisterSet
  BY <1>2, <1>3, NextScope DEF RegisterSet
<1>5. e \in Frame /\ e.kind = "catch" /\ e.should = Top.should
  BY <1>3 DEF Frame, Kinds
<1> HIDE DEF e
<1>6. DOMAIN reg = Registers
  BY <1>3, RegistersOf
<1>7. \A r \in Registers \ leaked' : reg'[r] = e.should[r]
  BY <1>1, <1>2, <1>5, <1>6 DEF IInv, Match, Top
<1>8. "env" \in leaked'
  BY <1>1
<1>9. QED
  BY <1>1, <1>4, <1>5, <1>7, <1>8, ReplaceStep

LEMMA FinallyStep ==
  ASSUME IInv, Finally PROVE IInv'
<1> DEFINE e == [Top EXCEPT !.kind = "finally", !.arg = signal,
                            !.saved = Restored(Top)]
<1>1. stack # <<>> /\ Top.kind \in {"try", "catch"} /\ signal' = "run"
      /\ stack' = Append(Front(stack), e) /\ signal \in Values
      /\ leaked' = leaked /\ verdict' = verdict
  BY DEF Finally
<1>2. reg' = [Restored(Top) EXCEPT !.env = Restored(Top).env + 1]
  BY DEF Finally
<1>3. TypeOK /\ Top \in Frame /\ Top.saved \in RegisterSet
  BY <1>1, TopFacts DEF IInv
<1>4. Restored(Top) \in RegisterSet
  BY <1>3, RestoredType
<1>5. reg' \in RegisterSet
  BY <1>2, <1>4, NextScope DEF RegisterSet
<1>6. e.kind = "finally" /\ e.should = Top.should /\ e.arg = signal
      /\ e.saved = Restored(Top)
  BY <1>3 DEF Frame
<1>7. e \in Frame
  <2> DEFINE d == [Top EXCEPT !.kind = "finally", !.arg = signal]
  <2>1. d \in Frame
    BY <1>1, <1>3 DEF Frame, Kinds
  <2>2. e = [d EXCEPT !.saved = Restored(Top)]
    OBVIOUS
  <2> HIDE DEF d, e
  <2>3. QED
    BY <1>4, <2>1, <2>2 DEF Frame
<1> HIDE DEF e
<1>8. Restored(Top).env = Top.saved.env
  BY <1>1 DEF Restored, Restores, Registers
<1>9. DOMAIN Restored(Top) = Registers
  BY <1>4, RegistersOf
<1>10. \A r \in Registers \ leaked : reg'[r] = e.should[r]
  <2>1. "env" \notin leaked => Top.should.env = Top.saved.env + 1
    BY <1>1, ScopeBelow
  <2>2. \A r \in Registers \ leaked : r # "env" =>
          reg[r] = Top.should[r] /\ Restored(Top)[r] = reg[r]
    BY <1>1 DEF IInv, Match, Top, Restored, Restores
  <2>3. QED
    BY <1>2, <1>6, <1>8, <1>9, <2>1, <2>2
<1>11. QED
  BY <1>1, <1>5, <1>6, <1>7, <1>8, <1>10, ReplaceStep

(* All the ways a construct ends. *)
LEMMA LeavingSteps ==
  ASSUME IInv,
         EndScope \/ EndCall \/ EndLoop \/ EndTrigger \/ EndTry \/ EndFinally
  PROVE  IInv'
<1>1. CASE EndScope
  BY <1>1, LeaveStep DEF EndScope, Result
<1>2. CASE EndCall
  BY <1>2, LeaveStep DEF EndCall, Calls
<1>3. CASE EndLoop
  BY <1>3, LeaveStep DEF EndLoop, Values
<1>4. CASE EndTrigger
  BY <1>4, LeaveStep DEF EndTrigger, Values, Panics
<1>5. CASE EndTry
  BY <1>5, LeaveStep DEF EndTry, Result
<1>6. CASE EndFinally
  <2>1. Top.arg \in Values
    BY <1>6, TopFacts DEF EndFinally, IInv, Chain
  <2>2. QED
    BY <1>6, <2>1, LeaveStep DEF EndFinally, Result
<1>7. QED
  BY <1>1, <1>2, <1>3, <1>4, <1>5, <1>6

----------------------------------------------------------------------------
(* One test after another.                                                 *)
LEMMA InitialType == Initial \in RegisterSet
BY DEF Initial, RegisterSet

LEMMA OneFrame ==
  ASSUME NEW e \in Frame
  PROVE  /\ <<e>> \in Seq(Frame) /\ Len(<<e>>) = 1 /\ <<e>>[1] = e
         /\ <<e>> # <<>> /\ Last(<<e>>) = e
BY DEF Last

LEMMA TestIsAlone ==
  ASSUME TypeOK, Chain, stack # <<>>, Top.kind \in {"fixture", "test"}
  PROVE  Len(stack) = 1 /\ Top = stack[1]
<1>1. Len(stack) \in 1..Len(stack) /\ Top = stack[Len(stack)]
  BY TopFacts
<1>2. QED
  BY <1>1 DEF Chain

LEMMA BeginTestStep ==
  ASSUME IInv, NEW c \in TestClasses, BeginTest(c) PROVE IInv'
<1> DEFINE s == [Initial EXCEPT !.env = 1, !.class = c]
           e == [kind |-> "fixture", arg |-> c, saved |-> reg,
                 should |-> s, code |-> c]
<1>1. stack = <<>> /\ verdict # "crashed" /\ stack' = <<e>>
      /\ verdict' = "none" /\ UNCHANGED <<signal, leaked>>
  BY DEF BeginTest
<1>2. reg' = [reg EXCEPT !.env = 1, !.class = c]
  BY DEF BeginTest
<1>3. reg \in RegisterSet /\ c \in Classes
  BY InterpAssumption DEF IInv, TypeOK
<1>4. s \in RegisterSet
  BY <1>3 DEF RegisterSet, Initial
<1>5. reg' \in RegisterSet
  BY <1>2, <1>3 DEF RegisterSet
<1>6. DOMAIN reg = Registers /\ DOMAIN Initial = Registers
  BY <1>3, InitialType, RegistersOf
<1>7. \A r \in Registers \ leaked : reg[r] = Initial[r]
  BY <1>1 DEF IInv, Match
<1>8. \A r \in Registers \ leaked : reg'[r] = s[r]
  BY <1>2, <1>6, <1>7
<1>9. /\ \A r \in Restores("test") : reg[r] = Initial[r]
      /\ \A r \in Registers \ Restores("test") : s[r] = Initial[r]
  BY <1>1, <1>6 DEF IInv, TestsPutBack, Restores
<1> HIDE DEF s
<1>10. e \in Frame /\ e.kind = "fixture" /\ e.saved = reg /\ e.should = s
       /\ e.arg = c
  BY <1>3, <1>4 DEF Frame, Kinds
<1> HIDE DEF e
<1>11. /\ stack' \in Seq(Frame) /\ Len(stack') = 1 /\ stack'[1] = e
       /\ stack' # <<>> /\ Last(stack') = e
  BY <1>1, <1>10, OneFrame
<1>12. TypeOK'
  BY <1>1, <1>5, <1>11 DEF IInv, TypeOK
<1>13. Chain'
  BY <1>10, <1>11 DEF Chain
<1>14. Bottom'
  BY <1>3, <1>9, <1>10, <1>11 DEF Bottom
<1>15. Match' /\ TestsPutBack'
  BY <1>1, <1>8, <1>10, <1>11 DEF Match, TestsPutBack
<1>16. QED
  BY <1>1, <1>12, <1>13, <1>14, <1>15 DEF IInv

LEMMA RunTestStep ==
  ASSUME IInv, RunTest PROVE IInv'
<1> DEFINE s == OnInstance(Top.arg, Top.should)
           e == [Top EXCEPT !.kind = "test", !.should = s]
<1>1. stack # <<>> /\ Top.kind = "fixture" /\ signal = "done"
      /\ stack' = <<e>> /\ signal' = "run" /\ UNCHANGED <<verdict, leaked>>
  BY DEF RunTest
<1>2. reg' = [reg EXCEPT !.env = reg.env + 1, !.this = Top.arg]
  BY DEF RunTest, OnInstance
<1>3. reg \in RegisterSet /\ Top \in Frame /\ Top.should \in RegisterSet
      /\ Len(stack) = 1 /\ Top = stack[1]
  BY <1>1, TopFacts, TestIsAlone DEF IInv, TypeOK
<1>4. Top.arg \in Classes /\ reg.env + 1 \in Nat /\ Top.should.env + 1 \in Nat
  BY <1>1, <1>3, NextScope DEF IInv, Bottom
<1>5. reg' \in RegisterSet
  BY <1>2, <1>3, <1>4 DEF RegisterSet
<1>6. s \in RegisterSet
  BY <1>3, <1>4 DEF RegisterSet, OnInstance
<1>7. DOMAIN reg = Registers /\ DOMAIN Top.should = Registers
  BY <1>3, RegistersOf
<1>8. \A r \in Registers \ leaked : reg[r] = Top.should[r]
  BY <1>1 DEF IInv, Match, Top, Panics
<1>9. /\ \A r \in Registers \ leaked : reg'[r] = s[r]
      /\ \A r \in Registers \ Restores("test") : s[r] = Top.should[r]
  <2>1. "env" \in Registers
    BY DEF Registers
  <2>2. QED
    BY <1>2, <1>7, <1>8, <2>1 DEF Restores, OnInstance
<1> HIDE DEF s
<1>10. e \in Frame /\ e.kind = "test" /\ e.saved = Top.saved /\ e.should = s
       /\ e.arg = Top.arg
  BY <1>3, <1>6 DEF Frame, Kinds
<1> HIDE DEF e
<1>11. /\ stack' \in Seq(Frame) /\ Len(stack') = 1 /\ stack'[1] = e
       /\ stack' # <<>> /\ Last(stack') = e
  BY <1>1, <1>10, OneFrame
<1>12. TypeOK'
  BY <1>1, <1>5, <1>11 DEF IInv, TypeOK
<1>13. Chain'
  BY <1>10, <1>11 DEF Chain
<1>14. Bottom'
  BY <1>1, <1>3, <1>9, <1>10, <1>11 DEF IInv, Bottom
<1>15. Match' /\ TestsPutBack'
  BY <1>1, <1>9, <1>10, <1>11 DEF Match, TestsPutBack
<1>16. QED
  BY <1>1, <1>12, <1>13, <1>14, <1>15 DEF IInv

LEMMA CrashStep ==
  ASSUME IInv, Crash PROVE IInv'
<1>1. stack' = <<>> /\ signal' = "run" /\ verdict' = "crashed"
      /\ UNCHANGED <<reg, leaked>>
  BY DEF Crash
<1>2. TypeOK'
  BY <1>1, EmptySeq DEF IInv, TypeOK
<1>3. Chain' /\ Bottom' /\ Match' /\ TestsPutBack'
  BY <1>1, EmptySeq DEF Chain, Bottom, Match, TestsPutBack
<1>4. QED
  BY <1>1, <1>2, <1>3 DEF IInv

LEMMA EndTestStep ==
  ASSUME IInv, EndTest PROVE IInv'
<1>1. stack # <<>> /\ Top.kind = "test" /\ reg' = Restored(Top)
      /\ stack' = <<>> /\ signal' = "run"
      /\ verdict' \in {"failed", "passed"} /\ leaked' = leaked \ Restores("test")
  BY DEF EndTest, AfterTest
<1>2. TypeOK /\ Top.saved \in RegisterSet /\ Top = stack[1]
  BY <1>1, TopFacts, TestIsAlone DEF IInv
<1>3. TypeOK'
  <2>1. reg' \in RegisterSet
    BY <1>1, <1>2, RestoredType
  <2>2. QED
    BY <1>1, <1>2, <2>1, EmptySeq DEF TypeOK
<1>4. ASSUME NEW r \in Registers, r \in Restores("test") \/ r \notin leaked
      PROVE  reg'[r] = Initial[r]
  <2>1. CASE r \in Restores("test")
    BY <1>1, <1>2, <2>1 DEF IInv, Bottom, Restored
  <2>2. CASE r \notin Restores("test") /\ r \notin leaked
    <3>1. reg[r] = Top.should[r]
      BY <1>1, <2>2 DEF IInv, Match, Top, Restores
    <3>2. Top.should[r] = Initial[r]
      BY <1>1, <1>2, <2>2 DEF IInv, Bottom
    <3>3. QED
      BY <1>1, <2>2, <3>1, <3>2 DEF Restored
  <2>3. QED
    BY <1>4, <2>1, <2>2
<1>5. Chain' /\ Bottom'
  BY <1>1, EmptySeq DEF Chain, Bottom
<1>6. Match'
  BY <1>1, <1>4 DEF Match
<1>7. TestsPutBack'
  BY <1>4 DEF TestsPutBack, Restores, Registers
<1>8. "class" \in leaked' => "caller" \in leaked'
  BY <1>1 DEF Restores
<1>9. QED
  BY <1>3, <1>5, <1>6, <1>7, <1>8 DEF IInv

----------------------------------------------------------------------------
LEMMA InitIInv == Init => IInv
<1> SUFFICES ASSUME Init PROVE IInv
  OBVIOUS
<1>1. reg = Initial /\ stack = <<>> /\ signal = "run" /\ leaked = {}
      /\ verdict = "none"
  BY DEF Init
<1>2. TypeOK
  BY <1>1, InitialType, EmptySeq DEF TypeOK
<1>3. Chain /\ Bottom /\ Match /\ TestsPutBack
  BY <1>1, EmptySeq DEF Chain, Bottom, Match, TestsPutBack
<1>4. QED
  BY <1>1, <1>2, <1>3 DEF IInv

(* The constructs entered, with the class whose code each runs. *)
LEMMA EnteringSteps ==
  ASSUME IInv,
         \/ \E c \in Classes : StaticCall(c) \/ InstanceCall(c) \/ New(c)
         \/ ThisCall \/ LocalCall \/ OwnCall \/ Block \/ Loop
         \/ \E ph \in Phases : Trigger(ph)
         \/ \E u \in Users : RunAs(u)
         \/ \E h \in Handlers : Try(h)
  PROVE  IInv'
<1>1. reg.class \in Classes \cup {None}
  BY DEF IInv, TypeOK, RegisterSet
<1>2. stack # <<>> => Top.code \in Classes \cup {None}
  BY TopFacts DEF IInv, Frame
<1>3. ASSUME NEW c \in Classes, StaticCall(c) \/ InstanceCall(c) \/ New(c)
      PROVE  IInv'
  BY <1>3, EnterStep DEF StaticCall, InstanceCall, New, Entered
<1>4. CASE ThisCall \/ LocalCall \/ OwnCall
  <2>1. reg.this \in Classes \cup {None}
    BY DEF IInv, TypeOK, RegisterSet
  <2>2. QED
    BY <1>1, <1>4, <2>1, EnterStep DEF ThisCall, LocalCall, OwnCall, Entered
<1>5. CASE Block \/ Loop
  BY <1>2, <1>5, EnterStep DEF Block, Loop, InBlock, Entered
<1>6. ASSUME NEW ph \in Phases, Trigger(ph) PROVE IInv'
  BY <1>1, <1>6, EnterStep DEF Trigger, Entered
<1>7. ASSUME NEW u \in Users, RunAs(u) PROVE IInv'
  BY <1>2, <1>7, EnterStep DEF RunAs, InBlock, Entered
<1>8. ASSUME NEW h \in Handlers, Try(h) PROVE IInv'
  BY <1>2, <1>8, EnterStep DEF Try, InBlock, Entered
<1>9. QED
  BY <1>3, <1>4, <1>5, <1>6, <1>7, <1>8

LEMMA StepIInv == IInv /\ [Next]_vars => IInv'
<1> SUFFICES ASSUME IInv, [Next]_vars PROVE IInv'
  OBVIOUS
<1>1. CASE UNCHANGED vars
  BY <1>1 DEF vars, IInv, TypeOK, Chain, Bottom, Match, TestsPutBack
<1>2. ASSUME NEW c \in TestClasses, BeginTest(c) PROVE IInv'
  BY <1>2, BeginTestStep
<1>3. ASSUME NEW s \in Values, Signal(s) PROVE IInv'
  BY <1>3, SignalStep
<1>4. ASSUME NEW p \in Panics, Raise(p) PROVE IInv'
  BY <1>4, SignalStep
<1>5. CASE EndScope \/ EndCall \/ EndLoop \/ EndTrigger \/ EndTry \/ EndFinally
  BY <1>5, LeavingSteps
<1>6. CASE LoopAgain \/ NextTriggerStatement \/ Unwind
  BY <1>6, LoopAgainStep, NextTriggerStatementStep, UnwindStep
<1>7. CASE TryThrow \/ Catch \/ Finally
  BY <1>7, TryThrowStep, CatchStep, FinallyStep
<1>8. CASE RunTest \/ Crash \/ EndTest
  BY <1>8, RunTestStep, CrashStep, EndTestStep
<1>9. QED
  BY <1>1, <1>2, <1>3, <1>4, <1>5, <1>6, <1>7, <1>8, EnteringSteps DEF Next

LEMMA Invariance == Spec => []IInv
BY InitIInv, StepIInv, PTL DEF Spec

(* The registers and the frames keep their types, whatever classes,        *)
(* triggers and users there are and however deep a program nests.          *)
THEOREM InterpTypeCorrect == Spec => []TypeOK
<1>1. IInv => TypeOK
  BY DEF IInv
<1>2. QED
  BY <1>1, Invariance, PTL

(* Every way of ending a construct other than a panic puts its registers   *)
(* back, in every nesting of calls, constructors, runAs blocks, loops,     *)
(* try statements and triggers.                                            *)
THEOREM NothingElseLeaks == Spec => []OnlyPanicsLeak
<1>1. IInv => OnlyPanicsLeak
  BY DEF IInv, Match, OnlyPanicsLeak, Top, Panics
<1>2. QED
  BY <1>1, Invariance, PTL

(* A test that passes or fails leaves the scope, the instance and the      *)
(* class as the first test found them.                                     *)
THEOREM EveryTestPutsBack == Spec => []TestsPutBack
<1>1. IInv => TestsPutBack
  BY DEF IInv
<1>2. QED
  BY <1>1, Invariance, PTL
-----------------------------------------------------------------------------
(***************************************************************************)
(* The sharing mode, which the interpreter keeps in two registers, is the  *)
(* one the whole chain of calls gives, however long.                       *)
(***************************************************************************)

(* The mode a frame runs with, had no register leaked. *)
FrameMode(f) == Mode(f.should.class, f.should.caller)

Decides(c) == Sharing[c] \in {"with", "without"}

(* That of the entry point, and that of a frame on top of another. *)
EntryMode(c) ==
  IF Decides(c) THEN Sharing[c] ELSE IF Sharing[c] = "inherited" THEN "with" ELSE "without"

Link(f, g) ==
  IF f.kind \in {"static", "instance"}
  THEN f.arg \in Classes /\ FrameMode(f) = IF Decides(f.arg) THEN Sharing[f.arg] ELSE FrameMode(g)
  ELSE FrameMode(f) = FrameMode(g)

Linked ==
  /\ stack # <<>> => FrameMode(stack[1]) = EntryMode(stack[1].arg)
  /\ \A i \in 2..Len(stack) : Link(stack[i], stack[i - 1])

----------------------------------------------------------------------------
(* A class that says so decides; any other leaves its caller's mode.       *)
LEMMA CalledMode ==
  ASSUME NEW g \in RegisterSet, NEW c \in Classes
  PROVE  Mode(Called(c, g).class, Called(c, g).caller) =
           IF Decides(c) THEN Sharing[c] ELSE Mode(g.class, g.caller)
<1> DEFINE m == Mode(g.class, g.caller)
<1>1. m \in {"with", "without"}
  BY ModeType DEF RegisterSet
<1>2. Called(c, g).class = c /\ Called(c, g).caller = m
  BY RegistersOf DEF Called, Registers, RegisterSet
<1> HIDE DEF m
<1>3. c # None
  BY InterpAssumption
<1>4. Mode(c, m) = IF Decides(c) THEN Sharing[c] ELSE m
  BY <1>1, <1>3, InterpAssumption DEF Mode, Decides
<1>5. QED
  BY <1>2, <1>4 DEF m

LEMMA EnteredMode ==
  ASSUME NEW g \in RegisterSet, NEW kind, NEW x, Entered(kind, x)
  PROVE  IF kind \in {"static", "instance"}
         THEN x \in Classes /\ Mode(Begun(kind, x, g).class, Begun(kind, x, g).caller) =
                IF Decides(x) THEN Sharing[x] ELSE Mode(g.class, g.caller)
         ELSE Mode(Begun(kind, x, g).class, Begun(kind, x, g).caller) = Mode(g.class, g.caller)
<1>1. CASE kind = "static"
  BY <1>1, CalledMode DEF Begun, Entered
<1>2. CASE kind = "instance"
  <2>1. x \in Classes /\ Called(x, g) \in RegisterSet
    BY <1>2, CalledType DEF Entered
  <2>2. Begun(kind, x, g) = [Called(x, g) EXCEPT !.this = x]
    BY <1>2 DEF Begun
  <2>3. /\ Begun(kind, x, g).class = Called(x, g).class
        /\ Begun(kind, x, g).caller = Called(x, g).caller
    BY <2>1, <2>2 DEF RegisterSet
  <2>4. QED
    BY <1>2, <2>1, <2>3, CalledMode
<1>3. CASE kind \notin {"static", "instance"}
  <2>1. Begun(kind, x, g).class = g.class /\ Begun(kind, x, g).caller = g.caller
    BY <1>3 DEF Begun, RegisterSet
  <2>2. QED
    BY <1>3, <2>1
<1>4. QED
  BY <1>1, <1>2, <1>3

----------------------------------------------------------------------------
(* A frame on top, the frames but the last, and another last frame.        *)
LEMMA PushLinks ==
  ASSUME TypeOK, Linked, stack # <<>>, NEW f \in Frame, stack' = Append(stack, f),
         Link(f, Top)
  PROVE  Linked'
<1> DEFINE n == Len(stack)
<1>1. /\ Len(stack') = n + 1
      /\ \A i \in 1..n : stack'[i] = stack[i]
      /\ stack'[n + 1] = f
  BY AppendProperties DEF TypeOK
<1>2. n \in Nat \ {0} /\ Top = stack[n]
  BY TopFacts
<1>3. ASSUME NEW i \in 2..(n + 1) PROVE Link(stack'[i], stack'[i - 1])
  <2>1. CASE i \in 2..n
    <3>1. stack'[i] = stack[i] /\ stack'[i - 1] = stack[i - 1]
      BY <1>1, <1>2, <2>1
    <3>2. QED
      BY <2>1, <3>1 DEF Linked
  <2>2. CASE i = n + 1
    <3>1. stack'[i] = f /\ stack'[i - 1] = Top
      BY <1>1, <1>2, <2>2
    <3>2. QED
      BY <3>1
  <2>3. QED
    BY <1>2, <2>1, <2>2
<1>4. stack'[1] = stack[1]
  BY <1>1, <1>2
<1>5. QED
  BY <1>1, <1>3, <1>4 DEF Linked

LEMMA PopLinks ==
  ASSUME TypeOK, Linked, stack # <<>>, stack' = Front(stack) PROVE Linked'
<1> DEFINE n == Len(stack)
<1>1. n \in Nat \ {0} /\ Len(stack') = n - 1 /\ stack' \in Seq(Frame)
      /\ \A i \in 1..(n - 1) : stack'[i] = stack[i]
  BY TopFacts
<1>2. ASSUME NEW i \in 2..(n - 1) PROVE Link(stack'[i], stack'[i - 1])
  <2>1. stack'[i] = stack[i] /\ stack'[i - 1] = stack[i - 1] /\ i \in 2..n
    BY <1>1, <1>2
  <2>2. QED
    BY <2>1 DEF Linked
<1>3. stack' # <<>> => stack'[1] = stack[1]
  <2>1. stack' # <<>> => 1 \in 1..(n - 1)
    BY <1>1, EmptySeq, LenProperties
  <2>2. QED
    BY <1>1, <2>1
<1>4. QED
  BY <1>1, <1>2, <1>3 DEF Linked

LEMMA ReplaceLinks ==
  ASSUME TypeOK, Chain, Linked, stack # <<>>, Top.kind \in {"try", "catch"},
         NEW g \in Frame, g.should = Top.should, g.kind \in {"catch", "finally"},
         stack' = Append(Front(stack), g)
  PROVE  Linked'
<1> DEFINE n == Len(stack)
<1>1. n \in Nat \ {0} /\ Top = stack[n] /\ Front(stack) \in Seq(Frame)
      /\ Len(Front(stack)) = n - 1
      /\ \A i \in 1..(n - 1) : Front(stack)[i] = stack[i]
  BY TopFacts
<1>2. n \in 2..n /\ n - 1 \in 1..n
  BY AboveTest
<1>3. /\ Len(stack') = n
      /\ \A i \in 1..(n - 1) : stack'[i] = stack[i]
      /\ stack'[n] = g
  BY <1>1, AppendProperties
<1>4. Link(g, stack[n - 1])
  <2>1. Link(Top, stack[n - 1])
    BY <1>1, <1>2 DEF Linked
  <2>2. QED
    BY <2>1 DEF Link, FrameMode
<1>5. ASSUME NEW i \in 2..n PROVE Link(stack'[i], stack'[i - 1])
  <2>1. CASE i = n
    BY <1>2, <1>3, <1>4, <2>1
  <2>2. CASE i # n
    <3>1. stack'[i] = stack[i] /\ stack'[i - 1] = stack[i - 1]
      BY <1>1, <1>3, <2>2
    <3>2. QED
      BY <3>1 DEF Linked
  <2>3. QED
    BY <2>1, <2>2
<1>6. stack'[1] = stack[1]
  BY <1>1, <1>2, <1>3
<1>7. QED
  BY <1>3, <1>5, <1>6 DEF Linked

(* A test, alone on the stack, runs with the mode of its class. *)
LEMMA EntryLinks ==
  ASSUME NEW f \in Frame, stack' = <<f>>, FrameMode(f) = EntryMode(f.arg)
  PROVE  Linked'
<1>1. Len(stack') = 1 /\ stack'[1] = f /\ stack' # <<>>
  BY OneFrame
<1>2. 2..Len(stack') = {}
  BY <1>1
<1>3. QED
  BY <1>1, <1>2 DEF Linked

LEMMA SameLinks ==
  ASSUME Linked, stack' = stack PROVE Linked'
BY DEF Linked

LEMMA NoLinks ==
  ASSUME stack' = <<>> PROVE Linked'
<1>1. 2..Len(stack') = {}
  BY EmptySeq
<1>2. QED
  BY <1>1 DEF Linked

----------------------------------------------------------------------------
(* Each step.                                                              *)
LEMMA EnterLinks ==
  ASSUME IInv, Linked, NEW kind, NEW x, Entered(kind, x),
         NEW code \in Classes \cup {None}, Enter(kind, x, code)
  PROVE  Linked'
<1> DEFINE f == [kind |-> kind, arg |-> x, saved |-> reg,
                 should |-> Begun(kind, x, Top.should), code |-> code]
<1>1. TypeOK /\ stack # <<>> /\ stack' = Append(stack, f)
  BY DEF IInv, Enter
<1>2. Top.should \in RegisterSet
  BY <1>1, TopFacts
<1>3. f \in Frame
  <2>1. Begun(kind, x, Top.should) \in RegisterSet
    BY <1>2, BegunType
  <2>2. QED
    BY <1>1, <2>1 DEF Frame, Entered, Kinds, TypeOK
<1>4. f.kind = kind /\ f.arg = x /\ f.should = Begun(kind, x, Top.should)
  OBVIOUS
<1> HIDE DEF f
<1>5. Link(f, Top)
  BY <1>2, <1>4, EnteredMode DEF Link, FrameMode
<1>6. QED
  BY <1>1, <1>3, <1>5, PushLinks

LEMMA EnteringLinks ==
  ASSUME IInv, Linked,
         \/ \E c \in Classes : StaticCall(c) \/ InstanceCall(c) \/ New(c)
         \/ ThisCall \/ LocalCall \/ OwnCall \/ Block \/ Loop
         \/ \E ph \in Phases : Trigger(ph)
         \/ \E u \in Users : RunAs(u)
         \/ \E h \in Handlers : Try(h)
  PROVE  Linked'
<1>1. reg.class \in Classes \cup {None} /\ reg.this \in Classes \cup {None}
  BY DEF IInv, TypeOK, RegisterSet
<1>2. stack # <<>> => Top.code \in Classes \cup {None}
  BY TopFacts DEF IInv, Frame
<1>3. ASSUME NEW c \in Classes, StaticCall(c) \/ InstanceCall(c) \/ New(c)
      PROVE  Linked'
  BY <1>3, EnterLinks DEF StaticCall, InstanceCall, New, Entered
<1>4. CASE ThisCall \/ LocalCall \/ OwnCall
  BY <1>1, <1>4, EnterLinks DEF ThisCall, LocalCall, OwnCall, Entered
<1>5. CASE Block \/ Loop
  BY <1>2, <1>5, EnterLinks DEF Block, Loop, InBlock, Entered
<1>6. ASSUME NEW ph \in Phases, Trigger(ph) PROVE Linked'
  BY <1>1, <1>6, EnterLinks DEF Trigger, Entered
<1>7. ASSUME NEW u \in Users, RunAs(u) PROVE Linked'
  BY <1>2, <1>7, EnterLinks DEF RunAs, InBlock, Entered
<1>8. ASSUME NEW h \in Handlers, Try(h) PROVE Linked'
  BY <1>2, <1>8, EnterLinks DEF Try, InBlock, Entered
<1>9. QED
  BY <1>3, <1>4, <1>5, <1>6, <1>7, <1>8

LEMMA LeavingLinks ==
  ASSUME IInv, Linked,
         EndScope \/ EndCall \/ EndLoop \/ EndTrigger \/ EndTry \/ EndFinally
           \/ Unwind
  PROVE  Linked'
<1>1. stack # <<>> /\ stack' = Front(stack)
  BY DEF EndScope, EndCall, EndLoop, EndTrigger, EndTry, EndFinally, Unwind, Leave
<1>2. QED
  BY <1>1, PopLinks DEF IInv

LEMMA TryLinks ==
  ASSUME IInv, Linked, Catch \/ Finally PROVE Linked'
<1>1. TypeOK /\ Chain /\ stack # <<>> /\ Top.kind \in {"try", "catch"}
  BY DEF IInv, Catch, Finally
<1>2. Top \in Frame
  BY <1>1, TopFacts
<1>3. CASE Catch
  <2> DEFINE g == [Top EXCEPT !.kind = "catch", !.saved = reg]
  <2>1. stack' = Append(Front(stack), g)
    BY <1>3 DEF Catch
  <2>2. g \in Frame /\ g.kind = "catch" /\ g.should = Top.should
    BY <1>1, <1>2 DEF Frame, Kinds, TypeOK
  <2> HIDE DEF g
  <2>3. QED
    BY <1>1, <2>1, <2>2, ReplaceLinks
<1>4. CASE Finally
  <2> DEFINE g == [Top EXCEPT !.kind = "finally", !.arg = signal,
                              !.saved = Restored(Top)]
  <2>1. stack' = Append(Front(stack), g) /\ signal \in Values
    BY <1>4 DEF Finally
  <2>2. Restored(Top) \in RegisterSet
    BY <1>1, TopFacts, RestoredType
  <2>3. g \in Frame /\ g.kind = "finally" /\ g.should = Top.should
    BY <1>2, <2>1, <2>2 DEF Frame, Kinds
  <2> HIDE DEF g
  <2>4. QED
    BY <1>1, <2>1, <2>3, ReplaceLinks
<1>5. QED
  BY <1>3, <1>4

LEMMA BeginTestLinks ==
  ASSUME IInv, Linked, NEW c \in TestClasses, BeginTest(c) PROVE Linked'
<1> DEFINE s == [Initial EXCEPT !.env = 1, !.class = c]
           e == [kind |-> "fixture", arg |-> c, saved |-> reg,
                 should |-> s, code |-> c]
<1>1. stack' = <<e>>
  BY DEF BeginTest
<1>2. c \in Classes /\ c # None /\ reg \in RegisterSet
  BY InterpAssumption DEF IInv, TypeOK
<1>3. s \in RegisterSet /\ s.class = c /\ s.caller = ""
  BY <1>2 DEF RegisterSet, Initial
<1> HIDE DEF s
<1>4. e \in Frame /\ e.arg = c /\ e.should = s
  BY <1>2, <1>3 DEF Frame, Kinds
<1> HIDE DEF e
<1>5. FrameMode(e) = EntryMode(c)
  BY <1>2, <1>3, <1>4 DEF FrameMode, EntryMode, Mode, Decides
<1>6. QED
  BY <1>1, <1>4, <1>5, EntryLinks

LEMMA RunTestLinks ==
  ASSUME IInv, Linked, RunTest PROVE Linked'
<1> DEFINE s == OnInstance(Top.arg, Top.should)
           e == [Top EXCEPT !.kind = "test", !.should = s]
<1>1. stack # <<>> /\ Top.kind = "fixture" /\ stack' = <<e>>
  BY DEF RunTest
<1>2. Top \in Frame /\ Top.should \in RegisterSet /\ Top = stack[1]
  BY <1>1, TopFacts, TestIsAlone DEF IInv
<1>3. Top.arg \in Classes /\ Top.should.env + 1 \in Nat
  BY <1>1, <1>2, NextScope DEF IInv, Bottom
<1>4. s \in RegisterSet /\ s.class = Top.should.class
      /\ s.caller = Top.should.caller
  BY <1>2, <1>3 DEF RegisterSet, OnInstance
<1> HIDE DEF s
<1>5. e \in Frame /\ e.should = s /\ e.arg = Top.arg
  BY <1>2, <1>4 DEF Frame, Kinds
<1> HIDE DEF e
<1>6. FrameMode(e) = EntryMode(e.arg)
  BY <1>1, <1>2, <1>4, <1>5 DEF FrameMode, Linked
<1>7. QED
  BY <1>1, <1>5, <1>6, EntryLinks

LEMMA StepLinks ==
  IInv /\ Linked /\ [Next]_vars => Linked'
<1> SUFFICES ASSUME IInv, Linked, [Next]_vars PROVE Linked'
  OBVIOUS
<1>1. CASE UNCHANGED vars
  BY <1>1, SameLinks DEF vars
<1>2. ASSUME NEW c \in TestClasses, BeginTest(c) PROVE Linked'
  BY <1>2, BeginTestLinks
<1>3. CASE \/ \E s \in Values : Signal(s)
           \/ \E p \in Panics : Raise(p)
           \/ LoopAgain \/ NextTriggerStatement \/ TryThrow
  <2>1. stack' = stack
    BY <1>3 DEF Signal, Raise, LoopAgain, NextTriggerStatement, TryThrow
  <2>2. QED
    BY <2>1, SameLinks
<1>4. CASE Crash \/ EndTest
  <2>1. stack' = <<>>
    BY <1>4 DEF Crash, EndTest
  <2>2. QED
    BY <2>1, NoLinks
<1>5. CASE EndScope \/ EndCall \/ EndLoop \/ EndTrigger \/ EndTry \/ EndFinally
             \/ Unwind
  BY <1>5, LeavingLinks
<1>6. CASE Catch \/ Finally
  BY <1>6, TryLinks
<1>7. CASE RunTest
  BY <1>7, RunTestLinks
<1>8. QED
  BY <1>1, <1>2, <1>3, <1>4, <1>5, <1>6, <1>7, EnteringLinks DEF Next

LEMMA LinksHold == Spec => []Linked
<1>1. Init => Linked
  BY EmptySeq DEF Init, Linked
<1>2. QED
  BY <1>1, StepLinks, Invariance, PTL DEF Spec

----------------------------------------------------------------------------
(* From one frame to the next, up to the last: the mode of a frame is that *)
(* of the last class called, no later than it, that decides.               *)
Upto(i) == {j \in Deciding(stack) : j <= i}

ModeAt(i) ==
  IF Upto(i) # {} THEN Sharing[stack[Max(Upto(i))].arg] ELSE EntryMode(stack[1].arg)

LEMMA GreatestIs ==
  ASSUME NEW n \in Nat, NEW A, A \subseteq 0..n, n \in A PROVE Max(A) = n
<1>1. Max(A) \in A /\ \A y \in A : y <= Max(A)
  BY Maximum
<1>2. Max(A) \in 0..n /\ n <= Max(A)
  BY <1>1
<1>3. QED
  BY <1>2

LEMMA NextUpto ==
  ASSUME TypeOK, NEW i \in 1..Len(stack)
  PROVE  /\ i \in Deciding(stack) => Max(Upto(i)) = i /\ Upto(i) # {}
         /\ i \notin Deciding(stack) => Upto(i) = Upto(i - 1)
<1>1. Len(stack) \in Nat /\ i \in Nat
  BY LenProperties DEF TypeOK
<1>2. Deciding(stack) \subseteq 1..Len(stack)
  BY DEF Deciding, CallFrames
<1>3. Upto(i) \subseteq 0..i
  BY <1>1, <1>2 DEF Upto
<1>4. ASSUME i \in Deciding(stack) PROVE Max(Upto(i)) = i /\ Upto(i) # {}
  <2>1. i \in Upto(i)
    BY <1>1, <1>4 DEF Upto
  <2>2. QED
    BY <1>1, <1>3, <2>1, GreatestIs
<1>5. ASSUME i \notin Deciding(stack) PROVE Upto(i) = Upto(i - 1)
  <2>1. \A j \in Deciding(stack) : j <= i <=> j <= i - 1
    BY <1>1, <1>2, <1>5
  <2>2. QED
    BY <2>1 DEF Upto
<1>6. QED
  BY <1>4, <1>5

LEMMA ModesFollow ==
  ASSUME IInv, Linked, stack # <<>> PROVE FrameMode(Top) = ModeAt(Len(stack))
<1> DEFINE n == Len(stack)
           T == {i \in 0..n : i # 0 => FrameMode(stack[i]) = ModeAt(i)}
<1>1. TypeOK /\ n \in Nat \ {0} /\ Top = stack[n]
  BY TopFacts DEF IInv
<1>2. 0 \in T
  BY <1>1
<1>3. ASSUME NEW i \in 0..(n - 1), i \in T PROVE i + 1 \in T
  <2>1. i + 1 \in 1..n /\ i + 1 - 1 = i
    BY <1>1
  <2>2. i + 1 \in CallFrames(stack) <=>
          stack[i + 1].kind \in {"fixture", "test", "static", "instance"}
    BY <2>1 DEF CallFrames
  <2>3. i + 1 \in Deciding(stack) <=>
          i + 1 \in CallFrames(stack) /\ Decides(stack[i + 1].arg)
    BY DEF Deciding, Decides
  <2>4. /\ i + 1 \in Deciding(stack) => ModeAt(i + 1) = Sharing[stack[i + 1].arg]
        /\ i + 1 \notin Deciding(stack) => Upto(i + 1) = Upto(i)
    BY <1>1, <2>1, NextUpto DEF ModeAt
  <2>5. CASE i = 0
    <3>1. stack[1].kind \in {"fixture", "test"}
      BY <1>1, <2>1, <2>5 DEF IInv, Chain
    <3>2. FrameMode(stack[1]) = EntryMode(stack[1].arg)
      BY DEF Linked
    <3>3. Upto(0) = {}
      BY DEF Upto, Deciding, CallFrames
    <3>4. FrameMode(stack[1]) = ModeAt(1)
      BY <2>2, <2>3, <2>4, <2>5, <3>1, <3>2, <3>3 DEF ModeAt, EntryMode
    <3>5. QED
      BY <2>1, <2>5, <3>4
  <2>6. CASE i # 0
    <3>1. i + 1 \in 2..n
      BY <2>1, <2>6
    <3>2. stack[i + 1].kind \notin {"fixture", "test"}
      BY <2>1, <2>6 DEF IInv, Chain
    <3>3. Link(stack[i + 1], stack[i])
      BY <2>1, <3>1 DEF Linked
    <3>4. FrameMode(stack[i]) = ModeAt(i)
      BY <1>3, <2>6
    <3>5. i + 1 \notin Deciding(stack) => ModeAt(i + 1) = ModeAt(i)
      BY <2>4 DEF ModeAt
    <3>6. FrameMode(stack[i + 1]) = ModeAt(i + 1)
      BY <2>2, <2>3, <2>4, <3>2, <3>3, <3>4, <3>5 DEF Link
    <3>7. QED
      BY <2>1, <3>6
  <2>7. QED
    BY <2>5, <2>6
<1>4. n \in T
  <2> HIDE DEF T
  <2>1. QED
    BY <1>1, <1>2, <1>3, Induction
<1>5. QED
  BY <1>1, <1>4

(* The sharing mode of the code in progress is the one its chain of calls  *)
(* gives, however many calls, constructors, triggers and blocks it has,    *)
(* unless a panic cut off a construct that still had the class or the      *)
(* caller's mode to put back.                                              *)
THEOREM SharingIsTheChains == Spec => []SharingFollowsCalls
<1>1. IInv /\ Linked => SharingFollowsCalls
  <2> SUFFICES ASSUME IInv, Linked, stack # <<>>, signal = "run",
                      leaked \cap {"class", "caller"} = {}
               PROVE  Mode(reg.class, reg.caller) = ChainMode(stack)
    BY DEF SharingFollowsCalls
  <2>1. TypeOK /\ Top \in Frame /\ Top.should \in RegisterSet
        /\ Len(stack) \in Nat \ {0}
    BY TopFacts DEF IInv
  <2>2. reg["class"] = Top.should["class"] /\ reg["caller"] = Top.should["caller"]
    BY DEF IInv, Match, Top, Registers
  <2>3. Mode(reg.class, reg.caller) = FrameMode(Top)
    BY <2>2 DEF FrameMode
  <2>4. Upto(Len(stack)) = Deciding(stack)
    BY <2>1 DEF Upto, Deciding, CallFrames
  <2>5. Deciding(stack) = {} => ~Decides(stack[1].arg)
    <3>1. stack[1].kind \in {"fixture", "test"} /\ 1 \in 1..Len(stack)
      BY <2>1 DEF IInv, Chain
    <3>2. QED
      BY <3>1 DEF Deciding, CallFrames, Decides
  <2>6. ModeAt(Len(stack)) = ChainMode(stack)
    BY <2>4, <2>5 DEF ModeAt, ChainMode, EntryMode
  <2>7. QED
    BY <2>3, <2>6, ModesFollow
<1>2. QED
  BY <1>1, Invariance, LinksHold, PTL
=============================================================================
